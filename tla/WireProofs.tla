----------------------------- MODULE WireProofs -----------------------------
(***************************************************************************)
(* Proofs about Wire and Arrays, for integers of every width, texts, rows, *)
(* metadata and arrays of every size, every transmission the server may    *)
(* send and every byte at which the stream may end.                        *)
(*                                                                         *)
(* The argument goes from the bottom of the codec to the top, and at each  *)
(* level says the same: a reader, given what the writer of that level      *)
(* wrote and any bytes after it, returns the Go value of what was written  *)
(* and leaves exactly those bytes.                                         *)
(*                                                                         *)
(*   1. induction, sequences, flattened sequences;                         *)
(*   2. integers: GetNum inverts PutNum;                                   *)
(*   3. RowInput: the primitives, and the sticky error, after which        *)
(*      every read returns its zero value;                                 *)
(*   4. loops (ReadEach) of such reads;                                    *)
(*   5. scans (ScanFrom): positions in a text made of parts; modified      *)
(*      UTF-8;                                                             *)
(*   6. scalars, arrays, values, rows, blocks of rows, column types,       *)
(*      columns, metadata, fields, frames;                                 *)
(*   7. times and intervals: what a value means to the reader;             *)
(*   8. receive: ReceiveInv, the results are those of the first            *)
(*      frames and the stream is what is left of the others up to the      *)
(*      cut;                                                               *)
(*   9. arrays: ScanArray inverts encodeArrayText.                         *)
(*                                                                         *)
(* Two remarks on the form.  A recursive function is used through a table  *)
(* of its values, shown to exist for every length by a least               *)
(* counterexample (LeastNat), as the induction rules of the library cannot *)
(* be instantiated by the provers.  For the same reason a lemma about      *)
(* ReadEach cannot have the reader as a parameter: the lemma is stated     *)
(* once for each reader that the codec puts in a loop.                     *)
(***************************************************************************)
EXTENDS Wire, SequenceTheorems, WellFoundedInduction, TLAPS
-----------------------------------------------------------------------------
(***************************************************************************)
(* Induction, over sets of natural numbers.                                *)
(***************************************************************************)
LEMMA LeastNat ==
  ASSUME NEW T \in SUBSET Nat, T # {}
  PROVE  \E x \in T : \A y \in T : x <= y
<1>1. IsWellFoundedOn(OpToRel(<, Nat), Nat)
  BY NatLessThanWellFounded
<1>2. PICK x \in T : \A y \in T : ~ (<<y, x>> \in OpToRel(<, Nat))
  BY <1>1, WFMin
<1>3. ASSUME NEW y \in T PROVE x <= y
  <2>1. OpToRel(<, Nat) = {ss \in Nat \X Nat : ss[1] < ss[2]}
    BY DEF OpToRel
  <2>2. ~(<<y, x>> \in {ss \in Nat \X Nat : ss[1] < ss[2]})
    BY <1>2, <2>1
  <2>3. y \in Nat /\ x \in Nat
    OBVIOUS
  <2>4. ~(y < x)
    BY <2>2, <2>3
  <2> QED BY <2>3, <2>4
<1> QED BY <1>3

(* A set that holds 0, and with m also m + 1 up to n, holds n. *)
LEMMA Induct ==
  ASSUME NEW n \in Nat, NEW S, 0 \in S, \A m \in 0 .. n - 1 : m \in S => m + 1 \in S
  PROVE  n \in S
<1> DEFINE T == {m \in 0 .. n : m \notin S}
<1> SUFFICES ASSUME T # {} PROVE FALSE
  OBVIOUS
<1>1. PICK m \in T : \A y \in T : m <= y
  <2>1. T \in SUBSET Nat
    OBVIOUS
  <2> HIDE DEF T
  <2> QED BY <2>1, LeastNat
<1>2. m \in 1 .. n
  BY <1>1
<1>3. m - 1 \in S
  BY <1>1, <1>2
<1>4. (m - 1) + 1 \in S
  BY <1>2, <1>3
<1> QED BY <1>2, <1>4

(* Two tables whose entries follow from the ones before are the same. *)
LEMMA Determined ==
  ASSUME NEW n \in Nat, NEW t, NEW u, t[0] = u[0],
         \A i \in 1 .. n : t[i - 1] = u[i - 1] => t[i] = u[i]
  PROVE  \A i \in 0 .. n : t[i] = u[i]
<1> SUFFICES ASSUME NEW k \in 0 .. n PROVE t[k] = u[k]
  OBVIOUS
<1> DEFINE S == {i \in 0 .. n : t[i] = u[i]}
<1>1. 0 \in S
  OBVIOUS
<1>2. ASSUME NEW m \in 0 .. k - 1, m \in S PROVE m + 1 \in S
  <2>1. m + 1 \in 1 .. n /\ (m + 1) - 1 = m
    OBVIOUS
  <2>2. t[(m + 1) - 1] = u[(m + 1) - 1]
    BY <1>2, <2>1
  <2> QED BY <2>1, <2>2
<1>3. k \in S
  <2>1. k \in Nat
    OBVIOUS
  <2> HIDE DEF S
  <2> QED BY <1>1, <1>2, <2>1, Induct
<1> QED BY <1>3

-----------------------------------------------------------------------------
(***************************************************************************)
(* Sequences.                                                              *)
(***************************************************************************)
LEMMA Assoc ==
  ASSUME NEW S, NEW a \in Seq(S), NEW b \in Seq(S), NEW c \in Seq(S)
  PROVE  (a \o b) \o c = a \o (b \o c) /\ a \o b \in Seq(S) /\ (a \o b) \o c \in Seq(S)
OBVIOUS

LEMMA NoneBefore ==
  ASSUME NEW S, NEW a \in Seq(S)
  PROVE  <<>> \o a = a /\ a \o <<>> = a /\ <<>> \in Seq(S)
OBVIOUS

(* The front and the rest of a concatenation. *)
LEMMA Halves ==
  ASSUME NEW S, NEW a \in Seq(S), NEW b \in Seq(S)
  PROVE  /\ Len(a \o b) = Len(a) + Len(b) /\ Len(a) \in Nat /\ Len(b) \in Nat
         /\ SubSeq(a \o b, 1, Len(a)) = a
         /\ SubSeq(a \o b, Len(a) + 1, Len(a \o b)) = b
<1>1. Len(a \o b) = Len(a) + Len(b) /\ Len(a) \in Nat /\ Len(b) \in Nat /\ a \o b \in Seq(S)
  OBVIOUS
<1>2. SubSeq(a \o b, 1, Len(a)) = a
  BY <1>1
<1>3. SubSeq(a \o b, Len(a) + 1, Len(a \o b)) = b
  <2> DEFINE c == SubSeq(a \o b, Len(a) + 1, Len(a \o b))
  <2>1. c \in Seq(S) /\ Len(c) = Len(b)
    BY <1>1
  <2>2. ASSUME NEW i \in 1 .. Len(b) PROVE c[i] = b[i]
    BY <1>1
  <2> HIDE DEF c
  <2>3. c = b
    BY <2>1, <2>2
  <2> QED BY <2>3 DEF c
<1> QED BY <1>1, <1>2, <1>3

LEMMA IsSequence ==
  ASSUME NEW S, NEW n \in Nat, NEW f, f = [i \in 1 .. n |-> f[i]],
         \A i \in 1 .. n : f[i] \in S
  PROVE  f \in Seq(S) /\ Len(f) = n /\ DOMAIN f = 1 .. n
<1>1. f \in [1 .. n -> S]
  OBVIOUS
<1> QED BY <1>1

-----------------------------------------------------------------------------
(***************************************************************************)
(* FlattenSeq.                                                             *)
(***************************************************************************)
(* A table of the concatenations of the first n parts. *)
Joined(t, parts, n) ==
  t = [i \in 1 .. n |-> IF i = 1 THEN parts[i] ELSE t[i - 1] \o parts[i]]

LEMMA FlattenIs ==
  ASSUME NEW parts, Len(parts) # 0
  PROVE  FlattenSeq(parts) = (CHOOSE t : Joined(t, parts, Len(parts)))[Len(parts)]
BY DEF FlattenSeq, Joined

LEMMA JoinedAt ==
  ASSUME NEW t, NEW parts, NEW n \in Nat, Joined(t, parts, n), NEW i \in 1 .. n
  PROVE  t[i] = IF i = 1 THEN parts[i] ELSE t[i - 1] \o parts[i]
<1> DEFINE f == [j \in 1 .. n |-> IF j = 1 THEN parts[j] ELSE t[j - 1] \o parts[j]]
<1>1. t = f
  BY DEF Joined
<1>2. f[i] = IF i = 1 THEN parts[i] ELSE t[i - 1] \o parts[i]
  OBVIOUS
<1> HIDE DEF f
<1> QED BY <1>1, <1>2

LEMMA JoinedExists ==
  ASSUME NEW parts, NEW n \in Nat
  PROVE  \E t : Joined(t, parts, n)
<1> DEFINE S == {m \in Nat : \E t : Joined(t, parts, m)}
<1>1. 0 \in S
  <2>1. Joined([i \in 1 .. 0 |-> <<>>], parts, 0)
    BY DEF Joined
  <2> QED BY <2>1
<1>2. ASSUME NEW m \in 0 .. n - 1, m \in S PROVE m + 1 \in S
  <2>1. PICK t : Joined(t, parts, m)
    BY <1>2
  <2> DEFINE u == [i \in 1 .. m + 1 |-> IF i <= m THEN t[i]
                     ELSE IF i = 1 THEN parts[i] ELSE t[i - 1] \o parts[i]]
  <2>2. ASSUME NEW i \in 1 .. m + 1
        PROVE  u[i] = IF i = 1 THEN parts[i] ELSE u[i - 1] \o parts[i]
    <3>1. i # 1 => u[i - 1] = t[i - 1]
      OBVIOUS
    <3>2. CASE i = m + 1
      BY <3>1, <3>2
    <3>3. CASE i # m + 1
      <4>1. i \in 1 .. m /\ u[i] = t[i] /\ m \in Nat
        BY <3>3
      <4>2. t[i] = IF i = 1 THEN parts[i] ELSE t[i - 1] \o parts[i]
        BY <2>1, <4>1, JoinedAt
      <4> QED BY <3>1, <4>1, <4>2
    <3> QED BY <3>2, <3>3
  <2>3. u = [i \in 1 .. m + 1 |-> u[i]]
    OBVIOUS
  <2> HIDE DEF u
  <2>4. Joined(u, parts, m + 1)
    BY <2>2, <2>3 DEF Joined
  <2> QED BY <2>4
<1>3. n \in S
  <2> HIDE DEF S
  <2> QED BY <1>1, <1>2, Induct
<1> QED BY <1>3

(* The rests of a flattened sequence, after each of its parts.             *)
Rests(w, S, parts, n, rest) ==
  /\ w \in [0 .. n -> Seq(S)] /\ w[n] = rest
  /\ \A i \in 1 .. n : w[i - 1] = parts[i] \o w[i]

Parts(parts, S, n) ==
  Len(parts) = n /\ (n = 0 => parts = <<>>) /\ \A i \in 1 .. n : parts[i] \in Seq(S)

(* What is written part by part can be read part by part.                  *)
LEMMA FlattenRests ==
  ASSUME NEW S, NEW n \in Nat, NEW parts, Parts(parts, S, n), NEW rest \in Seq(S)
  PROVE  /\ FlattenSeq(parts) \in Seq(S)
         /\ \E w : Rests(w, S, parts, n, rest) /\ w[0] = FlattenSeq(parts) \o rest
<1>1. CASE n = 0
  <2>1. FlattenSeq(parts) = <<>>
    BY <1>1 DEF FlattenSeq, Parts
  <2> DEFINE w == [i \in 0 .. 0 |-> rest]
  <2>2. Rests(w, S, parts, 0, rest) /\ w[0] = rest
    BY DEF Rests
  <2>3. FlattenSeq(parts) \in Seq(S) /\ FlattenSeq(parts) \o rest = rest
    BY <2>1
  <2> QED BY <1>1, <2>2, <2>3
<1>2. CASE n # 0
  <2> DEFINE tab == CHOOSE x : Joined(x, parts, n)
  <2>1. Joined(tab, parts, n) /\ FlattenSeq(parts) = tab[n]
    <3>1. \E x : Joined(x, parts, n)
      BY JoinedExists
    <3>2. FlattenSeq(parts) = (CHOOSE x : Joined(x, parts, Len(parts)))[Len(parts)]
      BY <1>2, FlattenIs DEF Parts
    <3>3. Len(parts) = n
      BY DEF Parts
    <3> QED BY <3>1, <3>2, <3>3
  <2> HIDE DEF tab
  <2>5. \A i \in 1 .. n : tab[i] = IF i = 1 THEN parts[i] ELSE tab[i - 1] \o parts[i]
    BY <2>1, JoinedAt
  <2> DEFINE Ok(m) == /\ tab[m] \in Seq(S)
                      /\ \A r \in Seq(S) : \E w : Rests(w, S, parts, m, r) /\ w[0] = tab[m] \o r
             T == {0} \cup {m \in 1 .. n : Ok(m)}
  <2>2. ASSUME NEW m \in 0 .. n - 1, m \in T PROVE m + 1 \in T
    <3>0. m \in Nat /\ m + 1 \in 1 .. n /\ (m + 1) - 1 = m /\ parts[m + 1] \in Seq(S)
      BY DEF Parts
    <3>1. tab[m + 1] = IF m = 0 THEN parts[m + 1] ELSE tab[m] \o parts[m + 1]
      <4>1. tab[m + 1] = IF m + 1 = 1 THEN parts[m + 1] ELSE tab[(m + 1) - 1] \o parts[m + 1]
        BY <2>5, <3>0
      <4> QED BY <3>0, <4>1
    <3>2. tab[m + 1] \in Seq(S)
      BY <2>2, <3>0, <3>1
    <3>3. ASSUME NEW r \in Seq(S)
          PROVE  \E w : Rests(w, S, parts, m + 1, r) /\ w[0] = tab[m + 1] \o r
      <4> DEFINE r1 == parts[m + 1] \o r
      <4>1. r1 \in Seq(S)
        BY <3>0
      <4>2. PICK v : Rests(v, S, parts, m, r1) /\ v[0] = tab[m + 1] \o r
        <5>1. CASE m = 0
          <6> DEFINE v0 == [i \in 0 .. 0 |-> r1]
          <6>1. Rests(v0, S, parts, 0, r1) /\ v0[0] = r1
            BY <4>1 DEF Rests
          <6> QED BY <3>1, <5>1, <6>1
        <5>2. CASE m # 0
          <6>1. Ok(m)
            BY <2>2, <5>2
          <6>2. (tab[m] \o parts[m + 1]) \o r = tab[m] \o r1
            <7>1. tab[m] \in Seq(S)
              BY <6>1
            <7> DEFINE one == tab[m]  two == parts[m + 1]
            <7>2. one \in Seq(S) /\ two \in Seq(S)
              BY <3>0, <7>1
            <7> HIDE DEF Ok, T, one, two
            <7>3. (one \o two) \o r = one \o (two \o r)
              BY <7>2, Assoc
            <7> QED BY <7>3 DEF one, two
          <6>3. PICK v0 : Rests(v0, S, parts, m, r1) /\ v0[0] = tab[m] \o r1
            BY <4>1, <6>1
          <6> QED BY <3>1, <5>2, <6>2, <6>3
        <5> QED BY <5>1, <5>2
      <4> HIDE DEF r1
      <4> DEFINE w == [i \in 0 .. m + 1 |-> IF i <= m THEN v[i] ELSE r]
      <4>3. /\ w \in [0 .. m + 1 -> Seq(S)] /\ w[m + 1] = r /\ w[0] = v[0]
            /\ \A i \in 0 .. m : w[i] = v[i]
        BY <3>0, <4>2 DEF Rests
      <4>4. ASSUME NEW i \in 1 .. m + 1 PROVE w[i - 1] = parts[i] \o w[i]
        <5>1. CASE i = m + 1
          <6>1. w[m] = r1 /\ w[m + 1] = r
            BY <3>0, <4>2, <4>3 DEF Rests
          <6> QED BY <3>0, <5>1, <6>1 DEF r1
        <5>2. CASE i # m + 1
          <6>1. i \in 1 .. m /\ i - 1 \in 0 .. m /\ i \in 0 .. m
            BY <3>0, <5>2
          <6> HIDE DEF w
          <6> QED BY <4>2, <4>3, <6>1 DEF Rests
        <5> QED BY <5>1, <5>2
      <4> HIDE DEF w
      <4>5. Rests(w, S, parts, m + 1, r)
        BY <4>3, <4>4 DEF Rests
      <4> QED BY <4>2, <4>3, <4>5
    <3> QED BY <3>0, <3>2, <3>3
  <2>3. n \in T
    <3>1. 0 \in T
      OBVIOUS
    <3> HIDE DEF T
    <3> QED BY <2>2, <3>1, Induct
  <2>4. Ok(n)
    BY <1>2, <2>3
  <2> QED BY <2>1, <2>4
<1> QED BY <1>1, <1>2

-----------------------------------------------------------------------------
(***************************************************************************)
(* Integers: PutNum and GetNum.                                            *)
(***************************************************************************)
Byte == 0 .. 255

ShiftTab(t, v, n) == t = [k \in 0 .. n |-> IF k = 0 THEN v ELSE t[k - 1] \div 256]

LEMMA ShiftIs ==
  ASSUME NEW v, NEW n
  PROVE  Shift(v, n) = (CHOOSE t : ShiftTab(t, v, n))[n]
BY DEF Shift, ShiftTab

LEMMA ShiftTabAt ==
  ASSUME NEW t, NEW v, NEW n \in Nat, ShiftTab(t, v, n), NEW k \in 0 .. n
  PROVE  t[k] = IF k = 0 THEN v ELSE t[k - 1] \div 256
<1> DEFINE f == [j \in 0 .. n |-> IF j = 0 THEN v ELSE t[j - 1] \div 256]
<1>1. t = f
  BY DEF ShiftTab
<1>2. f[k] = IF k = 0 THEN v ELSE t[k - 1] \div 256
  OBVIOUS
<1> HIDE DEF f
<1> QED BY <1>1, <1>2

LEMMA ShiftTabExists ==
  ASSUME NEW v, NEW n \in Nat
  PROVE  \E t : ShiftTab(t, v, n)
<1> DEFINE S == {m \in Nat : \E t : ShiftTab(t, v, m)}
<1>1. 0 \in S
  <2>1. ShiftTab([k \in 0 .. 0 |-> v], v, 0)
    BY DEF ShiftTab
  <2> QED BY <2>1
<1>2. ASSUME NEW m \in 0 .. n - 1, m \in S PROVE m + 1 \in S
  <2>1. PICK t : ShiftTab(t, v, m)
    BY <1>2
  <2> DEFINE u == [k \in 0 .. m + 1 |-> IF k <= m THEN t[k] ELSE t[k - 1] \div 256]
  <2>2. ASSUME NEW k \in 0 .. m + 1
        PROVE  u[k] = IF k = 0 THEN v ELSE u[k - 1] \div 256
    <3>1. k # 0 => u[k - 1] = t[k - 1]
      OBVIOUS
    <3>2. CASE k = m + 1
      BY <3>1, <3>2
    <3>3. CASE k # m + 1
      <4>1. k \in 0 .. m /\ u[k] = t[k] /\ m \in Nat
        BY <3>3
      <4>2. t[k] = IF k = 0 THEN v ELSE t[k - 1] \div 256
        BY <2>1, <4>1, ShiftTabAt
      <4> QED BY <3>1, <4>1, <4>2
    <3> QED BY <3>2, <3>3
  <2>3. u = [k \in 0 .. m + 1 |-> u[k]]
    OBVIOUS
  <2> HIDE DEF u
  <2>4. ShiftTab(u, v, m + 1)
    BY <2>2, <2>3 DEF ShiftTab
  <2> QED BY <2>4
<1>3. n \in S
  <2> HIDE DEF S
  <2> QED BY <1>1, <1>2, Induct
<1> QED BY <1>3

LEMMA ShiftZero ==
  ASSUME NEW v
  PROVE  Shift(v, 0) = v
<1> DEFINE tab == CHOOSE x : ShiftTab(x, v, 0)
<1>1. ShiftTab(tab, v, 0)
  BY ShiftTabExists
<1>2. Shift(v, 0) = tab[0]
  BY ShiftIs
<1> HIDE DEF tab
<1> QED BY <1>1, <1>2, ShiftTabAt

LEMMA ShiftStep ==
  ASSUME NEW v, NEW n \in Nat
  PROVE  Shift(v, n + 1) = Shift(v, n) \div 256
<1> DEFINE tab == CHOOSE x : ShiftTab(x, v, n + 1)
           low == CHOOSE x : ShiftTab(x, v, n)
<1>0. n + 1 \in Nat
  OBVIOUS
<1>1. ShiftTab(tab, v, n + 1) /\ Shift(v, n + 1) = tab[n + 1]
  BY <1>0, ShiftTabExists, ShiftIs
<1>2. ShiftTab(low, v, n) /\ Shift(v, n) = low[n]
  BY ShiftTabExists, ShiftIs
<1> HIDE DEF tab, low
<1>3. \A k \in 0 .. n + 1 : tab[k] = IF k = 0 THEN v ELSE tab[k - 1] \div 256
  BY <1>0, <1>1, ShiftTabAt
<1>4. \A k \in 0 .. n : low[k] = IF k = 0 THEN v ELSE low[k - 1] \div 256
  BY <1>2, ShiftTabAt
<1>5. \A k \in 0 .. n : tab[k] = low[k]
  <2>1. tab[0] = low[0]
    BY <1>3, <1>4
  <2>2. ASSUME NEW k \in 1 .. n, tab[k - 1] = low[k - 1] PROVE tab[k] = low[k]
    BY <1>3, <1>4, <2>2
  <2> QED BY <2>1, <2>2, Determined
<1>6. tab[n + 1] = tab[n] \div 256
  BY <1>3
<1> QED BY <1>1, <1>2, <1>5, <1>6

LEMMA ShiftType ==
  ASSUME NEW v \in Int, NEW n \in Nat
  PROVE  Shift(v, n) \in Int
<1> DEFINE S == {m \in Nat : Shift(v, m) \in Int}
<1>1. 0 \in S
  BY ShiftZero
<1>2. ASSUME NEW m \in 0 .. n - 1, m \in S PROVE m + 1 \in S
  <2>1. m \in Nat /\ m + 1 \in Nat /\ Shift(v, m) \in Int
    BY <1>2
  <2>2. Shift(v, m + 1) = Shift(v, m) \div 256
    BY <2>1, ShiftStep
  <2>3. Shift(v, m) \div 256 \in Int
    BY <2>1
  <2> QED BY <2>1, <2>2, <2>3
<1>3. n \in S
  <2> HIDE DEF S
  <2> QED BY <1>1, <1>2, Induct
<1> QED BY <1>3

LEMMA PutNumFacts ==
  ASSUME NEW v \in Int, NEW n \in Nat
  PROVE  PutNum(n, v) \in Seq(Byte) /\ Len(PutNum(n, v)) = n
         /\ \A i \in 1 .. n : PutNum(n, v)[i] = Shift(v, n - i) % 256
<1>1. ASSUME NEW i \in 1 .. n PROVE Shift(v, n - i) % 256 \in Byte
  <2>1. n - i \in Nat
    OBVIOUS
  <2>2. Shift(v, n - i) \in Int
    BY <2>1, ShiftType
  <2> QED BY <2>2 DEF Byte
<1>2. PutNum(n, v) = [i \in 1 .. n |-> Shift(v, n - i) % 256]
  BY DEF PutNum
<1>3. PutNum(n, v) \in [1 .. n -> Byte]
  BY <1>1, <1>2
<1> QED BY <1>2, <1>3

NumTab(t, b) ==
  t = [i \in 0 .. Len(b) |-> IF i = 0 THEN IF b # <<>> /\ b[1] >= 128 THEN -1 ELSE 0
                             ELSE 256 * t[i - 1] + b[i]]

LEMMA GetNumIs ==
  ASSUME NEW b
  PROVE  GetNum(b) = (CHOOSE t : NumTab(t, b))[Len(b)]
BY DEF GetNum, NumTab

(* An integer that fits is read back from its bytes. *)
LEMMA GetPut ==
  ASSUME NEW n \in Nat, n # 0, NEW v, Fits(n, v)
  PROVE  GetNum(PutNum(n, v)) = v
<1> DEFINE bytes == PutNum(n, v)
           sign  == IF bytes[1] >= 128 THEN -1 ELSE 0
           num   == [i \in 0 .. n |-> IF i = 0 THEN sign ELSE Shift(v, n - i)]
<1>0. v \in Int /\ n - 1 \in Nat /\ Shift(v, n - 1) \in -128 .. 127
  BY DEF Fits
<1>1. /\ bytes \in Seq(Byte) /\ Len(bytes) = n /\ bytes # <<>>
      /\ \A i \in 1 .. n : bytes[i] = Shift(v, n - i) % 256
  BY <1>0, PutNumFacts
<1>2. \A k \in 0 .. n : Shift(v, k) \in Int
  BY <1>0, ShiftType
<1> DEFINE eq(t, i) == t[i] = IF i = 0 THEN sign ELSE 256 * t[i - 1] + bytes[i]
<1> HIDE DEF bytes
<1>3. ASSUME NEW i \in 0 .. n PROVE eq(num, i)
  <2>1. CASE i = 0
    BY <2>1
  <2>2. CASE i = 1
    <3> DEFINE x == Shift(v, n - 1)
    <3>1. bytes[1] = x % 256 /\ x \in -128 .. 127
      BY <1>0, <1>1, <2>2
    <3>2. num[1] = x /\ num[0] = sign
      BY <2>2
    <3> HIDE DEF x, num
    <3>3. x = 256 * sign + bytes[1]
      BY <3>1
    <3> HIDE DEF sign
    <3> QED BY <2>2, <3>2, <3>3
  <2>3. CASE i \notin {0, 1}
    <3> DEFINE j == n - i
    <3>1. j \in Nat /\ j + 1 = n - (i - 1) /\ j \in 0 .. n /\ j + 1 \in 0 .. n /\ i \in 1 .. n
      BY <2>3
    <3>2. Shift(v, j + 1) = Shift(v, j) \div 256
      <4> HIDE DEF j
      <4> QED BY <3>1, ShiftStep
    <3>3. Shift(v, j) \in Int
      <4> HIDE DEF j
      <4> QED BY <1>2, <3>1
    <3>4. num[i] = Shift(v, j) /\ num[i - 1] = Shift(v, n - (i - 1)) /\ bytes[i] = Shift(v, j) % 256
      BY <1>1, <2>3
    <3>5. num[i - 1] = Shift(v, j + 1)
      BY <3>1, <3>4
    <3> DEFINE x == Shift(v, j)  y == Shift(v, j + 1)
    <3>6. x \in Int /\ y = x \div 256 /\ num[i] = x /\ num[i - 1] = y /\ bytes[i] = x % 256
      BY <3>2, <3>3, <3>4, <3>5
    <3> HIDE DEF x, y, num, j, sign
    <3>7. x = 256 * y + bytes[i]
      BY <3>6
    <3>8. num[i] = 256 * num[i - 1] + bytes[i]
      BY <3>6, <3>7
    <3> QED BY <2>3, <3>8
  <2> QED BY <2>1, <2>2, <2>3
<1>4. NumTab(num, bytes)
  <2>1. num = [i \in 0 .. n |-> num[i]]
    OBVIOUS
  <2>2. \A i \in 0 .. n : num[i] = IF i = 0 THEN sign ELSE 256 * num[i - 1] + bytes[i]
    BY <1>3
  <2>3. sign = IF bytes # <<>> /\ bytes[1] >= 128 THEN -1 ELSE 0
    BY <1>1
  <2> DEFINE f == [i \in 0 .. n |-> IF i = 0 THEN sign ELSE 256 * num[i - 1] + bytes[i]]
  <2> HIDE DEF sign, num
  <2>4. num = f
    BY <2>1, <2>2, Zenon
  <2> QED BY <1>1, <2>3, <2>4 DEF NumTab
<1>5. num[n] = v /\ num[0] = sign
  <2>1. n - n = 0
    OBVIOUS
  <2> QED BY <2>1, ShiftZero
<1> DEFINE tab == CHOOSE x : NumTab(x, bytes)
<1>6. NumTab(tab, bytes) /\ GetNum(bytes) = tab[n]
  BY <1>1, <1>4, GetNumIs
<1> HIDE DEF tab, num
<1>7. ASSUME NEW i \in 0 .. n PROVE eq(tab, i)
  <2> DEFINE f == [k \in 0 .. n |-> IF k = 0 THEN sign ELSE 256 * tab[k - 1] + bytes[k]]
  <2>1. sign = IF bytes # <<>> /\ bytes[1] >= 128 THEN -1 ELSE 0
    BY <1>1
  <2> HIDE DEF sign
  <2>2. tab = f
    BY <1>1, <1>6, <2>1 DEF NumTab
  <2>3. f[i] = IF i = 0 THEN sign ELSE 256 * tab[i - 1] + bytes[i]
    OBVIOUS
  <2> HIDE DEF f
  <2> QED BY <2>2, <2>3
<1>8. tab[n] = num[n]
  <2>1. tab[0] = num[0]
    BY <1>3, <1>7
  <2>2. ASSUME NEW i \in 1 .. n, tab[i - 1] = num[i - 1] PROVE tab[i] = num[i]
    BY <1>3, <1>7, <2>2
  <2> HIDE DEF eq
  <2>3. \A i \in 0 .. n : tab[i] = num[i]
    BY <2>1, <2>2, Determined
  <2> QED BY <2>3
<1> QED BY <1>5, <1>6, <1>8 DEF bytes

(* Shifting a natural number makes it smaller, down to zero. *)
LEMMA ShiftNat ==
  ASSUME NEW m \in Nat, NEW k \in Nat
  PROVE  Shift(m, k) \in 0 .. m /\ (Shift(m, k) = 0 \/ Shift(m, k) <= m - k)
<1> DEFINE S == {j \in Nat : Shift(m, j) \in 0 .. m /\ (Shift(m, j) = 0 \/ Shift(m, j) <= m - j)}
<1>1. 0 \in S
  <2>1. Shift(m, 0) = m
    BY ShiftZero
  <2> QED BY <2>1
<1>2. ASSUME NEW j \in 0 .. k - 1, j \in S PROVE j + 1 \in S
  <2> DEFINE x == Shift(m, j)  y == Shift(m, j + 1)
  <2>1. j \in Nat /\ x \in 0 .. m /\ (x = 0 \/ x <= m - j)
    BY <1>2
  <2>2. y = x \div 256
    BY <2>1, ShiftStep
  <2> HIDE DEF x, y
  <2>3. y \in 0 .. m /\ (y = 0 \/ y <= m - (j + 1))
    BY <2>1, <2>2
  <2> QED BY <2>1, <2>3 DEF y
<1>3. k \in S
  <2> HIDE DEF S
  <2> QED BY <1>1, <1>2, Induct
<1> QED BY <1>3

LEMMA ShiftNeg ==
  ASSUME NEW m \in Nat, NEW k \in Nat
  PROVE  Shift(-m, k) \in {-Shift(m, k), -Shift(m, k) - 1}
<1> DEFINE S == {j \in Nat : Shift(-m, j) \in {-Shift(m, j), -Shift(m, j) - 1}}
<1>1. 0 \in S
  <2>1. Shift(m, 0) = m /\ Shift(-m, 0) = -m
    BY ShiftZero
  <2> QED BY <2>1
<1>2. ASSUME NEW j \in 0 .. k - 1, j \in S PROVE j + 1 \in S
  <2> DEFINE x == Shift(m, j)  y == Shift(m, j + 1)  z == Shift(-m, j)  u == Shift(-m, j + 1)
  <2>1. j \in Nat /\ x \in Nat /\ (z = -x \/ z = -x - 1)
    BY <1>2, ShiftNat
  <2>2. y = x \div 256 /\ u = z \div 256
    BY <2>1, ShiftStep
  <2> HIDE DEF x, y, z, u
  <2>3. u = -y \/ u = -y - 1
    BY <2>1, <2>2
  <2> QED BY <2>1, <2>3 DEF y, u
<1>3. k \in S
  <2> HIDE DEF S
  <2> QED BY <1>1, <1>2, Induct
<1> QED BY <1>3

LEMMA SmallFits ==
  ASSUME NEW x \in 0 .. 127, NEW n \in Nat \ {0}
  PROVE  Fits(n, x)
<1>1. n - 1 \in Nat /\ x \in Nat /\ x \in Int
  OBVIOUS
<1>2. Shift(x, n - 1) \in 0 .. x
  <2> DEFINE k == n - 1
  <2>1. k \in Nat
    BY <1>1
  <2> HIDE DEF k
  <2>2. Shift(x, k) \in 0 .. x
    BY <1>1, <2>1, ShiftNat
  <2> QED BY <2>2 DEF k
<1> QED BY <1>1, <1>2 DEF Fits

LEMMA ByteLenIs ==
  ASSUME NEW m \in Nat
  PROVE  /\ ByteLen(m) \in Nat \ {0} /\ Shift(m, ByteLen(m)) = 0
         /\ Shift(m, ByteLen(m) - 1) \in 0 .. 255
<1> DEFINE ok(n) == Shift(m, n) = 0 /\ (n > 1 => Shift(m, n - 1) # 0)
           T == {n \in 1 .. m + 1 : Shift(m, n) = 0}
<1>1. PICK n \in T : \A k \in T : n <= k
  <2>1. m + 1 \in T
    <3> DEFINE k == m + 1
    <3>1. k \in Nat /\ k \in 1 .. m + 1 /\ m - k = -1
      OBVIOUS
    <3> HIDE DEF k
    <3>2. Shift(m, k) \in 0 .. m /\ (Shift(m, k) = 0 \/ Shift(m, k) <= m - k)
      BY <3>1, ShiftNat
    <3>3. Shift(m, k) = 0
      BY <3>1, <3>2
    <3>4. k \in T
      BY <3>1, <3>3
    <3> QED BY <3>4 DEF k
  <2>2. T \in SUBSET Nat /\ T # {}
    BY <2>1
  <2> HIDE DEF T
  <2> QED BY <2>2, LeastNat
<1>2. n \in 1 .. m + 1 /\ ok(n)
  <2>1. n \in 1 .. m + 1 /\ Shift(m, n) = 0
    BY <1>1
  <2>2. n > 1 => n - 1 \in 1 .. m + 1 /\ ~(n <= n - 1)
    BY <2>1
  <2>3. n > 1 => n - 1 \notin T
    BY <1>1, <2>2
  <2> QED BY <2>1, <2>2, <2>3
<1>3. ByteLen(m) = CHOOSE k \in 1 .. m + 1 : ok(k)
  BY DEF ByteLen
<1> DEFINE len == ByteLen(m)
<1>4. len \in 1 .. m + 1 /\ ok(len)
  BY <1>2, <1>3
<1> HIDE DEF len
<1> DEFINE k == len - 1  x == Shift(m, k)  y == Shift(m, len)
<1>5. k \in Nat /\ k + 1 = len /\ len \in Nat \ {0} /\ y = 0
  BY <1>4
<1>6. y = x \div 256
  <2>1. Shift(m, k + 1) = Shift(m, k) \div 256
    <3> HIDE DEF k
    <3> QED BY <1>5, ShiftStep
  <2> QED BY <1>5, <2>1
<1>7. x \in Nat
  <2> HIDE DEF k
  <2>1. Shift(m, k) \in 0 .. m
    BY <1>5, ShiftNat
  <2> QED BY <2>1
<1>8. x \in 0 .. 255
  <2> HIDE DEF x, y
  <2> QED BY <1>5, <1>6, <1>7
<1> QED BY <1>5, <1>8 DEF len

(* The bytes of an unscaled decimal are read back. *)
LEMMA GetBigInt ==
  ASSUME NEW v \in Int
  PROVE  /\ bigIntToTwosComplement(v) \in Seq(Byte)
         /\ GetNum(bigIntToTwosComplement(v)) = v
<1> DEFINE m == IF v < 0 THEN -v ELSE v
           n == ByteLen(m)
           k == IF Shift(m, n - 1) >= 128 THEN n + 1 ELSE n
<1>0. bigIntToTwosComplement(v) = PutNum(k, v)
  BY DEF bigIntToTwosComplement
<1>1. m \in Nat /\ v \in {m, -m}
  OBVIOUS
<1> HIDE DEF m
<1>2. n \in Nat \ {0} /\ Shift(m, n) = 0 /\ Shift(m, n - 1) \in 0 .. 255
  BY <1>1, ByteLenIs
<1> HIDE DEF n
<1>3. \A j \in Nat : Shift(v, j) \in {Shift(m, j), -Shift(m, j), -Shift(m, j) - 1}
  BY <1>1, ShiftNeg
<1>4. k \in Nat /\ k # 0 /\ Fits(k, v)
  <2>1. CASE Shift(m, n - 1) >= 128
    <3>1. k = n + 1 /\ k - 1 = n /\ k \in Nat /\ k # 0
      BY <1>2, <2>1
    <3>2. Shift(v, n) \in -128 .. 127
      BY <1>2, <1>3
    <3> QED BY <3>1, <3>2 DEF Fits
  <2>2. CASE ~(Shift(m, n - 1) >= 128)
    <3>1. k = n /\ n - 1 \in Nat
      BY <1>2, <2>2
    <3> DEFINE j == n - 1
    <3>2. Shift(v, j) \in {Shift(m, j), -Shift(m, j), -Shift(m, j) - 1}
      <4>1. j \in Nat
        BY <3>1
      <4> HIDE DEF j
      <4> QED BY <1>3, <4>1
    <3>3. Shift(v, n - 1) \in -128 .. 127
      BY <1>2, <2>2, <3>2
    <3> QED BY <1>2, <3>1, <3>3 DEF Fits
  <2> QED BY <2>1, <2>2
<1> HIDE DEF k
<1> QED BY <1>0, <1>4, GetPut, PutNumFacts

-----------------------------------------------------------------------------
(***************************************************************************)
(* The primitives of RowInput.                                             *)
(***************************************************************************)
Bytes == Seq(Byte)

In(b, v, m)  == RowInput(b, FALSE, v, m)
Bad(b, v, m) == RowInput(b, TRUE, v, m)

LEMMA Input ==
  ASSUME NEW b, NEW v, NEW m
  PROVE  /\ In(b, v, m).buf = b /\ ~In(b, v, m).err
         /\ In(b, v, m).val = v /\ In(b, v, m).meta = m
BY DEF In, RowInput

LEMMA Broken ==
  ASSUME NEW b, NEW v, NEW m
  PROVE  /\ Bad(b, v, m).buf = b /\ Bad(b, v, m).err
         /\ Bad(b, v, m).val = v /\ Bad(b, v, m).meta = m
BY DEF Bad, RowInput

(* MapVal, SetVal and Fail, by the value they store. *)
LEMMA InputMap ==
  ASSUME NEW b, NEW v, NEW m, NEW x
  PROVE  /\ RowInput(In(b, v, m).buf, In(b, v, m).err, x, In(b, v, m).meta) = In(b, x, m)
         /\ SetVal(In(b, v, m), x) = In(b, x, m)
         /\ Fail(In(b, v, m), x) = Bad(b, x, m)
BY DEF In, Bad, RowInput, SetVal, Fail

LEMMA BrokenMap ==
  ASSUME NEW b, NEW v, NEW m, NEW x
  PROVE  /\ RowInput(Bad(b, v, m).buf, Bad(b, v, m).err, x, Bad(b, v, m).meta) = Bad(b, x, m)
         /\ SetVal(Bad(b, v, m), x) = Bad(b, x, m)
         /\ Fail(Bad(b, v, m), x) = Bad(b, x, m)
BY DEF Bad, RowInput, SetVal, Fail

LEMMA Lengths ==
  /\ ShortLen \in Nat \ {0} /\ IntLen \in Nat \ {0} /\ LongLen \in Nat \ {0}
BY WireBounds

LEMMA readOf ==
  ASSUME NEW a \in Bytes, NEW rest \in Bytes, NEW v, NEW m
  PROVE  read(In(a \o rest, v, m), Len(a)) = In(rest, a, m)
<1> DEFINE c == a \o rest  r == In(c, v, m)
<1> HIDE DEF c
<1>1. r.buf = c /\ ~r.err /\ r.meta = m
  BY Input
<1> HIDE DEF r
<1>2. /\ Len(c) = Len(a) + Len(rest) /\ Len(a) \in Nat /\ Len(rest) \in Nat
      /\ SubSeq(c, 1, Len(a)) = a
      /\ SubSeq(c, Len(a) + 1, Len(c)) = rest
  BY Halves DEF Bytes, c
<1>3. ~(r.err \/ Len(r.buf) < Len(a))
  BY <1>1, <1>2
<1>4. read(r, Len(a)) = In(SubSeq(r.buf, Len(a) + 1, Len(r.buf)), SubSeq(r.buf, 1, Len(a)), r.meta)
  BY <1>3 DEF read, In
<1>5. read(r, Len(a)) = In(rest, a, m)
  BY <1>1, <1>2, <1>4
<1> QED BY <1>5 DEF r, c

LEMMA readAfterError ==
  ASSUME NEW b, NEW v, NEW m, NEW n
  PROVE  read(Bad(b, v, m), n) = Bad(b, <<>>, m)
<1> DEFINE r == Bad(b, v, m)
<1>1. r.err /\ Fail(r, <<>>) = Bad(b, <<>>, m)
  BY Broken, BrokenMap
<1> HIDE DEF r
<1>2. read(r, n) = Fail(r, <<>>)
  BY <1>1 DEF read
<1> QED BY <1>1, <1>2 DEF r

LEMMA ReadNumOf ==
  ASSUME NEW n \in Nat \ {0}, NEW x, Fits(n, x), NEW rest \in Bytes, NEW v, NEW m
  PROVE  ReadNum(In(PutNum(n, x) \o rest, v, m), n) = In(rest, x, m)
<1>1. PutNum(n, x) \in Bytes /\ Len(PutNum(n, x)) = n
  BY PutNumFacts DEF Fits, Bytes
<1>2. GetNum(PutNum(n, x)) = x
  BY GetPut
<1> DEFINE a == PutNum(n, x)
<1> HIDE DEF a
<1>3. read(In(a \o rest, v, m), n) = In(rest, a, m)
  BY <1>1, readOf DEF a
<1>4. ReadNum(In(a \o rest, v, m), n) = In(rest, GetNum(a), m)
  BY <1>3, Input, InputMap DEF ReadNum, MapVal
<1> QED BY <1>2, <1>4 DEF a

LEMMA GetNothing == GetNum(<<>>) = 0
<1> DEFINE zero == [i \in 0 .. 0 |-> 0]
           tab  == CHOOSE t : NumTab(t, <<>>)
<1>1. Len(<<>>) = 0
  OBVIOUS
<1>2. NumTab(zero, <<>>)
  BY <1>1 DEF NumTab
<1>3. NumTab(tab, <<>>) /\ GetNum(<<>>) = tab[0]
  BY <1>1, <1>2, GetNumIs
<1> HIDE DEF tab
<1> DEFINE f == [i \in 0 .. 0 |-> IF i = 0 THEN 0 ELSE 256 * tab[i - 1] + (<<>>)[i]]
<1>4. tab = f
  BY <1>1, <1>3 DEF NumTab
<1>5. f[0] = 0
  OBVIOUS
<1> HIDE DEF f
<1> QED BY <1>3, <1>4, <1>5

LEMMA OneByte ==
  ASSUME NEW x \in Byte
  PROVE  <<x>> \in Bytes /\ Len(<<x>>) = 1 /\ <<x>> # <<>> /\ <<x>>[1] = x
BY DEF Bytes

LEMMA ReadU8Of ==
  ASSUME NEW x \in Byte, NEW rest \in Bytes, NEW v, NEW m
  PROVE  ReadU8(In(<<x>> \o rest, v, m)) = In(rest, x, m)
<1> DEFINE one == <<x>>
<1>1. one \in Bytes /\ Len(one) = 1 /\ one # <<>> /\ one[1] = x
  BY OneByte
<1> HIDE DEF one
<1>2. read(In(one \o rest, v, m), Len(one)) = In(rest, one, m)
  <2>1. one \in Bytes
    BY <1>1
  <2> QED BY <2>1, readOf
<1> DEFINE q == In(rest, one, m)
<1>3. q.val = one /\ RowInput(q.buf, q.err, x, q.meta) = In(rest, x, m)
  BY Input, InputMap
<1> HIDE DEF q
<1>4. ReadU8(In(one \o rest, v, m)) = RowInput(q.buf, q.err, IF q.val = <<>> THEN 0 ELSE q.val[1], q.meta)
  BY <1>1, <1>2 DEF ReadU8, MapVal, q
<1>5. (IF q.val = <<>> THEN 0 ELSE q.val[1]) = x
  BY <1>1, <1>3
<1> QED BY <1>3, <1>4, <1>5 DEF one

LEMMA ReadU8AfterError ==
  ASSUME NEW b, NEW v, NEW m
  PROVE  ReadU8(Bad(b, v, m)) = Bad(b, 0, m)
<1> DEFINE q == Bad(b, <<>>, m)
<1>1. q.val = <<>> /\ RowInput(q.buf, q.err, 0, q.meta) = Bad(b, 0, m)
  BY Broken, BrokenMap
<1> HIDE DEF q
<1>2. read(Bad(b, v, m), 1) = q
  BY readAfterError DEF q
<1>3. ReadU8(Bad(b, v, m)) = RowInput(q.buf, q.err, 0, q.meta)
  BY <1>1, <1>2 DEF ReadU8, MapVal
<1> QED BY <1>1, <1>3

LEMMA ReadBytesOf ==
  ASSUME NEW a \in Bytes, Fits(IntLen, Len(a)), NEW rest \in Bytes, NEW v, NEW m
  PROVE  /\ WriteBytes(a) \in Bytes
         /\ ReadBytes(In(WriteBytes(a) \o rest, v, m)) = In(rest, a, m)
<1> DEFINE p == PutNum(IntLen, Len(a))
<1>1. Len(a) \in Nat
  BY DEF Bytes
<1>2. p \in Bytes
  BY <1>1, Lengths, PutNumFacts DEF Bytes
<1>3. ReadNum(In(p \o (a \o rest), v, m), IntLen) = In(a \o rest, Len(a), m)
  <2>1. a \o rest \in Bytes
    BY DEF Bytes
  <2> QED BY <2>1, Lengths, ReadNumOf
<1> HIDE DEF p
<1>4. p \o a \in Bytes /\ (p \o a) \o rest = p \o (a \o rest)
  BY <1>2, Assoc DEF Bytes
<1>5. WriteBytes(a) = p \o a
  BY DEF WriteBytes, p
<1> DEFINE n == In(a \o rest, Len(a), m)
<1>6. ~n.err /\ n.val = Len(a)
  BY Input
<1>7. read(n, Len(a)) = In(rest, a, m)
  BY readOf
<1> HIDE DEF n
<1>8. readSized(n) = In(rest, a, m)
  BY <1>1, <1>6, <1>7 DEF readSized
<1>9. ReadBytes(In(p \o (a \o rest), v, m)) = readSized(n)
  BY <1>3 DEF ReadBytes, n
<1> QED BY <1>4, <1>5, <1>8, <1>9

-----------------------------------------------------------------------------
(***************************************************************************)
(* ReadEach: with any reader, the results are those of the reads one after *)
(* the other.                                                              *)
(***************************************************************************)
At(b, f, v, m) == IF f = 0 THEN In(b, v, m) ELSE Bad(b, v, m)

LEMMA Growing ==
  ASSUME NEW n \in Nat, NEW y, y = [i \in 1 .. n |-> y[i]]
  PROVE  /\ SubSeq(y, 1, 0) = <<>> /\ SubSeq(y, 1, n) = y
         /\ \A i \in 1 .. n : Append(SubSeq(y, 1, i - 1), y[i]) = SubSeq(y, 1, i)
<1> DEFINE S == {y[i] : i \in 1 .. n}
<1>1. y \in Seq(S) /\ Len(y) = n
  BY IsSequence
<1> HIDE DEF S
<1>2. SubSeq(y, 1, 0) = <<>> /\ SubSeq(y, 1, n) = y
  BY <1>1
<1>3. ASSUME NEW i \in 1 .. n PROVE Append(SubSeq(y, 1, i - 1), y[i]) = SubSeq(y, 1, i)
  BY <1>1
<1> QED BY <1>2, <1>3

LEMMA AtMap ==
  ASSUME NEW b, NEW f, NEW v, NEW m, NEW x
  PROVE  /\ At(b, f, v, m).val = v
         /\ SetVal(At(b, f, v, m), x) = At(b, f, x, m)
         /\ RowInput(At(b, f, v, m).buf, At(b, f, v, m).err, x, At(b, f, v, m).meta) = At(b, f, x, m)
<1>1. CASE f = 0
  BY <1>1, Input, InputMap DEF At
<1>2. CASE f # 0
  BY <1>2, Broken, BrokenMap DEF At
<1> QED BY <1>1, <1>2

Tuple(y, n) == y = [i \in 1 .. n |-> y[i]]

Pre(y, i) == SubSeq(y, 1, i)

(* The input q after one more value x was read into it. *)
With(x, q) == RowInput(q.buf, q.err, Append(x, q.val), q.meta)

(* The inputs between the reads, and the table of a loop over n items.     *)
Inputs(b, f, y, mt, n) ==
  [i \in 0 .. n |-> At(b[i], f[i], Pre(y, i), mt[i])]

LEMMA InputsGrow ==
  ASSUME NEW n \in Nat, NEW b, NEW f, NEW y, NEW mt, Tuple(y, n)
  PROVE  /\ \A i \in 1 .. n : Inputs(b, f, y, mt, n)[i]
                = With(Inputs(b, f, y, mt, n)[i - 1].val, At(b[i], f[i], y[i], mt[i]))
         /\ Inputs(b, f, y, mt, n)[n] = At(b[n], f[n], y, mt[n])
         /\ \A i \in 0 .. n : Inputs(b, f, y, mt, n)[i] = At(b[i], f[i], Pre(y, i), mt[i])
<1>1. /\ SubSeq(y, 1, 0) = <<>> /\ SubSeq(y, 1, n) = y
      /\ \A i \in 1 .. n : Append(SubSeq(y, 1, i - 1), y[i]) = SubSeq(y, 1, i)
  BY Growing DEF Tuple
<1> DEFINE tab == Inputs(b, f, y, mt, n)
<1>2. \A i \in 0 .. n : tab[i] = At(b[i], f[i], Pre(y, i), mt[i])
  BY DEF Inputs
<1>3. Pre(y, 0) = <<>> /\ Pre(y, n) = y /\ \A i \in 1 .. n : Append(Pre(y, i - 1), y[i]) = Pre(y, i)
  BY <1>1 DEF Pre
<1> HIDE DEF tab
<1>4. ASSUME NEW i \in 1 .. n
      PROVE  tab[i] = With(tab[i - 1].val, At(b[i], f[i], y[i], mt[i]))
  <2> DEFINE q == At(b[i], f[i], y[i], mt[i])
  <2>1. i - 1 \in 0 .. n /\ i \in 0 .. n
    OBVIOUS
  <2>2. tab[i - 1].val = Pre(y, i - 1)
    <3>1. tab[i - 1] = At(b[i - 1], f[i - 1], Pre(y, i - 1), mt[i - 1])
      BY <1>2, <2>1
    <3> QED BY <3>1, AtMap
  <2>3. q.val = y[i] /\ RowInput(q.buf, q.err, Pre(y, i), q.meta) = At(b[i], f[i], Pre(y, i), mt[i])
    BY AtMap
  <2>4. tab[i] = At(b[i], f[i], Pre(y, i), mt[i])
    BY <1>2, <2>1
  <2>5. Append(Pre(y, i - 1), y[i]) = Pre(y, i)
    BY <1>3
  <2> HIDE DEF q
  <2>6. With(tab[i - 1].val, q) = RowInput(q.buf, q.err, Pre(y, i), q.meta)
    BY <2>2, <2>3, <2>5 DEF With
  <2> QED BY <2>3, <2>4, <2>6 DEF q
<1>6. tab[n] = At(b[n], f[n], y, mt[n])
  <2>1. n \in 0 .. n
    OBVIOUS
  <2>2. tab[n] = At(b[n], f[n], Pre(y, n), mt[n])
    BY <1>2, <2>1, Zenon
  <2> QED BY <1>3, <2>2
<1> QED BY <1>2, <1>4, <1>6 DEF tab

LEMMA InputsFirst ==
  ASSUME NEW n \in Nat, NEW b, NEW f, NEW y, NEW mt, Tuple(y, n), NEW v
  PROVE  SetVal(At(b[0], f[0], v, mt[0]), <<>>) = Inputs(b, f, y, mt, n)[0]
<1>1. Inputs(b, f, y, mt, n)[0] = At(b[0], f[0], Pre(y, 0), mt[0])
  BY DEF Inputs
<1>2. Pre(y, 0) = <<>>
  BY Growing DEF Pre, Tuple
<1> QED BY <1>1, <1>2, AtMap

LEMMA InputsAre ==
  ASSUME NEW n \in Nat, NEW b, NEW f, NEW y, NEW mt, Tuple(y, n), NEW v,
         NEW tab, tab = Inputs(b, f, y, mt, n)
  PROVE  /\ SetVal(At(b[0], f[0], v, mt[0]), <<>>) = tab[0] /\ tab[n] = At(b[n], f[n], y, mt[n])
         /\ \A i \in 1 .. n : tab[i] = With(tab[i - 1].val, At(b[i], f[i], y[i], mt[i]))
         /\ \A i \in 1 .. n : \E x : tab[i - 1] = At(b[i - 1], f[i - 1], x, mt[i - 1])
         /\ tab = [i \in 0 .. n |-> tab[i]]
<1>1. SetVal(At(b[0], f[0], v, mt[0]), <<>>) = tab[0]
  BY InputsFirst
<1>2. tab[n] = At(b[n], f[n], y, mt[n])
  BY InputsGrow
<1>3. \A i \in 1 .. n : tab[i] = With(tab[i - 1].val, At(b[i], f[i], y[i], mt[i]))
  BY InputsGrow
<1>4. \A i \in 0 .. n : tab[i] = At(b[i], f[i], Pre(y, i), mt[i])
  BY InputsGrow
<1>5. \A i \in 1 .. n : i - 1 \in 0 .. n
  OBVIOUS
<1>6. tab = [i \in 0 .. n |-> tab[i]]
  BY DEF Inputs
<1> QED BY <1>1, <1>2, <1>3, <1>4, <1>5, <1>6, Zenon

-----------------------------------------------------------------------------
(***************************************************************************)
(* What was written item by item is read item by item.                     *)
(***************************************************************************)
LEMMA TupleLen ==
  ASSUME NEW n \in Nat, NEW y, Tuple(y, n)
  PROVE  Len(y) = n /\ DOMAIN y = 1 .. n /\ (n = 0 => y = <<>>)
<1> DEFINE S == {y[i] : i \in 1 .. n}
<1>1. y \in Seq(S) /\ Len(y) = n /\ DOMAIN y = 1 .. n
  BY IsSequence DEF Tuple
<1> HIDE DEF S
<1> QED BY <1>1

LEMMA TuplesEqual ==
  ASSUME NEW n \in Nat, NEW y, NEW z, Tuple(y, n), Tuple(z, n), \A i \in 1 .. n : y[i] = z[i]
  PROVE  y = z
<1>1. y = [i \in 1 .. n |-> y[i]] /\ z = [i \in 1 .. n |-> z[i]]
  BY DEF Tuple
<1>2. [i \in 1 .. n |-> y[i]] = [i \in 1 .. n |-> z[i]]
  OBVIOUS
<1> QED BY <1>1, <1>2, Zenon

LEMMA SeqIsTuple ==
  ASSUME NEW s, IsSeq(s)
  PROVE  Len(s) \in Nat /\ Tuple(s, Len(s)) /\ DOMAIN s = 1 .. Len(s)
<1>1. Len(s) \in Nat /\ Tuple(s, Len(s))
  BY DEF IsSeq, Tuple
<1> QED BY <1>1, TupleLen

(* The parts of what is written, and the rests of what is left to read.    *)
Written(parts, n, rest, w) ==
  /\ w[n] = rest /\ w[0] = FlattenSeq(parts) \o rest
  /\ \A i \in 0 .. n : w[i] \in Bytes
  /\ \A i \in 1 .. n : w[i - 1] = parts[i] \o w[i]

ByteParts(parts, n) == Tuple(parts, n) /\ \A i \in 1 .. n : parts[i] \in Bytes

LEMMA WrittenIs ==
  ASSUME NEW n \in Nat, NEW parts, ByteParts(parts, n), NEW rest \in Bytes
  PROVE  FlattenSeq(parts) \in Bytes /\ \E w : Written(parts, n, rest, w)
<1>1. Parts(parts, Byte, n)
  BY TupleLen DEF Parts, ByteParts, Bytes
<1>2. rest \in Seq(Byte)
  BY DEF Bytes
<1>3. PICK w : Rests(w, Byte, parts, n, rest) /\ w[0] = FlattenSeq(parts) \o rest
  BY <1>1, <1>2, FlattenRests
<1>4. FlattenSeq(parts) \in Bytes
  BY <1>1, <1>2, FlattenRests DEF Bytes
<1>5. Written(parts, n, rest, w)
  BY <1>3 DEF Written, Rests, Bytes
<1> QED BY <1>4, <1>5

(* The inputs of a loop without errors. *)
Still(n, x) == [i \in 0 .. n |-> x]

LEMMA StillAt ==
  ASSUME NEW n \in Nat, NEW b, NEW m, NEW v, NEW i \in 0 .. n
  PROVE  At(b, Still(n, 0)[i], v, Still(n, m)[i]) = In(b, v, m)
BY DEF At, Still

(* What a loop of reads that succeed goes through. *)
Through(w, parts, n, rest, m) ==
  /\ \A v : /\ At(w[0], Still(n, 0)[0], v, Still(n, m)[0]) = In(FlattenSeq(parts) \o rest, v, m)
            /\ At(w[n], Still(n, 0)[n], v, Still(n, m)[n]) = In(rest, v, m)
  /\ \A i \in 1 .. n : w[i] \in Bytes
  /\ \A i \in 1 .. n : \A v :
       /\ At(w[i - 1], Still(n, 0)[i - 1], v, Still(n, m)[i - 1]) = In(parts[i] \o w[i], v, m)
       /\ At(w[i], Still(n, 0)[i], v, Still(n, m)[i]) = In(w[i], v, m)

LEMMA ThroughParts ==
  ASSUME NEW n \in Nat, NEW parts, ByteParts(parts, n), NEW rest \in Bytes, NEW m
  PROVE  FlattenSeq(parts) \in Bytes /\ \E w : Through(w, parts, n, rest, m)
<1>1. FlattenSeq(parts) \in Bytes /\ \E w : Written(parts, n, rest, w)
  BY WrittenIs
<1>2. PICK w : Written(parts, n, rest, w)
  BY <1>1
<1>3. 0 \in 0 .. n /\ n \in 0 .. n /\ \A i \in 1 .. n : i \in 0 .. n /\ i - 1 \in 0 .. n
  OBVIOUS
<1>4. /\ \A i \in 1 .. n : w[i] \in Bytes /\ w[i - 1] = parts[i] \o w[i]
      /\ w[0] = FlattenSeq(parts) \o rest /\ w[n] = rest
  BY <1>2, <1>3 DEF Written
<1>5. \A i \in 0 .. n : \A v : At(w[i], Still(n, 0)[i], v, Still(n, m)[i]) = In(w[i], v, m)
  BY StillAt
<1>6. Through(w, parts, n, rest, m)
  BY <1>3, <1>4, <1>5, Zenon DEF Through
<1> QED BY <1>1, <1>6

(* The reads ReadEach is used with, under names, so that what is common to *)
(* the loops is said once.                                                 *)
Item(k, q, it) ==
  CASE k = "Num" -> ReadNum(q, it) [] k = "Scalar" -> ReadScalar(q, it)
    [] k = "Value" -> ReadValue(q, it) [] k = "Row" -> ReadRow(q, it)
    [] k = "Field" -> ReadField(q, it) [] k = "Name" -> readName(q, it)
    [] k = "Column" -> ReadColumn(q, it) [] k = "FullType" -> fullType(q, it)
    [] k = "SimpleType" -> simpleType(q, it) [] k = "Param" -> ReadParam(q, it)

LEMMA ItemIs ==
  ASSUME NEW q, NEW it
  PROVE  /\ Item("Num", q, it) = ReadNum(q, it) /\ Item("Scalar", q, it) = ReadScalar(q, it)
         /\ Item("Value", q, it) = ReadValue(q, it) /\ Item("Row", q, it) = ReadRow(q, it)
         /\ Item("Field", q, it) = ReadField(q, it) /\ Item("Name", q, it) = readName(q, it)
         /\ Item("Column", q, it) = ReadColumn(q, it) /\ Item("FullType", q, it) = fullType(q, it)
         /\ Item("SimpleType", q, it) = simpleType(q, it) /\ Item("Param", q, it) = ReadParam(q, it)
BY DEF Item

Step(k, t, r, items, i) ==
  IF i = 0 THEN SetVal(r, <<>>) ELSE With(t[i - 1].val, Item(k, t[i - 1], items[i]))

Table(k, t, r, items) == t = [i \in 0 .. Len(items) |-> Step(k, t, r, items, i)]

Each(k, r, items) == (CHOOSE t : Table(k, t, r, items))[Len(items)]

Reads(rd, items, b, f, y, mt, n) ==
  /\ Len(items) = n /\ Tuple(y, n)
  /\ \A i \in 1 .. n : \A v :
       Item(rd, At(b[i - 1], f[i - 1], v, mt[i - 1]), items[i]) = At(b[i], f[i], y[i], mt[i])

LoopEnds(rd, items, b, f, y, mt, n, v) ==
  Each(rd, At(b[0], f[0], v, mt[0]), items) = At(b[n], f[n], y, mt[n])

LEMMA EachReads ==
  ASSUME NEW rd, NEW n \in Nat, NEW items, NEW b, NEW f, NEW y, NEW mt, NEW v0,
         Reads(rd, items, b, f, y, mt, n)
  PROVE  LoopEnds(rd, items, b, f, y, mt, n, v0)
<1> DEFINE r == At(b[0], f[0], v0, mt[0])
           tab == Inputs(b, f, y, mt, n)
           any == CHOOSE t : Table(rd, t, r, items)
<1>1. Each(rd, r, items) = any[n] /\ Len(items) = n
  BY DEF Each, Reads
<1> HIDE DEF tab, any
<1>2. /\ SetVal(r, <<>>) = tab[0] /\ tab[n] = At(b[n], f[n], y, mt[n])
      /\ \A i \in 1 .. n : tab[i] = With(tab[i - 1].val, At(b[i], f[i], y[i], mt[i]))
      /\ \A i \in 1 .. n : \E x : tab[i - 1] = At(b[i - 1], f[i - 1], x, mt[i - 1])
      /\ tab = [i \in 0 .. n |-> tab[i]]
  BY InputsAre DEF Reads, tab
<1> HIDE DEF r
<1>3. \A i \in 0 .. n : tab[i] = Step(rd, tab, r, items, i)
  <2>1. \A i \in 1 .. n : Item(rd, tab[i - 1], items[i]) = At(b[i], f[i], y[i], mt[i])
    BY <1>2, Zenon DEF Reads
  <2>2. \A i \in 1 .. n : tab[i] = With(tab[i - 1].val, Item(rd, tab[i - 1], items[i]))
    BY <1>2, <2>1, Zenon
  <2>3. tab[0] = SetVal(r, <<>>)
    BY <1>2
  <2> QED BY <2>2, <2>3 DEF Step
<1>4. Table(rd, any, r, items)
  <2>1. Table(rd, tab, r, items)
    BY <1>1, <1>2, <1>3, Zenon DEF Table
  <2> QED BY <2>1 DEF any
<1>5. \A i \in 0 .. n : any[i] = Step(rd, any, r, items, i)
  BY <1>1, <1>4, Zenon DEF Table
<1>6. any[0] = tab[0] /\ \A i \in 1 .. n : any[i - 1] = tab[i - 1] => any[i] = tab[i]
  BY <1>3, <1>5 DEF Step
<1>7. \A i \in 0 .. n : any[i] = tab[i]
  BY <1>6, Determined
<1> QED BY <1>1, <1>2, <1>7 DEF r, LoopEnds

All(rd, items, parts, y, m, n) ==
  /\ Len(items) = n /\ Tuple(y, n) /\ ByteParts(parts, n)
  /\ \A i \in 1 .. n : \A v : \A rest \in Bytes :
       Item(rd, In(parts[i] \o rest, v, m), items[i]) = In(rest, y[i], m)

LEMMA EachAll ==
  ASSUME NEW rd, NEW n \in Nat, NEW items, NEW parts, NEW y, NEW m, All(rd, items, parts, y, m, n),
         NEW rest \in Bytes, NEW v
  PROVE  /\ FlattenSeq(parts) \in Bytes
         /\ Each(rd, In(FlattenSeq(parts) \o rest, v, m), items) = In(rest, y, m)
<1>1. FlattenSeq(parts) \in Bytes /\ \E w : Through(w, parts, n, rest, m)
  BY ThroughParts DEF All
<1>2. PICK w : Through(w, parts, n, rest, m)
  BY <1>1
<1>3. Reads(rd, items, w, Still(n, 0), y, Still(n, m), n)
  <2>1. \A i \in 1 .. n : \A u : Item(rd, In(parts[i] \o w[i], u, m), items[i]) = In(w[i], y[i], m)
    BY <1>2 DEF All, Through
  <2>2. \A i \in 1 .. n : \A u :
          Item(rd, At(w[i - 1], Still(n, 0)[i - 1], u, Still(n, m)[i - 1]), items[i])
            = At(w[i], Still(n, 0)[i], y[i], Still(n, m)[i])
    BY <1>2, <2>1, Zenon DEF Through
  <2> QED BY <2>2 DEF Reads, All
<1>4. Each(rd, At(w[0], Still(n, 0)[0], v, Still(n, m)[0]), items)
        = At(w[n], Still(n, 0)[n], y, Still(n, m)[n])
  <2>1. LoopEnds(rd, items, w, Still(n, 0), y, Still(n, m), n, v)
    BY <1>3, EachReads
  <2> QED BY <2>1 DEF LoopEnds
<1> QED BY <1>1, <1>2, <1>4 DEF Through

LEMMA NamedNum ==
  ASSUME NEW r, NEW items
  PROVE  ReadEach(r, items, ReadNum) = Each("Num", r, items)
<1> DEFINE a(t) == [i \in 0 .. Len(items) |->
                      IF i = 0 THEN SetVal(r, <<>>) ELSE With(t[i - 1].val, ReadNum(t[i - 1], items[i]))]
           b(t) == [i \in 0 .. Len(items) |-> Step("Num", t, r, items, i)]
<1>1. ReadEach(r, items, ReadNum) = (CHOOSE t : t = a(t))[Len(items)]
  BY DEF ReadEach, MapVal, With
<1>2. \A t : a(t) = b(t)
  BY ItemIs DEF Step
<1> HIDE DEF a, b
<1>3. (CHOOSE t : t = a(t)) = (CHOOSE t : t = b(t))
  BY <1>2, Zenon
<1> QED BY <1>1, <1>3 DEF Each, Table, b

AllNum(items, parts, y, m, n) ==
  /\ Len(items) = n /\ Tuple(y, n) /\ ByteParts(parts, n)
  /\ \A i \in 1 .. n : \A v : \A rest \in Bytes :
       ReadNum(In(parts[i] \o rest, v, m), items[i]) = In(rest, y[i], m)

LEMMA LoopNum ==
  ASSUME NEW n \in Nat, NEW items, NEW parts, NEW y, NEW m, AllNum(items, parts, y, m, n),
         NEW rest \in Bytes, NEW v
  PROVE  /\ FlattenSeq(parts) \in Bytes
         /\ ReadEach(In(FlattenSeq(parts) \o rest, v, m), items, ReadNum) = In(rest, y, m)
<1>1. ASSUME NEW i \in 1 .. n, NEW u, NEW more \in Bytes
      PROVE  Item("Num", In(parts[i] \o more, u, m), items[i]) = In(more, y[i], m)
  <2>1. ReadNum(In(parts[i] \o more, u, m), items[i]) = In(more, y[i], m)
    BY DEF AllNum
  <2> QED BY <2>1, ItemIs, Zenon
<1>2. All("Num", items, parts, y, m, n)
  BY <1>1 DEF All, AllNum
<1> QED BY <1>2, EachAll, NamedNum

LEMMA NamedScalar ==
  ASSUME NEW r, NEW items
  PROVE  ReadEach(r, items, ReadScalar) = Each("Scalar", r, items)
<1> DEFINE a(t) == [i \in 0 .. Len(items) |->
                      IF i = 0 THEN SetVal(r, <<>>) ELSE With(t[i - 1].val, ReadScalar(t[i - 1], items[i]))]
           b(t) == [i \in 0 .. Len(items) |-> Step("Scalar", t, r, items, i)]
<1>1. ReadEach(r, items, ReadScalar) = (CHOOSE t : t = a(t))[Len(items)]
  BY DEF ReadEach, MapVal, With
<1>2. \A t : a(t) = b(t)
  BY ItemIs DEF Step
<1> HIDE DEF a, b
<1>3. (CHOOSE t : t = a(t)) = (CHOOSE t : t = b(t))
  BY <1>2, Zenon
<1> QED BY <1>1, <1>3 DEF Each, Table, b

AllScalar(items, parts, y, m, n) ==
  /\ Len(items) = n /\ Tuple(y, n) /\ ByteParts(parts, n)
  /\ \A i \in 1 .. n : \A v : \A rest \in Bytes :
       ReadScalar(In(parts[i] \o rest, v, m), items[i]) = In(rest, y[i], m)

LEMMA LoopScalar ==
  ASSUME NEW n \in Nat, NEW items, NEW parts, NEW y, NEW m, AllScalar(items, parts, y, m, n),
         NEW rest \in Bytes, NEW v
  PROVE  /\ FlattenSeq(parts) \in Bytes
         /\ ReadEach(In(FlattenSeq(parts) \o rest, v, m), items, ReadScalar) = In(rest, y, m)
<1>1. ASSUME NEW i \in 1 .. n, NEW u, NEW more \in Bytes
      PROVE  Item("Scalar", In(parts[i] \o more, u, m), items[i]) = In(more, y[i], m)
  <2>1. ReadScalar(In(parts[i] \o more, u, m), items[i]) = In(more, y[i], m)
    BY DEF AllScalar
  <2> QED BY <2>1, ItemIs, Zenon
<1>2. All("Scalar", items, parts, y, m, n)
  BY <1>1 DEF All, AllScalar
<1> QED BY <1>2, EachAll, NamedScalar

LEMMA NamedValue ==
  ASSUME NEW r, NEW items
  PROVE  ReadEach(r, items, ReadValue) = Each("Value", r, items)
<1> DEFINE a(t) == [i \in 0 .. Len(items) |->
                      IF i = 0 THEN SetVal(r, <<>>) ELSE With(t[i - 1].val, ReadValue(t[i - 1], items[i]))]
           b(t) == [i \in 0 .. Len(items) |-> Step("Value", t, r, items, i)]
<1>1. ReadEach(r, items, ReadValue) = (CHOOSE t : t = a(t))[Len(items)]
  BY DEF ReadEach, MapVal, With
<1>2. \A t : a(t) = b(t)
  BY ItemIs DEF Step
<1> HIDE DEF a, b
<1>3. (CHOOSE t : t = a(t)) = (CHOOSE t : t = b(t))
  BY <1>2, Zenon
<1> QED BY <1>1, <1>3 DEF Each, Table, b

ReadsValue(items, b, f, y, mt, n) ==
  /\ Len(items) = n /\ Tuple(y, n)
  /\ \A i \in 1 .. n : \A v :
       ReadValue(At(b[i - 1], f[i - 1], v, mt[i - 1]), items[i]) = At(b[i], f[i], y[i], mt[i])

LEMMA EachValue ==
  ASSUME NEW n \in Nat, NEW items, NEW b, NEW f, NEW y, NEW mt, NEW v0,
         ReadsValue(items, b, f, y, mt, n)
  PROVE  ReadEach(At(b[0], f[0], v0, mt[0]), items, ReadValue) = At(b[n], f[n], y, mt[n])
<1>1. ASSUME NEW i \in 1 .. n, NEW v
      PROVE  Item("Value", At(b[i - 1], f[i - 1], v, mt[i - 1]), items[i]) = At(b[i], f[i], y[i], mt[i])
  <2>1. ReadValue(At(b[i - 1], f[i - 1], v, mt[i - 1]), items[i]) = At(b[i], f[i], y[i], mt[i])
    BY DEF ReadsValue
  <2> QED BY <2>1, ItemIs, Zenon
<1>2. Reads("Value", items, b, f, y, mt, n)
  BY <1>1 DEF Reads, ReadsValue
<1>3. LoopEnds("Value", items, b, f, y, mt, n, v0)
  BY <1>2, EachReads
<1> QED BY <1>3, NamedValue DEF LoopEnds

AllValue(items, parts, y, m, n) ==
  /\ Len(items) = n /\ Tuple(y, n) /\ ByteParts(parts, n)
  /\ \A i \in 1 .. n : \A v : \A rest \in Bytes :
       ReadValue(In(parts[i] \o rest, v, m), items[i]) = In(rest, y[i], m)

LEMMA LoopValue ==
  ASSUME NEW n \in Nat, NEW items, NEW parts, NEW y, NEW m, AllValue(items, parts, y, m, n),
         NEW rest \in Bytes, NEW v
  PROVE  /\ FlattenSeq(parts) \in Bytes
         /\ ReadEach(In(FlattenSeq(parts) \o rest, v, m), items, ReadValue) = In(rest, y, m)
<1>1. ASSUME NEW i \in 1 .. n, NEW u, NEW more \in Bytes
      PROVE  Item("Value", In(parts[i] \o more, u, m), items[i]) = In(more, y[i], m)
  <2>1. ReadValue(In(parts[i] \o more, u, m), items[i]) = In(more, y[i], m)
    BY DEF AllValue
  <2> QED BY <2>1, ItemIs, Zenon
<1>2. All("Value", items, parts, y, m, n)
  BY <1>1 DEF All, AllValue
<1> QED BY <1>2, EachAll, NamedValue

LEMMA NamedRow ==
  ASSUME NEW r, NEW items
  PROVE  ReadEach(r, items, ReadRow) = Each("Row", r, items)
<1> DEFINE a(t) == [i \in 0 .. Len(items) |->
                      IF i = 0 THEN SetVal(r, <<>>) ELSE With(t[i - 1].val, ReadRow(t[i - 1], items[i]))]
           b(t) == [i \in 0 .. Len(items) |-> Step("Row", t, r, items, i)]
<1>1. ReadEach(r, items, ReadRow) = (CHOOSE t : t = a(t))[Len(items)]
  BY DEF ReadEach, MapVal, With
<1>2. \A t : a(t) = b(t)
  BY ItemIs DEF Step
<1> HIDE DEF a, b
<1>3. (CHOOSE t : t = a(t)) = (CHOOSE t : t = b(t))
  BY <1>2, Zenon
<1> QED BY <1>1, <1>3 DEF Each, Table, b

AllRow(items, parts, y, m, n) ==
  /\ Len(items) = n /\ Tuple(y, n) /\ ByteParts(parts, n)
  /\ \A i \in 1 .. n : \A v : \A rest \in Bytes :
       ReadRow(In(parts[i] \o rest, v, m), items[i]) = In(rest, y[i], m)

LEMMA LoopRow ==
  ASSUME NEW n \in Nat, NEW items, NEW parts, NEW y, NEW m, AllRow(items, parts, y, m, n),
         NEW rest \in Bytes, NEW v
  PROVE  /\ FlattenSeq(parts) \in Bytes
         /\ ReadEach(In(FlattenSeq(parts) \o rest, v, m), items, ReadRow) = In(rest, y, m)
<1>1. ASSUME NEW i \in 1 .. n, NEW u, NEW more \in Bytes
      PROVE  Item("Row", In(parts[i] \o more, u, m), items[i]) = In(more, y[i], m)
  <2>1. ReadRow(In(parts[i] \o more, u, m), items[i]) = In(more, y[i], m)
    BY DEF AllRow
  <2> QED BY <2>1, ItemIs, Zenon
<1>2. All("Row", items, parts, y, m, n)
  BY <1>1 DEF All, AllRow
<1> QED BY <1>2, EachAll, NamedRow

LEMMA NamedField ==
  ASSUME NEW r, NEW items
  PROVE  ReadEach(r, items, ReadField) = Each("Field", r, items)
<1> DEFINE a(t) == [i \in 0 .. Len(items) |->
                      IF i = 0 THEN SetVal(r, <<>>) ELSE With(t[i - 1].val, ReadField(t[i - 1], items[i]))]
           b(t) == [i \in 0 .. Len(items) |-> Step("Field", t, r, items, i)]
<1>1. ReadEach(r, items, ReadField) = (CHOOSE t : t = a(t))[Len(items)]
  BY DEF ReadEach, MapVal, With
<1>2. \A t : a(t) = b(t)
  BY ItemIs DEF Step
<1> HIDE DEF a, b
<1>3. (CHOOSE t : t = a(t)) = (CHOOSE t : t = b(t))
  BY <1>2, Zenon
<1> QED BY <1>1, <1>3 DEF Each, Table, b

ReadsField(items, b, f, y, mt, n) ==
  /\ Len(items) = n /\ Tuple(y, n)
  /\ \A i \in 1 .. n : \A v :
       ReadField(At(b[i - 1], f[i - 1], v, mt[i - 1]), items[i]) = At(b[i], f[i], y[i], mt[i])

LEMMA EachField ==
  ASSUME NEW n \in Nat, NEW items, NEW b, NEW f, NEW y, NEW mt, NEW v0,
         ReadsField(items, b, f, y, mt, n)
  PROVE  ReadEach(At(b[0], f[0], v0, mt[0]), items, ReadField) = At(b[n], f[n], y, mt[n])
<1>1. ASSUME NEW i \in 1 .. n, NEW v
      PROVE  Item("Field", At(b[i - 1], f[i - 1], v, mt[i - 1]), items[i]) = At(b[i], f[i], y[i], mt[i])
  <2>1. ReadField(At(b[i - 1], f[i - 1], v, mt[i - 1]), items[i]) = At(b[i], f[i], y[i], mt[i])
    BY DEF ReadsField
  <2> QED BY <2>1, ItemIs, Zenon
<1>2. Reads("Field", items, b, f, y, mt, n)
  BY <1>1 DEF Reads, ReadsField
<1>3. LoopEnds("Field", items, b, f, y, mt, n, v0)
  BY <1>2, EachReads
<1> QED BY <1>3, NamedField DEF LoopEnds

LEMMA NamedName ==
  ASSUME NEW r, NEW items
  PROVE  ReadEach(r, items, readName) = Each("Name", r, items)
<1> DEFINE a(t) == [i \in 0 .. Len(items) |->
                      IF i = 0 THEN SetVal(r, <<>>) ELSE With(t[i - 1].val, readName(t[i - 1], items[i]))]
           b(t) == [i \in 0 .. Len(items) |-> Step("Name", t, r, items, i)]
<1>1. ReadEach(r, items, readName) = (CHOOSE t : t = a(t))[Len(items)]
  BY DEF ReadEach, MapVal, With
<1>2. \A t : a(t) = b(t)
  BY ItemIs DEF Step
<1> HIDE DEF a, b
<1>3. (CHOOSE t : t = a(t)) = (CHOOSE t : t = b(t))
  BY <1>2, Zenon
<1> QED BY <1>1, <1>3 DEF Each, Table, b

AllName(items, parts, y, m, n) ==
  /\ Len(items) = n /\ Tuple(y, n) /\ ByteParts(parts, n)
  /\ \A i \in 1 .. n : \A v : \A rest \in Bytes :
       readName(In(parts[i] \o rest, v, m), items[i]) = In(rest, y[i], m)

LEMMA LoopName ==
  ASSUME NEW n \in Nat, NEW items, NEW parts, NEW y, NEW m, AllName(items, parts, y, m, n),
         NEW rest \in Bytes, NEW v
  PROVE  /\ FlattenSeq(parts) \in Bytes
         /\ ReadEach(In(FlattenSeq(parts) \o rest, v, m), items, readName) = In(rest, y, m)
<1>1. ASSUME NEW i \in 1 .. n, NEW u, NEW more \in Bytes
      PROVE  Item("Name", In(parts[i] \o more, u, m), items[i]) = In(more, y[i], m)
  <2>1. readName(In(parts[i] \o more, u, m), items[i]) = In(more, y[i], m)
    BY DEF AllName
  <2> QED BY <2>1, ItemIs, Zenon
<1>2. All("Name", items, parts, y, m, n)
  BY <1>1 DEF All, AllName
<1> QED BY <1>2, EachAll, NamedName

LEMMA NamedColumn ==
  ASSUME NEW r, NEW items
  PROVE  ReadEach(r, items, ReadColumn) = Each("Column", r, items)
<1> DEFINE a(t) == [i \in 0 .. Len(items) |->
                      IF i = 0 THEN SetVal(r, <<>>) ELSE With(t[i - 1].val, ReadColumn(t[i - 1], items[i]))]
           b(t) == [i \in 0 .. Len(items) |-> Step("Column", t, r, items, i)]
<1>1. ReadEach(r, items, ReadColumn) = (CHOOSE t : t = a(t))[Len(items)]
  BY DEF ReadEach, MapVal, With
<1>2. \A t : a(t) = b(t)
  BY ItemIs DEF Step
<1> HIDE DEF a, b
<1>3. (CHOOSE t : t = a(t)) = (CHOOSE t : t = b(t))
  BY <1>2, Zenon
<1> QED BY <1>1, <1>3 DEF Each, Table, b

AllColumn(items, parts, y, m, n) ==
  /\ Len(items) = n /\ Tuple(y, n) /\ ByteParts(parts, n)
  /\ \A i \in 1 .. n : \A v : \A rest \in Bytes :
       ReadColumn(In(parts[i] \o rest, v, m), items[i]) = In(rest, y[i], m)

LEMMA LoopColumn ==
  ASSUME NEW n \in Nat, NEW items, NEW parts, NEW y, NEW m, AllColumn(items, parts, y, m, n),
         NEW rest \in Bytes, NEW v
  PROVE  /\ FlattenSeq(parts) \in Bytes
         /\ ReadEach(In(FlattenSeq(parts) \o rest, v, m), items, ReadColumn) = In(rest, y, m)
<1>1. ASSUME NEW i \in 1 .. n, NEW u, NEW more \in Bytes
      PROVE  Item("Column", In(parts[i] \o more, u, m), items[i]) = In(more, y[i], m)
  <2>1. ReadColumn(In(parts[i] \o more, u, m), items[i]) = In(more, y[i], m)
    BY DEF AllColumn
  <2> QED BY <2>1, ItemIs, Zenon
<1>2. All("Column", items, parts, y, m, n)
  BY <1>1 DEF All, AllColumn
<1> QED BY <1>2, EachAll, NamedColumn

LEMMA NamedFullType ==
  ASSUME NEW r, NEW items
  PROVE  ReadEach(r, items, fullType) = Each("FullType", r, items)
<1> DEFINE a(t) == [i \in 0 .. Len(items) |->
                      IF i = 0 THEN SetVal(r, <<>>) ELSE With(t[i - 1].val, fullType(t[i - 1], items[i]))]
           b(t) == [i \in 0 .. Len(items) |-> Step("FullType", t, r, items, i)]
<1>1. ReadEach(r, items, fullType) = (CHOOSE t : t = a(t))[Len(items)]
  BY DEF ReadEach, MapVal, With
<1>2. \A t : a(t) = b(t)
  BY ItemIs DEF Step
<1> HIDE DEF a, b
<1>3. (CHOOSE t : t = a(t)) = (CHOOSE t : t = b(t))
  BY <1>2, Zenon
<1> QED BY <1>1, <1>3 DEF Each, Table, b

AllFullType(items, parts, y, m, n) ==
  /\ Len(items) = n /\ Tuple(y, n) /\ ByteParts(parts, n)
  /\ \A i \in 1 .. n : \A v : \A rest \in Bytes :
       fullType(In(parts[i] \o rest, v, m), items[i]) = In(rest, y[i], m)

LEMMA LoopFullType ==
  ASSUME NEW n \in Nat, NEW items, NEW parts, NEW y, NEW m, AllFullType(items, parts, y, m, n),
         NEW rest \in Bytes, NEW v
  PROVE  /\ FlattenSeq(parts) \in Bytes
         /\ ReadEach(In(FlattenSeq(parts) \o rest, v, m), items, fullType) = In(rest, y, m)
<1>1. ASSUME NEW i \in 1 .. n, NEW u, NEW more \in Bytes
      PROVE  Item("FullType", In(parts[i] \o more, u, m), items[i]) = In(more, y[i], m)
  <2>1. fullType(In(parts[i] \o more, u, m), items[i]) = In(more, y[i], m)
    BY DEF AllFullType
  <2> QED BY <2>1, ItemIs, Zenon
<1>2. All("FullType", items, parts, y, m, n)
  BY <1>1 DEF All, AllFullType
<1> QED BY <1>2, EachAll, NamedFullType

LEMMA NamedSimpleType ==
  ASSUME NEW r, NEW items
  PROVE  ReadEach(r, items, simpleType) = Each("SimpleType", r, items)
<1> DEFINE a(t) == [i \in 0 .. Len(items) |->
                      IF i = 0 THEN SetVal(r, <<>>) ELSE With(t[i - 1].val, simpleType(t[i - 1], items[i]))]
           b(t) == [i \in 0 .. Len(items) |-> Step("SimpleType", t, r, items, i)]
<1>1. ReadEach(r, items, simpleType) = (CHOOSE t : t = a(t))[Len(items)]
  BY DEF ReadEach, MapVal, With
<1>2. \A t : a(t) = b(t)
  BY ItemIs DEF Step
<1> HIDE DEF a, b
<1>3. (CHOOSE t : t = a(t)) = (CHOOSE t : t = b(t))
  BY <1>2, Zenon
<1> QED BY <1>1, <1>3 DEF Each, Table, b

AllSimpleType(items, parts, y, m, n) ==
  /\ Len(items) = n /\ Tuple(y, n) /\ ByteParts(parts, n)
  /\ \A i \in 1 .. n : \A v : \A rest \in Bytes :
       simpleType(In(parts[i] \o rest, v, m), items[i]) = In(rest, y[i], m)

LEMMA LoopSimpleType ==
  ASSUME NEW n \in Nat, NEW items, NEW parts, NEW y, NEW m, AllSimpleType(items, parts, y, m, n),
         NEW rest \in Bytes, NEW v
  PROVE  /\ FlattenSeq(parts) \in Bytes
         /\ ReadEach(In(FlattenSeq(parts) \o rest, v, m), items, simpleType) = In(rest, y, m)
<1>1. ASSUME NEW i \in 1 .. n, NEW u, NEW more \in Bytes
      PROVE  Item("SimpleType", In(parts[i] \o more, u, m), items[i]) = In(more, y[i], m)
  <2>1. simpleType(In(parts[i] \o more, u, m), items[i]) = In(more, y[i], m)
    BY DEF AllSimpleType
  <2> QED BY <2>1, ItemIs, Zenon
<1>2. All("SimpleType", items, parts, y, m, n)
  BY <1>1 DEF All, AllSimpleType
<1> QED BY <1>2, EachAll, NamedSimpleType

LEMMA NamedParam ==
  ASSUME NEW r, NEW items
  PROVE  ReadEach(r, items, ReadParam) = Each("Param", r, items)
<1> DEFINE a(t) == [i \in 0 .. Len(items) |->
                      IF i = 0 THEN SetVal(r, <<>>) ELSE With(t[i - 1].val, ReadParam(t[i - 1], items[i]))]
           b(t) == [i \in 0 .. Len(items) |-> Step("Param", t, r, items, i)]
<1>1. ReadEach(r, items, ReadParam) = (CHOOSE t : t = a(t))[Len(items)]
  BY DEF ReadEach, MapVal, With
<1>2. \A t : a(t) = b(t)
  BY ItemIs DEF Step
<1> HIDE DEF a, b
<1>3. (CHOOSE t : t = a(t)) = (CHOOSE t : t = b(t))
  BY <1>2, Zenon
<1> QED BY <1>1, <1>3 DEF Each, Table, b

AllParam(items, parts, y, m, n) ==
  /\ Len(items) = n /\ Tuple(y, n) /\ ByteParts(parts, n)
  /\ \A i \in 1 .. n : \A v : \A rest \in Bytes :
       ReadParam(In(parts[i] \o rest, v, m), items[i]) = In(rest, y[i], m)

LEMMA LoopParam ==
  ASSUME NEW n \in Nat, NEW items, NEW parts, NEW y, NEW m, AllParam(items, parts, y, m, n),
         NEW rest \in Bytes, NEW v
  PROVE  /\ FlattenSeq(parts) \in Bytes
         /\ ReadEach(In(FlattenSeq(parts) \o rest, v, m), items, ReadParam) = In(rest, y, m)
<1>1. ASSUME NEW i \in 1 .. n, NEW u, NEW more \in Bytes
      PROVE  Item("Param", In(parts[i] \o more, u, m), items[i]) = In(more, y[i], m)
  <2>1. ReadParam(In(parts[i] \o more, u, m), items[i]) = In(more, y[i], m)
    BY DEF AllParam
  <2> QED BY <2>1, ItemIs, Zenon
<1>2. All("Param", items, parts, y, m, n)
  BY <1>1 DEF All, AllParam
<1> QED BY <1>2, EachAll, NamedParam

NumsOK(ns, xs, n) ==
  /\ Len(ns) = n /\ Tuple(xs, n)
  /\ \A i \in 1 .. n : ns[i] \in Nat \ {0} /\ Fits(ns[i], xs[i])

LEMMA PutNumsOf ==
  ASSUME NEW n \in Nat, NEW ns, NEW xs, NumsOK(ns, xs, n), NEW rest \in Bytes, NEW v, NEW m
  PROVE  /\ PutNums(ns, xs) \in Bytes
         /\ ReadEach(In(PutNums(ns, xs) \o rest, v, m), ns, ReadNum) = In(rest, xs, m)
<1> DEFINE parts == [i \in 1 .. n |-> PutNum(ns[i], xs[i])]
<1>1. PutNums(ns, xs) = FlattenSeq(parts)
  BY TupleLen DEF PutNums, NumsOK
<1>2. ByteParts(parts, n)
  <2>1. ASSUME NEW i \in 1 .. n PROVE PutNum(ns[i], xs[i]) \in Bytes
    BY PutNumFacts DEF NumsOK, Fits, Bytes
  <2> QED BY <2>1 DEF ByteParts, Tuple
<1>3. \A i \in 1 .. n : parts[i] = PutNum(ns[i], xs[i])
  OBVIOUS
<1> HIDE DEF parts
<1>4. AllNum(ns, parts, xs, m, n)
  <2>1. ASSUME NEW i \in 1 .. n, NEW u, NEW more \in Bytes
        PROVE  ReadNum(In(parts[i] \o more, u, m), ns[i]) = In(more, xs[i], m)
    BY <1>3, ReadNumOf DEF NumsOK
  <2> QED BY <1>2, <2>1 DEF AllNum, NumsOK
<1> QED BY <1>1, <1>4, LoopNum

(* The lengths of the integers of a code. *)
LEMMA ReadNumPair ==
  ASSUME NEW k \in Nat \ {0}, NEW l \in Nat \ {0}, NEW x, NEW y, Fits(k, x), Fits(l, y),
         NEW rest \in Bytes, NEW v, NEW m
  PROVE  /\ PutNums(<<k, l>>, <<x, y>>) \in Bytes
         /\ ReadEach(In(PutNums(<<k, l>>, <<x, y>>) \o rest, v, m), <<k, l>>, ReadNum)
              = In(rest, <<x, y>>, m)
<1> DEFINE ns == <<k, l>>  xs == <<x, y>>
<1>1. NumsOK(ns, xs, 2)
  <2>1. Tuple(xs, 2)
    BY DEF Tuple
  <2>2. Len(ns) = 2 /\ \A i \in 1 .. 2 : ns[i] \in Nat \ {0} /\ Fits(ns[i], xs[i])
    OBVIOUS
  <2> HIDE DEF ns, xs
  <2> QED BY <2>1, <2>2 DEF NumsOK
<1> HIDE DEF ns, xs
<1>2. /\ PutNums(ns, xs) \in Bytes
      /\ ReadEach(In(PutNums(ns, xs) \o rest, v, m), ns, ReadNum) = In(rest, xs, m)
  BY <1>1, PutNumsOf
<1> QED BY <1>2 DEF ns, xs

-----------------------------------------------------------------------------
(***************************************************************************)
(* ScanFrom: the items c at the positions d leads to.                      *)
(***************************************************************************)
ScanTable(t, n, c, d) ==
  t = [i \in 1 .. n + 2 |-> IF i > n THEN <<>> ELSE <<c[i]>> \o t[d[i]]]

(* Every position but the last leads to a later one. *)
Leads(d, n) == \A i \in 1 .. n : d[i] \in i + 1 .. n + 2

LEMMA ScanTableAt ==
  ASSUME NEW n \in Nat, NEW t, NEW c, NEW d, ScanTable(t, n, c, d), NEW i \in 1 .. n + 2
  PROVE  t[i] = IF i > n THEN <<>> ELSE <<c[i]>> \o t[d[i]]
<1> DEFINE g == [j \in 1 .. n + 2 |-> IF j > n THEN <<>> ELSE <<c[j]>> \o t[d[j]]]
<1>1. t = g
  BY DEF ScanTable
<1>2. g[i] = IF i > n THEN <<>> ELSE <<c[i]>> \o t[d[i]]
  OBVIOUS
<1> HIDE DEF g
<1> QED BY <1>1, <1>2

LEMMA ScanTableExists ==
  ASSUME NEW n \in Nat, NEW c, NEW d, Leads(d, n)
  PROVE  \E t : ScanTable(t, n, c, d)
<1> DEFINE ok(u, i) == u[i] = IF i > n THEN <<>> ELSE <<c[i]>> \o u[d[i]]
           S == {m \in 0 .. n + 2 : \E u : \A i \in 1 .. n + 2 : i > n + 2 - m => ok(u, i)}
<1>1. 0 \in S
  <2>1. \A i \in 1 .. n + 2 : i > n + 2 - 0 => ok(<<>>, i)
    OBVIOUS
  <2> HIDE DEF ok
  <2> QED BY <2>1
<1>2. ASSUME NEW m \in 0 .. (n + 2) - 1, m \in S PROVE m + 1 \in S
  <2>1. PICK u : \A i \in 1 .. n + 2 : i > n + 2 - m => ok(u, i)
    BY <1>2
  <2> DEFINE k == n + 2 - m
             x == IF k > n THEN <<>> ELSE <<c[k]>> \o u[d[k]]
             z == [i \in 1 .. n + 2 |-> IF i = k THEN x ELSE u[i]]
  <2>2. k \in 1 .. n + 2 /\ m + 1 \in 0 .. n + 2 /\ \A i \in 1 .. n + 2 : i > n + 2 - (m + 1) => i = k \/ i > k
    OBVIOUS
  <2>3. z[k] = x /\ \A i \in 1 .. n + 2 : i # k => z[i] = u[i]
    BY <2>2
  <2> HIDE DEF z
  <2>4. ASSUME NEW i \in 1 .. n + 2, i >= k PROVE ok(z, i)
    <3>1. i <= n => d[i] \in 1 .. n + 2 /\ d[i] # k
      BY <2>2, <2>4 DEF Leads
    <3>2. i <= n => z[d[i]] = u[d[i]]
      BY <2>3, <3>1
    <3>3. CASE i = k
      BY <2>2, <2>3, <3>2, <3>3
    <3>4. CASE i # k
      <4>1. ok(u, i) /\ z[i] = u[i]
        BY <2>1, <2>2, <2>3, <2>4, <3>4
      <4> QED BY <3>2, <4>1
    <3> QED BY <3>3, <3>4
  <2>5. \A i \in 1 .. n + 2 : i > n + 2 - (m + 1) => ok(z, i)
    BY <2>2, <2>4
  <2> HIDE DEF ok, k, x
  <2> QED BY <2>2, <2>5
<1>3. n + 2 \in S
  <2>1. n + 2 \in Nat
    OBVIOUS
  <2> HIDE DEF S
  <2> DEFINE last == n + 2
  <2> HIDE DEF last
  <2>2. last \in S
    BY <1>1, <1>2, <2>1, Induct DEF last
  <2> QED BY <2>2 DEF last
<1>4. PICK u : \A i \in 1 .. n + 2 : ok(u, i)
  <2>1. \E u : \A i \in 1 .. n + 2 : i > n + 2 - (n + 2) => ok(u, i)
    BY <1>3
  <2>2. \A i \in 1 .. n + 2 : i > n + 2 - (n + 2)
    OBVIOUS
  <2> HIDE DEF ok
  <2> QED BY <2>1, <2>2
<1> DEFINE t == [i \in 1 .. n + 2 |-> u[i]]
<1>5. ASSUME NEW i \in 1 .. n + 2 PROVE t[i] = IF i > n THEN <<>> ELSE <<c[i]>> \o t[d[i]]
  <2>1. i <= n => d[i] \in 1 .. n + 2
    BY DEF Leads
  <2>2. t[i] = u[i] /\ (i <= n => t[d[i]] = u[d[i]])
    BY <2>1
  <2> HIDE DEF t
  <2> QED BY <1>4, <2>2
<1>6. t = [i \in 1 .. n + 2 |-> t[i]]
  OBVIOUS
<1> HIDE DEF t
<1> DEFINE g == [i \in 1 .. n + 2 |-> IF i > n THEN <<>> ELSE <<c[i]>> \o t[d[i]]]
<1>7. t = g
  BY <1>5, <1>6, Zenon
<1>8. ScanTable(t, n, c, d)
  BY <1>7 DEF ScanTable
<1> QED BY <1>8

(* A path through the text: the positions p of the items y. *)
Path(p, c, d, y, n, k) ==
  /\ Tuple(y, k) /\ p[0] = 1 /\ p[k] \in n + 1 .. n + 2
  /\ \A j \in 1 .. k : p[j - 1] \in 1 .. n /\ c[p[j - 1]] = y[j] /\ d[p[j - 1]] = p[j]

LEMMA Shrinking ==
  ASSUME NEW k \in Nat, NEW y, Tuple(y, k)
  PROVE  /\ SubSeq(y, 1, k) = y /\ SubSeq(y, k + 1, k) = <<>>
         /\ \A j \in 1 .. k : <<y[j]>> \o SubSeq(y, j + 1, k) = SubSeq(y, j, k)
<1> DEFINE S == {y[i] : i \in 1 .. k}
<1>1. y \in Seq(S) /\ Len(y) = k
  BY IsSequence DEF Tuple
<1> HIDE DEF S
<1>2. SubSeq(y, 1, k) = y /\ SubSeq(y, k + 1, k) = <<>>
  BY <1>1
<1>3. ASSUME NEW j \in 1 .. k PROVE <<y[j]>> \o SubSeq(y, j + 1, k) = SubSeq(y, j, k)
  <2> DEFINE u == <<y[j]>> \o SubSeq(y, j + 1, k)  z == SubSeq(y, j, k)
  <2>1. u \in Seq(S) /\ z \in Seq(S) /\ Len(u) = k - j + 1 /\ Len(z) = k - j + 1
    BY <1>1
  <2>2. ASSUME NEW i \in 1 .. k - j + 1 PROVE u[i] = z[i]
    BY <1>1
  <2> HIDE DEF u, z
  <2>3. u = z
    BY <2>1, <2>2
  <2> QED BY <2>3 DEF u, z
<1> QED BY <1>2, <1>3

LEMMA ScanPath ==
  ASSUME NEW n \in Nat, NEW k \in Nat, NEW t, NEW c, NEW d, NEW y, NEW p,
         ScanTable(t, n, c, d), Path(p, c, d, y, n, k)
  PROVE  t[1] = y
<1> DEFINE rest(j) == SubSeq(y, j + 1, k)
           S == {m \in 0 .. k : t[p[k - m]] = rest(k - m)}
<1>0. Tuple(y, k)
  BY DEF Path
<1>a. \A i \in 1 .. n + 2 : t[i] = IF i > n THEN <<>> ELSE <<c[i]>> \o t[d[i]]
  BY ScanTableAt
<1>1. 0 \in S
  <2> DEFINE e == p[k]
  <2>1. e \in 1 .. n + 2 /\ e > n /\ k - 0 = k
    BY DEF Path
  <2> HIDE DEF e
  <2>2. t[e] = <<>>
    BY <1>a, <2>1
  <2>3. rest(k) = <<>>
    BY <1>0, Shrinking
  <2>4. t[p[k - 0]] = rest(k - 0)
    BY <2>1, <2>2, <2>3 DEF e
  <2> HIDE DEF rest
  <2> QED BY <2>4
<1>2. ASSUME NEW m \in 0 .. k - 1, m \in S PROVE m + 1 \in S
  <2> DEFINE j == k - m  x == p[j - 1]
  <2>1. j \in 1 .. k /\ k - (m + 1) = j - 1 /\ (j - 1) + 1 = j /\ m + 1 \in 0 .. k
    OBVIOUS
  <2>2. t[p[j]] = SubSeq(y, j + 1, k)
    BY <1>2
  <2> HIDE DEF j
  <2>3. x \in 1 .. n /\ c[x] = y[j] /\ d[x] = p[j]
    BY <2>1 DEF Path
  <2> HIDE DEF x
  <2>4. x \in 1 .. n + 2 /\ ~(x > n)
    BY <2>3
  <2>5. t[x] = IF x > n THEN <<>> ELSE <<c[x]>> \o t[d[x]]
    BY <1>a, <2>4
  <2>6. t[x] = <<y[j]>> \o SubSeq(y, j + 1, k)
    BY <2>2, <2>3, <2>4, <2>5
  <2>7. <<y[j]>> \o SubSeq(y, j + 1, k) = SubSeq(y, j, k)
    BY <1>0, <2>1, Shrinking
  <2>8. t[p[j - 1]] = rest(j - 1)
    BY <2>1, <2>6, <2>7 DEF x
  <2> QED BY <2>1, <2>8
<1>3. k \in S
  <2> HIDE DEF S
  <2> QED BY <1>1, <1>2, Induct
<1>4. t[p[0]] = rest(0)
  <2>1. k - k = 0
    OBVIOUS
  <2> QED BY <1>3, <2>1
<1>5. rest(0) = y /\ p[0] = 1
  BY <1>0, Shrinking DEF Path
<1> QED BY <1>4, <1>5

-----------------------------------------------------------------------------
(***************************************************************************)
(* Positions in a text that is a sequence of parts.                        *)
(***************************************************************************)
Suffix(u, b) == Len(u) <= Len(b) /\ \A j \in 1 .. Len(u) : b[Len(b) - Len(u) + j] = u[j]

LEMMA SuffixStep ==
  ASSUME NEW S, NEW b \in Seq(S), NEW a \in Seq(S), NEW u \in Seq(S), Suffix(a \o u, b)
  PROVE  /\ Suffix(u, b)
         /\ \A j \in 1 .. Len(a) : b[Len(b) - Len(a \o u) + j] = a[j]
         /\ Len(a \o u) = Len(a) + Len(u) /\ Len(a \o u) <= Len(b)
<1> DEFINE c == a \o u
<1>1. /\ Len(c) = Len(a) + Len(u) /\ Len(a) \in Nat /\ Len(u) \in Nat /\ Len(b) \in Nat
      /\ \A j \in 1 .. Len(a) : c[j] = a[j]
      /\ \A j \in 1 .. Len(u) : c[Len(a) + j] = u[j]
  OBVIOUS
<1> HIDE DEF c
<1>2. Len(c) <= Len(b) /\ \A j \in 1 .. Len(c) : b[Len(b) - Len(c) + j] = c[j]
  BY DEF Suffix, c
<1>3. ASSUME NEW j \in 1 .. Len(u) PROVE b[Len(b) - Len(u) + j] = u[j]
  <2> DEFINE k == Len(a) + j
  <2>1. k \in 1 .. Len(c) /\ Len(b) - Len(c) + k = Len(b) - Len(u) + j
    BY <1>1
  <2>2. b[Len(b) - Len(c) + k] = c[k]
    <3> HIDE DEF k
    <3> QED BY <1>2, <2>1
  <2> QED BY <1>1, <2>1, <2>2
<1>4. ASSUME NEW j \in 1 .. Len(a) PROVE b[Len(b) - Len(c) + j] = a[j]
  <2>1. j \in 1 .. Len(c)
    BY <1>1
  <2> QED BY <1>1, <1>2, <2>1
<1> QED BY <1>1, <1>2, <1>3, <1>4 DEF Suffix, c

Splits(b, S, parts, n, w) ==
  /\ b \in Seq(S) /\ w[0] = b /\ w[n] = <<>>
  /\ \A i \in 0 .. n : w[i] \in Seq(S)
  /\ \A i \in 1 .. n : parts[i] \in Seq(S) /\ w[i - 1] = parts[i] \o w[i]

PartIn(b, before, part, after) ==
  /\ Len(before) = Len(part) + Len(after) /\ Len(before) <= Len(b)
  /\ \A j \in 1 .. Len(part) : b[Len(b) - Len(before) + j] = part[j]

(* The parts of a text are where the rests begin. *)
LEMMA PartAt ==
  ASSUME NEW n \in Nat, NEW S, NEW b, NEW parts, NEW w, Splits(b, S, parts, n, w)
  PROVE  /\ \A k \in 0 .. n : Suffix(w[k], b) /\ w[k] \in Seq(S)
         /\ \A k \in 1 .. n : PartIn(b, w[k - 1], parts[k], w[k])
<1> DEFINE T == {k \in 0 .. n : Suffix(w[k], b)}
<1>0. ASSUME NEW k \in 1 .. n
      PROVE  w[k - 1] = parts[k] \o w[k] /\ b \in Seq(S) /\ parts[k] \in Seq(S) /\ w[k] \in Seq(S)
  <2>1. k \in 0 .. n
    OBVIOUS
  <2> QED BY <2>1 DEF Splits
<1>1. 0 \in T
  <2>1. w[0] = b /\ Len(b) \in Nat /\ Suffix(b, b)
    BY DEF Splits, Suffix
  <2> QED BY <2>1
<1>2. ASSUME NEW k \in 0 .. n - 1, k \in T PROVE k + 1 \in T
  <2> DEFINE l == k + 1
  <2>1. l \in 1 .. n /\ l - 1 = k /\ l \in 0 .. n
    OBVIOUS
  <2> HIDE DEF l
  <2>2. Suffix(parts[l] \o w[l], b)
    BY <1>0, <1>2, <2>1
  <2>3. Suffix(w[l], b)
    BY <1>0, <2>1, <2>2, SuffixStep
  <2>4. l \in T
    BY <2>1, <2>3
  <2> QED BY <2>4 DEF l
<1>3. ASSUME NEW k \in 0 .. n PROVE Suffix(w[k], b) /\ w[k] \in Seq(S)
  <2>1. k \in T
    <3>1. k \in Nat /\ \A m \in 0 .. k - 1 : m \in T => m + 1 \in T
      BY <1>2
    <3> HIDE DEF T
    <3> QED BY <1>1, <3>1, Induct
  <2> QED BY <2>1 DEF Splits
<1>4. ASSUME NEW k \in 1 .. n
      PROVE  PartIn(b, w[k - 1], parts[k], w[k])
  <2>1. Suffix(parts[k] \o w[k], b)
    <3>1. k - 1 \in 0 .. n
      OBVIOUS
    <3> QED BY <1>0, <1>3, <3>1
  <2> DEFINE head == parts[k]  tail == w[k]
  <2>2. head \in Seq(S) /\ tail \in Seq(S) /\ b \in Seq(S) /\ w[k - 1] = head \o tail /\ Suffix(head \o tail, b)
    BY <1>0, <2>1
  <2> HIDE DEF head, tail
  <2>3. /\ \A j \in 1 .. Len(head) : b[Len(b) - Len(head \o tail) + j] = head[j]
        /\ Len(head \o tail) = Len(head) + Len(tail) /\ Len(head \o tail) <= Len(b)
    BY <2>2, SuffixStep
  <2>4. PartIn(b, head \o tail, head, tail)
    BY <2>3 DEF PartIn
  <2> QED BY <2>2, <2>4 DEF head, tail
<1> QED BY <1>3, <1>4

-----------------------------------------------------------------------------
(***************************************************************************)
(* Modified UTF-8.                                                         *)
(***************************************************************************)
LEMMA ThreeIs ==
  ASSUME NEW u \in Nat, u < 65536
  PROVE  /\ 224 + (u \div 4096) \in 224 .. 239
         /\ 128 + ((u \div 64) % 64) \in 128 .. 191 /\ 128 + (u % 64) \in 128 .. 191
         /\ u = ((224 + (u \div 4096)) % 16) * 4096
                 + ((128 + ((u \div 64) % 64)) % 64) * 64 + ((128 + (u % 64)) % 64)
<1> DEFINE x == u \div 64  r == u % 64  p == u \div 4096  q == x % 64
<1>1. x \in Nat /\ x < 1024 /\ r \in Nat /\ r < 64 /\ u = 64 * x + r /\ p \in Nat /\ p < 16
  OBVIOUS
<1>2. p = x \div 64
  BY <1>1
<1> HIDE DEF x, r, p
<1>3. q \in Nat /\ q < 64 /\ x = 64 * p + q
  BY <1>1, <1>2
<1> HIDE DEF q
<1>4. (224 + p) % 16 = p
  BY <1>1
<1>5. (128 + q) % 64 = q /\ (128 + r) % 64 = r
  BY <1>1, <1>3
<1>6. u = ((224 + p) % 16) * 4096 + ((128 + q) % 64) * 64 + ((128 + r) % 64)
  BY <1>1, <1>3, <1>4, <1>5
<1>7. 224 + p \in 224 .. 239 /\ 128 + q \in 128 .. 191 /\ 128 + r \in 128 .. 191
  BY <1>1, <1>3
<1> QED BY <1>6, <1>7 DEF x, r, p, q

LEMMA ThreeAt ==
  ASSUME NEW u \in Nat, u < 65536, NEW b, NEW i \in Nat,
         \A j \in 1 .. 3 : b[i - 1 + j] = ThreeBytes(u)[j]
  PROVE  three(b, i) = u /\ leads(b[i]) /\ b[i] \in Int
<1>1. /\ b[i] = 224 + (u \div 4096) /\ b[i + 1] = 128 + ((u \div 64) % 64)
      /\ b[i + 2] = 128 + (u % 64)
  <2>1. i - 1 + 1 = i /\ i - 1 + 2 = i + 1 /\ i - 1 + 3 = i + 2
    OBVIOUS
  <2>2. b[i - 1 + 1] = ThreeBytes(u)[1] /\ b[i - 1 + 2] = ThreeBytes(u)[2] /\ b[i - 1 + 3] = ThreeBytes(u)[3]
    OBVIOUS
  <2> QED BY <2>1, <2>2 DEF ThreeBytes
<1>2. three(b, i) = (b[i] % 16) * 4096 + (b[i + 1] % 64) * 64 + (b[i + 2] % 64)
  BY DEF three
<1>3. 224 + (u \div 4096) \in Int /\ 224 + (u \div 4096) < 240 /\ 224 <= 224 + (u \div 4096)
  OBVIOUS
<1>4. leads(b[i]) /\ b[i] \in Int
  BY <1>1, <1>3 DEF leads
<1> QED BY <1>1, <1>2, <1>4, ThreeIs

LEMMA ThreeType ==
  ASSUME NEW u \in Nat, u < 65536
  PROVE  ThreeBytes(u) \in Bytes /\ Len(ThreeBytes(u)) = 3
<1> DEFINE x == 224 + (u \div 4096)  y == 128 + ((u \div 64) % 64)  z == 128 + (u % 64)
<1>1. x \in Byte /\ y \in Byte /\ z \in Byte
  BY ThreeIs DEF Byte
<1>2. ThreeBytes(u) = <<x, y, z>>
  BY DEF ThreeBytes
<1> HIDE DEF x, y, z
<1> QED BY <1>1, <1>2 DEF Bytes

(* The two halves of a code point beyond 16 bits. *)
High(u) == 55296 + ((u - 65536) \div 1024)
Low(u)  == 56320 + ((u - 65536) % 1024)

LEMMA HighLow ==
  ASSUME NEW u \in Nat, 65536 <= u, u <= 1114111
  PROVE  /\ High(u) \in Nat /\ High(u) < 56320 /\ 55296 <= High(u)
         /\ Low(u) \in Nat /\ Low(u) < 57344 /\ 56320 <= Low(u)
         /\ u = 65536 + (High(u) - 55296) * 1024 + Low(u) - 56320
<1> DEFINE x == u - 65536  h == x \div 1024  l == x % 1024
<1>1. x \in Nat /\ x < 1048576 /\ u = x + 65536
  OBVIOUS
<1> HIDE DEF x
<1>2. h \in Nat /\ h < 1024 /\ l \in Nat /\ l < 1024 /\ x = 1024 * h + l
  BY <1>1
<1>3. High(u) = 55296 + h /\ Low(u) = 56320 + l
  BY DEF High, Low, x
<1> HIDE DEF h, l
<1> DEFINE hi == High(u)  lo == Low(u)
<1>5. hi = 55296 + h /\ lo = 56320 + l
  BY <1>3
<1> HIDE DEF hi, lo
<1>6. hi \in Nat /\ hi < 56320 /\ 55296 <= hi /\ lo \in Nat /\ lo < 57344 /\ 56320 <= lo
  BY <1>2, <1>5
<1>7. u = 65536 + (hi - 55296) * 1024 + lo - 56320
  BY <1>1, <1>2, <1>5
<1> QED BY <1>6, <1>7 DEF hi, lo

LEMMA PairRange ==
  ASSUME NEW u \in Nat, 65536 <= u, u <= 1114111
  PROVE  /\ High(u) \in Nat /\ High(u) < 56320 /\ 55296 <= High(u)
         /\ Low(u) \in Nat /\ Low(u) < 57344 /\ 56320 <= Low(u)
BY HighLow

LEMMA PairBytes ==
  ASSUME NEW u \in Nat, 65536 <= u
  PROVE  encodeRune(u) = ThreeBytes(High(u)) \o ThreeBytes(Low(u))
BY DEF encodeRune, High, Low

LEMMA JoinBytes ==
  ASSUME NEW a \in Bytes, NEW c \in Bytes
  PROVE  a \o c \in Bytes /\ Len(a \o c) = Len(a) + Len(c) /\ Len(a) \in Nat /\ Len(c) \in Nat
BY DEF Bytes

Triple(a) == a \in Bytes /\ Len(a) = 3

LEMMA JoinThree ==
  ASSUME NEW a, NEW c, Triple(a), Triple(c)
  PROVE  a \o c \in Bytes /\ Len(a \o c) = 6
<1>1. a \in Bytes /\ c \in Bytes
  BY DEF Triple
<1>2. a \o c \in Bytes /\ Len(a \o c) = Len(a) + Len(c)
  BY <1>1, JoinBytes
<1>3. Len(a) = 3 /\ Len(c) = 3
  BY DEF Triple
<1> DEFINE x == Len(a \o c)  y == Len(a)  z == Len(c)
<1>4. x = y + z /\ y = 3 /\ z = 3
  BY <1>2, <1>3
<1> HIDE DEF x, y, z
<1>5. x = 6
  BY <1>4
<1> QED BY <1>2, <1>5 DEF x

LEMMA RuneType ==
  ASSUME NEW u \in Nat, u <= 1114111
  PROVE  encodeRune(u) \in Bytes /\ Len(encodeRune(u)) \in 1 .. 6
<1>0. CASE u = 0
  <2>1. encodeRune(u) = <<192, 128>>
    BY <1>0 DEF encodeRune
  <2>2. 192 \in Byte /\ 128 \in Byte
    BY DEF Byte
  <2> QED BY <2>1, <2>2 DEF Bytes
<1>1. CASE u # 0 /\ u < 128
  <2>1. encodeRune(u) = <<u>> /\ u \in Byte
    BY <1>1 DEF encodeRune, Byte
  <2> QED BY <2>1 DEF Bytes
<1>2. CASE 128 <= u /\ u < 2048
  <2>1. 192 + (u \div 64) \in Byte /\ 128 + (u % 64) \in Byte
    BY <1>2 DEF Byte
  <2>2. encodeRune(u) = <<192 + (u \div 64), 128 + (u % 64)>>
    BY <1>2 DEF encodeRune
  <2> QED BY <2>1, <2>2 DEF Bytes
<1>3. CASE 2048 <= u /\ u < 65536
  <2>1. encodeRune(u) = ThreeBytes(u)
    BY <1>3 DEF encodeRune
  <2> QED BY <1>3, <2>1, ThreeType
<1>4. CASE 65536 <= u
  <2>1. High(u) \in Nat /\ High(u) < 65536 /\ Low(u) \in Nat /\ Low(u) < 65536
    BY <1>4, PairRange
  <2>2. Triple(ThreeBytes(High(u))) /\ Triple(ThreeBytes(Low(u)))
    BY <2>1, ThreeType DEF Triple
  <2>3. encodeRune(u) = ThreeBytes(High(u)) \o ThreeBytes(Low(u))
    BY <1>4, PairBytes
  <2>4. /\ ThreeBytes(High(u)) \o ThreeBytes(Low(u)) \in Bytes
        /\ Len(ThreeBytes(High(u)) \o ThreeBytes(Low(u))) = 6
    BY <2>2, JoinThree
  <2> DEFINE r == ThreeBytes(High(u)) \o ThreeBytes(Low(u))
  <2> HIDE DEF r
  <2>5. r \in Bytes /\ Len(r) = 6 /\ encodeRune(u) = r
    BY <2>3, <2>4 DEF r
  <2> QED BY <2>5
<1> QED BY <1>0, <1>1, <1>2, <1>3, <1>4

(* The bytes a are in b at position i. *)
Holds(b, i, a) == i + Len(a) - 1 <= Len(b) /\ \A j \in 1 .. Len(a) : b[i - 1 + j] = a[j]

(* No low surrogate follows the three bytes at i. *)
Alone(b, i) == ~(i + 5 <= Len(b) /\ leads(b[i + 3]) /\ isLow(three(b, i + 3)))

Decodes(b, i, u) == decodeRune(b, i) = goRune(u) /\ runeWidth(b, i) = Len(encodeRune(u))

LEMMA DecodeZero ==
  ASSUME NEW b, Len(b) \in Nat, NEW i \in Nat, Holds(b, i, encodeRune(0))
  PROVE  Decodes(b, i, 0)
<1>1. encodeRune(0) = <<192, 128>>
  BY DEF encodeRune
<1>2. i + 1 <= Len(b) /\ b[i] = 192 /\ b[i + 1] = 128
  <2>1. i - 1 + 1 = i /\ i - 1 + 2 = i + 1 /\ i + 2 - 1 = i + 1
    OBVIOUS
  <2> DEFINE a == <<192, 128>>
  <2>2. Len(a) = 2 /\ a[1] = 192 /\ a[2] = 128
    OBVIOUS
  <2>3. i + Len(a) - 1 <= Len(b) /\ \A j \in 1 .. Len(a) : b[i - 1 + j] = a[j]
    BY <1>1 DEF Holds
  <2> HIDE DEF a
  <2>4. b[i - 1 + 1] = a[1] /\ b[i - 1 + 2] = a[2]
    BY <2>2, <2>3
  <2> QED BY <2>1, <2>2, <2>3, <2>4
<1>3. isTwo(b, i)
  BY <1>2 DEF isTwo
<1>4. decodeRune(b, i) = (192 % 32) * 64 + (128 % 64) /\ runeWidth(b, i) = 2
  BY <1>2, <1>3 DEF decodeRune, runeWidth
<1>5. goRune(0) = 0
  BY DEF goRune, isHigh, isLow
<1> QED BY <1>1, <1>4, <1>5 DEF Decodes

LEMMA DecodeOne ==
  ASSUME NEW b, Len(b) \in Nat, NEW i \in Nat, NEW u \in Nat, u # 0, u < 128,
         Holds(b, i, encodeRune(u))
  PROVE  Decodes(b, i, u)
<1>1. encodeRune(u) = <<u>>
  BY DEF encodeRune
<1>2. b[i] = u
  <2>1. i - 1 + 1 = i
    OBVIOUS
  <2> DEFINE a == <<u>>
  <2>2. Len(a) = 1 /\ a[1] = u
    OBVIOUS
  <2>3. \A j \in 1 .. Len(a) : b[i - 1 + j] = a[j]
    BY <1>1 DEF Holds
  <2> HIDE DEF a
  <2>4. b[i - 1 + 1] = a[1]
    BY <2>2, <2>3
  <2> QED BY <2>1, <2>2, <2>4
<1>3. ~isTwo(b, i) /\ ~isThree(b, i)
  BY <1>2 DEF isTwo, isThree, leads
<1>4. ~isPair(b, i)
  BY <1>3 DEF isPair
<1>5. decodeRune(b, i) = u /\ runeWidth(b, i) = 1
  BY <1>2, <1>3, <1>4 DEF decodeRune, runeWidth
<1>6. goRune(u) = u
  BY DEF goRune, isHigh, isLow
<1> QED BY <1>1, <1>5, <1>6 DEF Decodes

LEMMA DecodeTwo ==
  ASSUME NEW b, Len(b) \in Nat, NEW i \in Nat, NEW u \in Nat, 128 <= u, u < 2048,
         Holds(b, i, encodeRune(u))
  PROVE  Decodes(b, i, u)
<1> DEFINE x == 192 + (u \div 64)  y == 128 + (u % 64)
<1>1. encodeRune(u) = <<x, y>>
  BY DEF encodeRune
<1>0. x \in 192 .. 223 /\ (x % 32) * 64 + (y % 64) = u
  <2> DEFINE p == u \div 64  q == u % 64
  <2>1. p \in Nat /\ p < 32 /\ q \in Nat /\ q < 64 /\ u = 64 * p + q
    OBVIOUS
  <2>2. x = 192 + p /\ y = 128 + q
    OBVIOUS
  <2> HIDE DEF p, q, x, y
  <2>3. x % 32 = p /\ y % 64 = q
    BY <2>1, <2>2
  <2> QED BY <2>1, <2>2, <2>3
<1> HIDE DEF x, y
<1>2. i + 1 <= Len(b) /\ b[i] = x /\ b[i + 1] = y
  <2>1. i - 1 + 1 = i /\ i - 1 + 2 = i + 1 /\ i + 2 - 1 = i + 1
    OBVIOUS
  <2> DEFINE a == <<x, y>>
  <2>2. Len(a) = 2 /\ a[1] = x /\ a[2] = y
    OBVIOUS
  <2>3. i + Len(a) - 1 <= Len(b) /\ \A j \in 1 .. Len(a) : b[i - 1 + j] = a[j]
    BY <1>1 DEF Holds
  <2> HIDE DEF a
  <2>4. b[i - 1 + 1] = a[1] /\ b[i - 1 + 2] = a[2]
    BY <2>2, <2>3
  <2> QED BY <2>1, <2>2, <2>3, <2>4
<1>3. isTwo(b, i)
  BY <1>0, <1>2 DEF isTwo
<1>4. decodeRune(b, i) = (x % 32) * 64 + (y % 64) /\ runeWidth(b, i) = 2
  BY <1>2, <1>3 DEF decodeRune, runeWidth
<1>5. goRune(u) = u
  BY DEF goRune, isHigh, isLow
<1>6. Len(<<x, y>>) = 2
  OBVIOUS
<1> QED BY <1>0, <1>1, <1>4, <1>5, <1>6 DEF Decodes

LEMMA JoinAt ==
  ASSUME NEW a \in Bytes, NEW c \in Bytes
  PROVE  /\ \A j \in 1 .. Len(a) : (a \o c)[j] = a[j]
         /\ \A j \in 1 .. Len(c) : (a \o c)[Len(a) + j] = c[j]
BY DEF Bytes

LEMMA JoinThreeAt ==
  ASSUME NEW a, NEW c, Triple(a), Triple(c)
  PROVE  \A j \in 1 .. 3 : (a \o c)[j] = a[j] /\ (a \o c)[j + 3] = c[j]
<1>1. a \in Bytes /\ c \in Bytes
  BY DEF Triple
<1> DEFINE d == a \o c  x == Len(a)  y == Len(c)
<1>2. /\ \A j \in 1 .. x : d[j] = a[j]
      /\ \A j \in 1 .. y : d[x + j] = c[j]
  BY <1>1, JoinAt
<1>3. x = 3 /\ y = 3
  BY DEF Triple
<1> HIDE DEF d, x, y
<1>4. ASSUME NEW j \in 1 .. 3 PROVE d[j] = a[j] /\ d[j + 3] = c[j]
  <2>1. d[3 + j] = c[j] /\ d[j] = a[j]
    BY <1>2, <1>3
  <2>2. 3 + j = j + 3
    OBVIOUS
  <2> QED BY <2>1, <2>2
<1> QED BY <1>4 DEF d

LEMMA DecodeThree ==
  ASSUME NEW b, Len(b) \in Nat, NEW i \in Nat, NEW u \in Nat, 2048 <= u, u < 65536,
         Holds(b, i, encodeRune(u)), isHigh(u) => Alone(b, i)
  PROVE  Decodes(b, i, u)
<1>1. encodeRune(u) = ThreeBytes(u)
  BY DEF encodeRune
<1>2. Len(ThreeBytes(u)) = 3
  BY ThreeType
<1>3. i + 2 <= Len(b) /\ \A j \in 1 .. 3 : b[i - 1 + j] = ThreeBytes(u)[j]
  BY <1>1, <1>2 DEF Holds
<1>4. three(b, i) = u /\ leads(b[i]) /\ b[i] \in Int
  BY <1>3, ThreeAt
<1>5. ~isTwo(b, i) /\ isThree(b, i)
  <2>1. ~isTwo(b, i)
    BY <1>4 DEF isTwo, leads
  <2> QED BY <1>3, <1>4, <2>1 DEF isThree
<1>6. ~isPair(b, i)
  BY <1>4 DEF isPair, Alone
<1>7. decodeRune(b, i) = goRune(u) /\ runeWidth(b, i) = 3
  BY <1>4, <1>5, <1>6 DEF decodeRune, runeWidth
<1> QED BY <1>1, <1>2, <1>7 DEF Decodes

LEMMA DecodePair ==
  ASSUME NEW b, Len(b) \in Nat, NEW i \in Nat, NEW u \in Nat, 65536 <= u, u <= 1114111,
         Holds(b, i, encodeRune(u))
  PROVE  Decodes(b, i, u)
<1> DEFINE hi == High(u)  lo == Low(u)  h == ThreeBytes(hi)  l == ThreeBytes(lo)
<1>1. encodeRune(u) = h \o l
  BY PairBytes
<1>2. hi \in Nat /\ hi < 56320 /\ 55296 <= hi /\ lo \in Nat /\ lo < 57344 /\ 56320 <= lo
  BY PairRange
<1>3. u = 65536 + (hi - 55296) * 1024 + lo - 56320
  BY HighLow
<1> HIDE DEF hi, lo
<1>4. hi < 65536 /\ lo < 65536 /\ isHigh(hi) /\ isLow(lo)
  BY <1>2 DEF isHigh, isLow
<1>5. h \in Bytes /\ l \in Bytes /\ Len(h) = 3 /\ Len(l) = 3
  BY <1>2, <1>4, ThreeType
<1> HIDE DEF h, l
<1>6. Len(h \o l) = 6
  BY <1>5, JoinThree DEF Triple
<1> DEFINE c == h \o l
<1>7. \A j \in 1 .. 3 : c[j] = h[j] /\ c[j + 3] = l[j]
  BY <1>5, JoinThreeAt DEF Triple
<1> HIDE DEF c
<1> DEFINE six == Len(c)
<1>8a. \A x \in 1 .. six : b[i - 1 + x] = c[x]
  BY <1>1 DEF Holds, c
<1>8. i + 5 <= Len(b) /\ six = 6
  <2>1. i + Len(c) - 1 <= Len(b)
    BY <1>1 DEF Holds, c
  <2>2. Len(c) = 6
    BY <1>6 DEF c
  <2> QED BY <2>1, <2>2
<1> HIDE DEF six
<1>9. three(b, i) = hi /\ leads(b[i]) /\ b[i] \in Int
  <2>1. ASSUME NEW j \in 1 .. 3 PROVE b[i - 1 + j] = h[j]
    <3>1. j \in 1 .. six
      BY <1>8
    <3>2. b[i - 1 + j] = c[j] /\ c[j] = h[j]
      BY <1>7, <1>8a, <3>1
    <3> QED BY <3>2
  <2> QED BY <1>2, <1>4, <2>1, ThreeAt DEF h
<1>10. three(b, i + 3) = lo /\ leads(b[i + 3])
  <2>1. ASSUME NEW j \in 1 .. 3 PROVE b[(i + 3) - 1 + j] = l[j]
    <3>1. j + 3 \in 1 .. six /\ i - 1 + (j + 3) = (i + 3) - 1 + j
      BY <1>8
    <3> DEFINE k == j + 3
    <3>2. b[i - 1 + k] = c[k] /\ c[k] = l[j]
      <4>1. c[k] = l[j]
        BY <1>7
      <4>2. k \in 1 .. six
        BY <3>1
      <4> HIDE DEF k
      <4>3. b[i - 1 + k] = c[k]
        BY <1>8a, <4>2
      <4> QED BY <4>1, <4>3
    <3> QED BY <3>1, <3>2
  <2> DEFINE k == i + 3
  <2>2. k \in Nat /\ \A j \in 1 .. 3 : b[k - 1 + j] = l[j]
    BY <2>1
  <2> HIDE DEF k
  <2>3. three(b, k) = lo /\ leads(b[k])
    BY <1>2, <1>4, <2>2, ThreeAt DEF l
  <2> QED BY <2>3 DEF k
<1>11. ~isTwo(b, i) /\ isThree(b, i) /\ isPair(b, i)
  <2>2. i + 5 <= Len(b) /\ i + 2 <= Len(b)
    BY <1>8
  <2>3. ~isTwo(b, i)
    BY <1>9 DEF isTwo, leads
  <2>4. isThree(b, i)
    BY <1>9, <2>2 DEF isThree
  <2>5. isPair(b, i)
    BY <1>4, <1>9, <1>10, <2>2, <2>4 DEF isPair
  <2> QED BY <2>3, <2>4, <2>5
<1>12. decodeRune(b, i) = 65536 + (hi - 55296) * 1024 + lo - 56320 /\ runeWidth(b, i) = 6
  BY <1>9, <1>10, <1>11 DEF decodeRune, runeWidth
<1>13. goRune(u) = u
  BY DEF goRune, isHigh, isLow
<1> QED BY <1>1, <1>3, <1>6, <1>12, <1>13 DEF Decodes

LEMMA DecodeAt ==
  ASSUME NEW b \in Bytes, NEW i \in Nat, NEW u \in Rune,
         Holds(b, i, encodeRune(u)), isHigh(u) => Alone(b, i)
  PROVE  Decodes(b, i, u)
<1>1. Len(b) \in Nat /\ u \in Nat /\ u <= 1114111
  BY DEF Bytes, Rune
<1>2. CASE u = 0
  BY <1>1, <1>2, DecodeZero
<1>3. CASE u # 0 /\ u < 128
  BY <1>1, <1>3, DecodeOne
<1>4. CASE 128 <= u /\ u < 2048
  BY <1>1, <1>4, DecodeTwo
<1>5. CASE 2048 <= u /\ u < 65536
  BY <1>1, <1>5, DecodeThree
<1>6. CASE 65536 <= u
  BY <1>1, <1>6, DecodePair
<1> QED BY <1>1, <1>2, <1>3, <1>4, <1>5, <1>6

LEMMA FirstByte ==
  ASSUME NEW b, NEW k \in Nat, NEW a, Holds(b, k, a), Len(a) \in Nat, Len(a) >= 1
  PROVE  b[k] = a[1]
<1>1. b[k - 1 + 1] = a[1]
  BY DEF Holds
<1>2. k - 1 + 1 = k
  OBVIOUS
<1> QED BY <1>1, <1>2

(* A character that is no low surrogate does not look like one. *)
LEMMA NoLow ==
  ASSUME NEW b, NEW k \in Nat, NEW x \in Nat, x <= 1114111, Holds(b, k, encodeRune(x)), ~isLow(x)
  PROVE  ~(leads(b[k]) /\ isLow(three(b, k)))
<1>0. b[k] = encodeRune(x)[1]
  BY RuneType, FirstByte
<1>1. CASE x = 0
  <2>1. encodeRune(x)[1] = 192
    BY <1>1 DEF encodeRune
  <2> QED BY <1>0, <2>1 DEF leads
<1>2. CASE x # 0 /\ x < 128
  <2>1. encodeRune(x)[1] = x
    BY <1>2 DEF encodeRune
  <2> QED BY <1>0, <1>2, <2>1 DEF leads
<1>3. CASE 128 <= x /\ x < 2048
  <2>1. encodeRune(x)[1] = 192 + (x \div 64)
    BY <1>3 DEF encodeRune
  <2>2. 192 + (x \div 64) \in Int /\ 192 + (x \div 64) < 224
    BY <1>3
  <2> QED BY <1>0, <2>1, <2>2 DEF leads
<1>4. CASE 2048 <= x /\ x < 65536
  <2>1. encodeRune(x) = ThreeBytes(x)
    BY <1>4 DEF encodeRune
  <2>2. \A j \in 1 .. 3 : b[k - 1 + j] = ThreeBytes(x)[j]
    BY <1>4, <2>1, ThreeType DEF Holds
  <2> QED BY <1>4, <2>2, ThreeAt
<1>5. CASE 65536 <= x
  <2> DEFINE hi == High(x)  h == ThreeBytes(hi)  l == ThreeBytes(Low(x))
  <2>1. encodeRune(x) = h \o l
    BY <1>5, PairBytes
  <2>2. hi \in Nat /\ hi < 65536 /\ ~isLow(hi) /\ Low(x) \in Nat /\ Low(x) < 65536
    BY <1>5, PairRange DEF isLow
  <2> HIDE DEF hi
  <2>3. Triple(h) /\ Triple(l)
    BY <2>2, ThreeType DEF Triple
  <2> HIDE DEF h, l
  <2> DEFINE c == h \o l  six == Len(c)
  <2>4. (\A j \in 1 .. 3 : c[j] = h[j]) /\ six = 6
    <3>1. six = 6
      BY <2>3, JoinThree
    <3>2. \A j \in 1 .. 3 : c[j] = h[j] /\ c[j + 3] = l[j]
      <4> HIDE <2>1, <2>2
      <4> QED BY <2>3, JoinThreeAt DEF Triple
    <3> HIDE DEF c, six
    <3> QED BY <3>1, <3>2
  <2>5. \A j \in 1 .. six : b[k - 1 + j] = c[j]
    BY <2>1 DEF Holds
  <2> HIDE DEF c, six
  <2>6. ASSUME NEW j \in 1 .. 3 PROVE b[k - 1 + j] = h[j]
    <3>1. j \in 1 .. six
      BY <2>4
    <3>2. b[k - 1 + j] = c[j] /\ c[j] = h[j]
      BY <2>4, <2>5, <3>1
    <3> QED BY <3>2
  <2>7. three(b, k) = hi
    BY <2>2, <2>6, ThreeAt DEF h
  <2> QED BY <2>2, <2>7
<1> QED BY <1>1, <1>2, <1>3, <1>4, <1>5

LEMMA SurrogateWidth ==
  ASSUME NEW u \in Nat, isHigh(u)
  PROVE  Len(encodeRune(u)) = 3
<1>1. 55296 <= u /\ u < 56320
  BY DEF isHigh
<1>2. encodeRune(u) = ThreeBytes(u)
  BY <1>1 DEF encodeRune
<1> QED BY <1>1, <1>2, ThreeType

(* Every character is followed by a later position. *)
LEMMA WidthFits ==
  ASSUME NEW b, Len(b) \in Nat, NEW i \in 1 .. Len(b)
  PROVE  i + runeWidth(b, i) \in i + 1 .. Len(b) + 2
<1>1. isTwo(b, i) => i + 2 <= Len(b) + 2
  BY DEF isTwo
<1>2. isPair(b, i) => i + 6 <= Len(b) + 2
  BY DEF isPair
<1>3. isThree(b, i) => i + 3 <= Len(b) + 2
  BY DEF isThree
<1> QED BY <1>1, <1>2, <1>3 DEF runeWidth

(* decodeModifiedUTF8 follows the characters. *)
LEMMA DecodePath ==
  ASSUME NEW b \in Bytes, NEW y, NEW p, NEW k \in Nat, Tuple(y, k), p[0] = 1, p[k] = Len(b) + 1,
         \A j \in 1 .. k : /\ p[j - 1] \in 1 .. Len(b) /\ decodeRune(b, p[j - 1]) = y[j]
                           /\ p[j - 1] + runeWidth(b, p[j - 1]) = p[j]
  PROVE  decodeModifiedUTF8(b) = y
<1> DEFINE n == Len(b)
           c == [i \in 1 .. n + 2 |-> decodeRune(b, i)]
           d == [i \in 1 .. n + 2 |-> i + runeWidth(b, i)]
           Q(t) == t = [i \in 1 .. n + 2 |->
                          IF i > n THEN <<>> ELSE <<decodeRune(b, i)>> \o t[i + runeWidth(b, i)]]
           any == CHOOSE t : Q(t)
<1>1. n \in Nat
  BY DEF Bytes
<1>2. decodeModifiedUTF8(b) = any[1]
  BY DEF decodeModifiedUTF8, ScanFrom
<1>3. \A i \in 1 .. n + 2 : c[i] = decodeRune(b, i) /\ d[i] = i + runeWidth(b, i)
  OBVIOUS
<1>4. Leads(d, n)
  <2>1. ASSUME NEW i \in 1 .. n PROVE d[i] \in i + 1 .. n + 2
    <3>1. i \in 1 .. n + 2
      BY <1>1
    <3>2. d[i] = i + runeWidth(b, i)
      BY <1>3, <3>1
    <3> HIDE DEF d
    <3> QED BY <1>1, <3>2, WidthFits
  <2> HIDE DEF d
  <2> QED BY <2>1 DEF Leads
<1>5. ASSUME NEW t PROVE Q(t) <=> ScanTable(t, n, c, d)
  <2> DEFINE f == [i \in 1 .. n + 2 |-> IF i > n THEN <<>> ELSE <<decodeRune(b, i)>> \o t[i + runeWidth(b, i)]]
             g == [i \in 1 .. n + 2 |-> IF i > n THEN <<>> ELSE <<c[i]>> \o t[d[i]]]
  <2>1. f = g
    <3> HIDE DEF c, d
    <3> QED BY <1>3
  <2> HIDE DEF c, d
  <2>2. ScanTable(t, n, c, d) <=> t = g
    BY DEF ScanTable
  <2>3. Q(t) <=> t = f
    OBVIOUS
  <2> HIDE DEF f, g, Q
  <2> QED BY <2>1, <2>2, <2>3
<1>6. ScanTable(any, n, c, d)
  <2> HIDE DEF c, d, Q
  <2>1. \E t : ScanTable(t, n, c, d)
    BY <1>1, <1>4, ScanTableExists
  <2>2. \E t : Q(t)
    BY <1>5, <2>1
  <2>3. Q(any)
    BY <2>2
  <2> HIDE DEF any
  <2> QED BY <1>5, <2>3
<1>7. Path(p, c, d, y, n, k)
  <2>1. ASSUME NEW j \in 1 .. k
        PROVE  p[j - 1] \in 1 .. n /\ c[p[j - 1]] = y[j] /\ d[p[j - 1]] = p[j]
    <3>1. /\ p[j - 1] \in 1 .. n /\ decodeRune(b, p[j - 1]) = y[j]
          /\ p[j - 1] + runeWidth(b, p[j - 1]) = p[j]
      OBVIOUS
    <3>2. p[j - 1] \in 1 .. n + 2
      BY <1>1, <3>1
    <3> HIDE DEF c, d
    <3> QED BY <1>3, <3>1, <3>2
  <2> HIDE DEF c, d
  <2> QED BY <2>1 DEF Path
<1> HIDE DEF c, d, any
<1> QED BY <1>1, <1>2, <1>6, <1>7, ScanPath

Lonely(s) == \A i \in 1 .. Len(s) - 1 : ~(isHigh(s[i]) /\ isLow(s[i + 1]))

LEMMA RuneParts ==
  ASSUME NEW u \in Rune
  PROVE  encodeRune(u) \in Bytes /\ Len(encodeRune(u)) \in Nat /\ Len(encodeRune(u)) >= 1
<1>1. u \in Nat /\ u <= 1114111
  BY DEF Rune
<1>2. encodeRune(u) \in Bytes /\ Len(encodeRune(u)) \in 1 .. 6
  BY <1>1, RuneType
<1>3. \A x \in 1 .. 6 : x \in Nat /\ x >= 1
  OBVIOUS
<1> QED BY <1>2, <1>3

LEMMA SplitsOf ==
  ASSUME NEW n \in Nat, NEW parts, ByteParts(parts, n)
  PROVE  FlattenSeq(parts) \in Bytes /\ \E w : Splits(FlattenSeq(parts), Byte, parts, n, w)
<1>1. <<>> \in Bytes
  BY DEF Bytes
<1>2. FlattenSeq(parts) \in Bytes /\ \E w : Written(parts, n, <<>>, w)
  BY <1>1, WrittenIs
<1>3. PICK w : Written(parts, n, <<>>, w)
  BY <1>2
<1> DEFINE b == FlattenSeq(parts)
<1>4. b \in Seq(Byte)
  BY <1>2 DEF Bytes
<1>5. b \o <<>> = b
  <2> HIDE DEF b
  <2> QED BY <1>4
<1>6. w[0] = b /\ w[n] = <<>>
  BY <1>3, <1>5 DEF Written
<1> HIDE DEF b
<1>7. \A i \in 0 .. n : w[i] \in Seq(Byte)
  BY <1>3 DEF Written, Bytes
<1>8. \A i \in 1 .. n : parts[i] \in Seq(Byte) /\ w[i - 1] = parts[i] \o w[i]
  BY <1>3 DEF Written, ByteParts, Bytes
<1>9. Splits(b, Byte, parts, n, w)
  BY <1>4, <1>6, <1>7, <1>8 DEF Splits
<1> QED BY <1>2, <1>9 DEF b

(* The characters of a text are where the positions p say. *)
Placed(b, p, parts, n) ==
  /\ p[0] = 1 /\ p[n] = Len(b) + 1
  /\ \A j \in 1 .. n : /\ p[j - 1] \in Nat \ {0} /\ p[j - 1] + Len(parts[j]) = p[j]
                       /\ p[j] <= Len(b) + 1 /\ Holds(b, p[j - 1], parts[j])

LEMMA PlacedAt ==
  ASSUME NEW n \in Nat, NEW S, NEW b, NEW parts, NEW w, Splits(b, S, parts, n, w)
  PROVE  \E p : Placed(b, p, parts, n)
<1> DEFINE p == [k \in 0 .. n |-> Len(b) - Len(w[k]) + 1]
<1>1. Len(b) \in Nat /\ w[0] = b /\ w[n] = <<>>
  BY DEF Splits
<1>2. \A k \in 0 .. n : Suffix(w[k], b) /\ w[k] \in Seq(S)
  BY PartAt
<1>3. \A k \in 1 .. n : PartIn(b, w[k - 1], parts[k], w[k])
  BY PartAt
<1>4. p[0] = 1 /\ p[n] = Len(b) + 1
  <2>1. 0 \in 0 .. n /\ n \in 0 .. n /\ Len(<<>>) = 0
    OBVIOUS
  <2>2. p[0] = Len(b) - Len(w[0]) + 1 /\ p[n] = Len(b) - Len(w[n]) + 1
    BY <2>1
  <2> HIDE DEF p
  <2>3. Len(w[0]) = Len(b) /\ Len(w[n]) = 0
    BY <1>1, <2>1
  <2> QED BY <1>1, <2>2, <2>3
<1>5. ASSUME NEW j \in 1 .. n
      PROVE  /\ p[j - 1] \in Nat \ {0} /\ p[j - 1] + Len(parts[j]) = p[j]
             /\ p[j] <= Len(b) + 1 /\ Holds(b, p[j - 1], parts[j])
  <2>0. j - 1 \in 0 .. n /\ j \in 0 .. n
    OBVIOUS
  <2> DEFINE x == Len(w[j - 1])  y == Len(w[j])  l == Len(parts[j])
  <2>1. x = l + y /\ x <= Len(b)
    BY <1>3 DEF PartIn
  <2>2. x \in Nat /\ y \in Nat /\ l \in Nat
    <3>1. w[j - 1] \in Seq(S) /\ w[j] \in Seq(S) /\ parts[j] \in Seq(S)
      BY <1>2, <2>0 DEF Splits
    <3> QED BY <3>1
  <2>3. p[j - 1] = Len(b) - x + 1 /\ p[j] = Len(b) - y + 1
    BY <2>0
  <2>4. \A i \in 1 .. l : b[Len(b) - x + i] = parts[j][i]
    BY <1>3 DEF PartIn
  <2> HIDE DEF x, y, p
  <2>5. p[j - 1] \in Nat \ {0} /\ p[j - 1] + l = p[j] /\ p[j] <= Len(b) + 1 /\ p[j - 1] + l - 1 <= Len(b)
    BY <1>1, <2>1, <2>2, <2>3
  <2>6. ASSUME NEW i \in 1 .. l PROVE b[p[j - 1] - 1 + i] = parts[j][i]
    <3>1. p[j - 1] - 1 + i = Len(b) - x + i
      BY <1>1, <2>2, <2>3
    <3> QED BY <2>4, <3>1
  <2> QED BY <2>5, <2>6 DEF Holds
<1> HIDE DEF p
<1>6. Placed(b, p, parts, n)
  BY <1>4, <1>5 DEF Placed
<1> QED BY <1>6

(* What is decoded is what was encoded, a lone surrogate replaced. *)
LEMMA DecodeText ==
  ASSUME NEW s \in Seq(Rune), Lonely(s)
  PROVE  /\ encodeModifiedUTF8(s) \in Bytes
         /\ decodeModifiedUTF8(encodeModifiedUTF8(s)) = [i \in DOMAIN s |-> goRune(s[i])]
<1> DEFINE n == Len(s)
           parts == [i \in 1 .. n |-> encodeRune(s[i])]
           b == FlattenSeq(parts)
           y == [i \in 1 .. n |-> goRune(s[i])]
<1>1. n \in Nat /\ DOMAIN s = 1 .. n /\ \A i \in 1 .. n : s[i] \in Rune
  OBVIOUS
<1>2. encodeModifiedUTF8(s) = b
  BY <1>1 DEF encodeModifiedUTF8
<1>3. ByteParts(parts, n) /\ \A i \in 1 .. n : parts[i] = encodeRune(s[i])
  <2>1. \A i \in 1 .. n : encodeRune(s[i]) \in Bytes
    BY <1>1, RuneParts
  <2> QED BY <2>1 DEF ByteParts, Tuple
<1> HIDE DEF parts
<1>4. b \in Bytes /\ \E w : Splits(b, Byte, parts, n, w)
  BY <1>1, <1>3, SplitsOf
<1> HIDE DEF b
<1>5. PICK p : Placed(b, p, parts, n)
  BY <1>1, <1>4, PlacedAt
<1>6. Tuple(y, n) /\ \A i \in 1 .. n : y[i] = goRune(s[i])
  BY DEF Tuple
<1> HIDE DEF y, n
<1>7. ASSUME NEW j \in 1 .. n
      PROVE  /\ p[j - 1] \in 1 .. Len(b) /\ decodeRune(b, p[j - 1]) = y[j]
             /\ p[j - 1] + runeWidth(b, p[j - 1]) = p[j]
  <2> DEFINE i == p[j - 1]  u == s[j]
  <2>1. u \in Rune /\ parts[j] = encodeRune(u) /\ y[j] = goRune(u)
    BY <1>1, <1>3, <1>6
  <2>2. /\ i \in Nat \ {0} /\ i + Len(parts[j]) = p[j] /\ p[j] <= Len(b) + 1
        /\ Holds(b, i, encodeRune(u))
    BY <1>5, <2>1 DEF Placed
  <2>3. isHigh(u) => Alone(b, i)
    <3> SUFFICES ASSUME isHigh(u) PROVE Alone(b, i)
      OBVIOUS
    <3>1. Len(parts[j]) = 3
      BY <2>1, SurrogateWidth DEF Rune
    <3>2. p[j] = i + 3
      BY <2>2, <3>1
    <3>3. CASE j = n
      <4>1. i + 3 = Len(b) + 1
        BY <1>5, <3>2, <3>3 DEF Placed
      <4>2. Len(b) \in Nat
        BY <1>4 DEF Bytes
      <4>3. ~(i + 5 <= Len(b))
        BY <2>2, <4>1, <4>2
      <4> QED BY <4>3 DEF Alone
    <3>4. CASE j # n
      <4> DEFINE x == s[j + 1]
      <4>1. j + 1 \in 1 .. n /\ (j + 1) - 1 = j /\ j \in 1 .. n - 1
        BY <1>1, <3>4
      <4>2. x \in Rune /\ parts[j + 1] = encodeRune(x)
        BY <1>1, <1>3, <4>1
      <4>3. p[(j + 1) - 1] \in Nat \ {0} /\ Holds(b, p[(j + 1) - 1], parts[j + 1])
        <5> DEFINE j1 == j + 1
        <5>1. j1 \in 1 .. n
          BY <4>1
        <5> HIDE DEF j1
        <5>2. p[j1 - 1] \in Nat \ {0} /\ Holds(b, p[j1 - 1], parts[j1])
          BY <1>5, <5>1 DEF Placed
        <5> QED BY <5>2 DEF j1
      <4>4. p[j] \in Nat /\ Holds(b, p[j], encodeRune(x))
        BY <4>1, <4>2, <4>3
      <4>5. ~isLow(x)
        BY <4>1 DEF Lonely, n
      <4> HIDE DEF x
      <4>6. ~(leads(b[p[j]]) /\ isLow(three(b, p[j])))
        BY <4>2, <4>4, <4>5, NoLow DEF Rune
      <4> QED BY <3>2, <4>6 DEF Alone
    <3> QED BY <3>3, <3>4
  <2> HIDE DEF i, u
  <2>4. Decodes(b, i, u)
    BY <1>4, <2>1, <2>2, <2>3, DecodeAt
  <2>5. Len(encodeRune(u)) \in Nat /\ Len(encodeRune(u)) >= 1 /\ Len(b) \in Nat
    BY <1>4, <2>1, RuneParts DEF Bytes
  <2>6. i \in 1 .. Len(b)
    BY <2>1, <2>2, <2>5
  <2>7. decodeRune(b, i) = y[j] /\ i + runeWidth(b, i) = p[j]
    BY <2>1, <2>2, <2>4 DEF Decodes
  <2> QED BY <2>6, <2>7 DEF i
<1>8. p[0] = 1 /\ p[n] = Len(b) + 1
  BY <1>5 DEF Placed
<1>9. decodeModifiedUTF8(b) = y
  BY <1>1, <1>4, <1>6, <1>7, <1>8, DecodePath
<1>10. y = [i \in DOMAIN s |-> goRune(s[i])]
  BY <1>1 DEF y
<1> QED BY <1>2, <1>4, <1>9, <1>10

-----------------------------------------------------------------------------
(***************************************************************************)
(* What is written as a scalar is read as what it means.                   *)
(***************************************************************************)
LEMMA InVal ==
  ASSUME NEW b, NEW v, NEW m, NEW x
  PROVE  In(b, v, m).val = v /\ RowInput(In(b, v, m).buf, In(b, v, m).err, x, In(b, v, m).meta) = In(b, x, m)
BY Input, InputMap

LEMMA BadVal ==
  ASSUME NEW b, NEW v, NEW m, NEW x
  PROVE  Bad(b, v, m).val = v /\ RowInput(Bad(b, v, m).buf, Bad(b, v, m).err, x, Bad(b, v, m).meta) = Bad(b, x, m)
<1>1. Bad(b, v, m).val = v
  BY Broken
<1>2. RowInput(Bad(b, v, m).buf, Bad(b, v, m).err, x, Bad(b, v, m).meta) = Bad(b, x, m)
  BY BrokenMap
<1> QED BY <1>1, <1>2

LEMMA ReadStringOf ==
  ASSUME NEW s, TextOK(s), NEW rest \in Bytes, NEW v, NEW m
  PROVE  /\ WriteBytes(encodeModifiedUTF8(s)) \in Bytes
         /\ ReadString(In(WriteBytes(encodeModifiedUTF8(s)) \o rest, v, m)) = In(rest, GoText(s), m)
<1> DEFINE b == encodeModifiedUTF8(s)
<1>1. s \in Seq(Rune) /\ Lonely(s) /\ Fits(IntLen, Len(b))
  BY DEF TextOK, Lonely
<1>2. b \in Bytes /\ decodeModifiedUTF8(b) = GoText(s)
  BY <1>1, DecodeText DEF GoText
<1> HIDE DEF b
<1>3. /\ WriteBytes(b) \in Bytes
      /\ ReadBytes(In(WriteBytes(b) \o rest, v, m)) = In(rest, b, m)
  BY <1>1, <1>2, ReadBytesOf
<1>4. ReadString(In(WriteBytes(b) \o rest, v, m)) = In(rest, decodeModifiedUTF8(b), m)
  BY <1>3, Input, InputMap DEF ReadString, MapVal
<1> QED BY <1>2, <1>3, <1>4 DEF b

(* What is read of a value v of type code. *)
Got(code, v) ==
  IF v = Null \/ code = "all" THEN Null
  ELSE IF code = "char" THEN <<GoText(v[1])>>
  ELSE IF code \in OfNums THEN FromNums(code, ToNums(code, v))
  ELSE v

(* The branches of readPayload. *)
LEMMA Branches ==
  ASSUME NEW r
  PROVE  /\ LET q == ReadString(r) IN readPayload(r, "char") = RowInput(q.buf, q.err, <<q.val>>, q.meta)
         /\ LET q == ReadBytes(r) IN readPayload(r, "bin") = RowInput(q.buf, q.err, <<q.val>>, q.meta)
         /\ LET q == ReadBits(ReadNum(r, IntLen))
            IN  readPayload(r, "bit") = RowInput(q.buf, q.err, <<q.val>>, q.meta)
         /\ LET q == ReadU8(r)
            IN  readPayload(r, "bool") = RowInput(q.buf, q.err, <<IF q.val # 0 THEN 1 ELSE 0>>, q.meta)
         /\ readPayload(r, "dec") = ReadScale(ReadBytes(r))
BY DEF readPayload, MapVal, OfNums, Months, Seconds

PayloadReads(code, b, y) ==
  /\ b \in Bytes
  /\ \A rest \in Bytes : \A u, m : readPayload(In(b \o rest, u, m), code) = In(rest, y, m)

ScalarReads(code, b, y) ==
  /\ b \in Bytes
  /\ \A rest \in Bytes : \A u, m : ReadScalar(In(b \o rest, u, m), code) = In(rest, y, m)

LEMMA PayloadChar ==
  ASSUME NEW s, TextOK(s)
  PROVE  PayloadReads("char", WriteBytes(encodeModifiedUTF8(s)), <<GoText(s)>>)
<1> DEFINE b == WriteBytes(encodeModifiedUTF8(s))
<1>1. b \in Bytes
  <2>1. <<>> \in Bytes
    BY DEF Bytes
  <2> QED BY <2>1, ReadStringOf
<1>2. ASSUME NEW rest \in Bytes, NEW u, NEW m
      PROVE  readPayload(In(b \o rest, u, m), "char") = In(rest, <<GoText(s)>>, m)
  <2>1. ReadString(In(b \o rest, u, m)) = In(rest, GoText(s), m)
    BY ReadStringOf
  <2> DEFINE r == In(b \o rest, u, m)
  <2> HIDE DEF r
  <2> DEFINE q == In(rest, GoText(s), m)
  <2>2. q.val = GoText(s) /\ RowInput(q.buf, q.err, <<GoText(s)>>, q.meta) = In(rest, <<GoText(s)>>, m)
    BY InVal
  <2> HIDE DEF q
  <2>3. readPayload(r, "char") = RowInput(q.buf, q.err, <<q.val>>, q.meta)
    BY <2>1, Branches DEF r, q
  <2> QED BY <2>2, <2>3 DEF r
<1> QED BY <1>1, <1>2 DEF PayloadReads

LEMMA PayloadBin ==
  ASSUME NEW a \in Bytes, Fits(IntLen, Len(a))
  PROVE  PayloadReads("bin", WriteBytes(a), <<a>>)
<1> DEFINE b == WriteBytes(a)
<1>1. b \in Bytes
  <2>1. <<>> \in Bytes
    BY DEF Bytes
  <2> QED BY <2>1, ReadBytesOf
<1>2. ASSUME NEW rest \in Bytes, NEW u, NEW m
      PROVE  readPayload(In(b \o rest, u, m), "bin") = In(rest, <<a>>, m)
  <2>1. ReadBytes(In(b \o rest, u, m)) = In(rest, a, m)
    BY ReadBytesOf
  <2> DEFINE r == In(b \o rest, u, m)
  <2> HIDE DEF r
  <2> DEFINE q == In(rest, a, m)
  <2>2. q.val = a /\ RowInput(q.buf, q.err, <<a>>, q.meta) = In(rest, <<a>>, m)
    BY InVal
  <2> HIDE DEF q
  <2>3. readPayload(r, "bin") = RowInput(q.buf, q.err, <<q.val>>, q.meta)
    BY <2>1, Branches DEF r, q
  <2> QED BY <2>2, <2>3 DEF r
<1> QED BY <1>1, <1>2 DEF PayloadReads

LEMMA PayloadBit ==
  ASSUME NEW a \in Bytes, Fits(IntLen, 8 * Len(a))
  PROVE  PayloadReads("bit", PutNum(IntLen, 8 * Len(a)) \o a, <<a>>)
<1> DEFINE l == 8 * Len(a)  p == PutNum(IntLen, l)
<1>1. Len(a) \in Nat /\ l \in Int /\ (l + 7) \div 8 = Len(a)
  BY DEF Bytes
<1>2. p \in Bytes
  BY <1>1, Lengths, PutNumFacts DEF Bytes
<1>3. p \o a \in Bytes
  BY <1>2 DEF Bytes
<1> HIDE DEF l
<1>4. ASSUME NEW rest \in Bytes, NEW u, NEW m
      PROVE  readPayload(In((p \o a) \o rest, u, m), "bit") = In(rest, <<a>>, m)
  <2>1. a \o rest \in Bytes /\ (p \o a) \o rest = p \o (a \o rest)
    BY <1>2, Assoc DEF Bytes
  <2>2. ReadNum(In(p \o (a \o rest), u, m), IntLen) = In(a \o rest, l, m)
    <3>1. Fits(IntLen, l)
      BY DEF l
    <3> QED BY <2>1, <3>1, Lengths, ReadNumOf
  <2>3. read(In(a \o rest, l, m), Len(a)) = In(rest, a, m)
    BY readOf
  <2>4. ReadBits(In(a \o rest, l, m)) = In(rest, a, m)
    BY <1>1, <2>3, Input DEF ReadBits
  <2> DEFINE r == In((p \o a) \o rest, u, m)
  <2> HIDE DEF r
  <2> DEFINE q == In(rest, a, m)
  <2>7. q.val = a /\ RowInput(q.buf, q.err, <<a>>, q.meta) = In(rest, <<a>>, m)
    BY InVal
  <2> HIDE DEF q
  <2>8. ReadBits(ReadNum(r, IntLen)) = q
    BY <2>1, <2>2, <2>4 DEF r, q
  <2>9. readPayload(r, "bit") = RowInput(q.buf, q.err, <<q.val>>, q.meta)
    BY <2>8, Branches
  <2> QED BY <2>7, <2>9 DEF r
<1> HIDE DEF p
<1>5. PayloadReads("bit", p \o a, <<a>>)
  BY <1>3, <1>4 DEF PayloadReads
<1> QED BY <1>5 DEF p, l

LEMMA PayloadBool ==
  ASSUME NEW x, x \in {0, 1}
  PROVE  PayloadReads("bool", <<x>>, <<x>>)
<1>1. x \in Byte
  BY DEF Byte
<1>2. <<x>> \in Bytes
  BY <1>1, OneByte
<1>3. ASSUME NEW rest \in Bytes, NEW u, NEW m
      PROVE  readPayload(In(<<x>> \o rest, u, m), "bool") = In(rest, <<x>>, m)
  <2>1. ReadU8(In(<<x>> \o rest, u, m)) = In(rest, x, m)
    BY <1>1, ReadU8Of
  <2> DEFINE r == In(<<x>> \o rest, u, m)
  <2> HIDE DEF r
  <2> DEFINE q == In(rest, x, m)
  <2>2. q.val = x /\ RowInput(q.buf, q.err, <<x>>, q.meta) = In(rest, <<x>>, m)
    BY InVal
  <2> HIDE DEF q
  <2>3. readPayload(r, "bool") = RowInput(q.buf, q.err, <<IF q.val # 0 THEN 1 ELSE 0>>, q.meta)
    BY <2>1, Branches DEF r, q
  <2>4. (IF q.val # 0 THEN 1 ELSE 0) = x
    BY <2>2
  <2> QED BY <2>2, <2>3, <2>4 DEF r
<1> QED BY <1>2, <1>3 DEF PayloadReads

LEMMA PayloadDec ==
  ASSUME NEW x \in Int, NEW scale, Fits(IntLen, scale), Fits(IntLen, Len(bigIntToTwosComplement(x)))
  PROVE  PayloadReads("dec", WriteBytes(bigIntToTwosComplement(x)) \o PutNum(IntLen, scale), <<x, scale>>)
<1> DEFINE a == bigIntToTwosComplement(x)  w == WriteBytes(a)  p == PutNum(IntLen, scale)
<1>1. a \in Bytes /\ GetNum(a) = x
  BY GetBigInt DEF Bytes
<1>2. Fits(IntLen, Len(a))
  OBVIOUS
<1>3. p \in Bytes
  BY Lengths, PutNumFacts DEF Bytes, Fits
<1> HIDE DEF a
<1>4. w \in Bytes
  <2>1. <<>> \in Bytes
    BY DEF Bytes
  <2> QED BY <1>1, <1>2, <2>1, ReadBytesOf
<1>5. w \o p \in Bytes
  BY <1>3, <1>4 DEF Bytes
<1>6. ASSUME NEW rest \in Bytes, NEW u, NEW m
      PROVE  readPayload(In((w \o p) \o rest, u, m), "dec") = In(rest, <<x, scale>>, m)
  <2>1. p \o rest \in Bytes /\ (w \o p) \o rest = w \o (p \o rest)
    BY <1>3, <1>4, Assoc DEF Bytes
  <2>2. ReadBytes(In(w \o (p \o rest), u, m)) = In(p \o rest, a, m)
    BY <1>1, <1>2, <2>1, ReadBytesOf
  <2>3. ReadNum(In(p \o rest, a, m), IntLen) = In(rest, scale, m)
    BY Lengths, ReadNumOf
  <2> DEFINE q == In(p \o rest, a, m)
  <2>4. q.val = a
    BY Input
  <2> HIDE DEF q
  <2>5. ReadScale(q) = In(rest, <<GetNum(a), scale>>, m)
    <3> DEFINE h == In(rest, scale, m)
    <3>1. h.val = scale /\ RowInput(h.buf, h.err, <<GetNum(a), scale>>, h.meta) = In(rest, <<GetNum(a), scale>>, m)
      BY InVal
    <3> HIDE DEF h
    <3>2. ReadNum(q, IntLen) = h
      BY <2>3 DEF q, h
    <3>3. ReadScale(q) = RowInput(h.buf, h.err, <<GetNum(q.val), h.val>>, h.meta)
      BY <3>2 DEF ReadScale, MapVal
    <3> QED BY <2>4, <3>1, <3>3
  <2> DEFINE r == In((w \o p) \o rest, u, m)
  <2> HIDE DEF r
  <2>6. readPayload(r, "dec") = ReadScale(ReadBytes(r))
    BY Branches
  <2>7. ReadBytes(r) = q
    BY <2>1, <2>2 DEF r, q
  <2> QED BY <1>1, <2>5, <2>6, <2>7 DEF r
<1> HIDE DEF p, w
<1>7. PayloadReads("dec", w \o p, <<x, scale>>)
  BY <1>5, <1>6 DEF PayloadReads
<1> QED BY <1>7 DEF p, w, a

LEMMA PayloadAll == PayloadReads("all", <<>>, Null)
<1>1. <<>> \in Bytes
  BY DEF Bytes
<1>2. ASSUME NEW rest \in Bytes, NEW u, NEW m
      PROVE  readPayload(In(<<>> \o rest, u, m), "all") = In(rest, Null, m)
  <2>1. <<>> \o rest = rest
    BY NoneBefore DEF Bytes
  <2> DEFINE r == In(rest, u, m)
  <2>2. SetVal(r, Null) = In(rest, Null, m)
    BY InputMap
  <2> HIDE DEF r
  <2>3. readPayload(r, "all") = SetVal(r, Null)
    BY DEF readPayload, OfNums, Months, Seconds
  <2> QED BY <2>1, <2>2, <2>3 DEF r
<1> QED BY <1>1, <1>2 DEF PayloadReads

(* The integers of a value are as many as its type has widths. *)
LEMMA NumCounts ==
  ASSUME NEW code \in OfNums, NEW v
  PROVE  \E n \in Nat : /\ Len(Widths(code)) = n /\ DOMAIN Widths(code) = 1 .. n /\ Tuple(ToNums(code, v), n)
                        /\ \A i \in 1 .. n : Widths(code)[i] \in Nat \ {0}
<1> DEFINE w == Widths(code)  t == ToNums(code, v)
<1>1. CASE code \in {"small", "int", "big", "lob", "date"} \cup Months
  <2>1. \E l \in {ShortLen, IntLen, LongLen} : w = <<l>>
    BY <1>1 DEF Widths, Months, Seconds
  <2>2. \E x : t = <<x>>
    BY <1>1 DEF ToNums, Months, Seconds
  <2> HIDE DEF w, t
  <2>3. Len(w) = 1 /\ DOMAIN w = 1 .. 1 /\ \A i \in 1 .. 1 : w[i] \in Nat \ {0}
    BY <2>1, Lengths
  <2>4. Tuple(t, 1)
    BY <2>2 DEF Tuple
  <2> QED BY <2>3, <2>4 DEF w, t
<1>2. CASE code \in {"time", "ts"} \cup Seconds
  <2>1. \E l \in {IntLen, LongLen} : w = <<l, IntLen>>
    BY <1>2 DEF Widths, Months, Seconds
  <2>2. \E x, y : t = <<x, y>>
    BY <1>2 DEF ToNums, Months, Seconds
  <2> HIDE DEF w, t
  <2>3. Len(w) = 2 /\ DOMAIN w = 1 .. 2 /\ \A i \in 1 .. 2 : w[i] \in Nat \ {0}
    BY <2>1, Lengths
  <2>4. Tuple(t, 2)
    BY <2>2 DEF Tuple
  <2> QED BY <2>3, <2>4 DEF w, t
<1>3. CASE code \in {"timetz", "tstz"}
  <2>1. \E l \in {IntLen, LongLen} : w = <<l, IntLen, IntLen>>
    BY <1>3 DEF Widths, Months, Seconds
  <2>2. \E x, y, z : t = <<x, y, z>>
    BY <1>3 DEF ToNums, Months, Seconds
  <2> HIDE DEF w, t
  <2>3. Len(w) = 3 /\ DOMAIN w = 1 .. 3 /\ \A i \in 1 .. 3 : w[i] \in Nat \ {0}
    BY <2>1, Lengths
  <2>4. Tuple(t, 3)
    BY <2>2 DEF Tuple
  <2> QED BY <2>3, <2>4 DEF w, t
<1> QED BY <1>1, <1>2, <1>3 DEF OfNums

LEMMA PayloadNums ==
  ASSUME NEW code \in OfNums, NEW v,
         \A i \in DOMAIN Widths(code) : Fits(Widths(code)[i], ToNums(code, v)[i])
  PROVE  PayloadReads(code, PutNums(Widths(code), ToNums(code, v)), FromNums(code, ToNums(code, v)))
<1> DEFINE w == Widths(code)  t == ToNums(code, v)  b == PutNums(w, t)  y == FromNums(code, t)
<1>1. PICK n \in Nat : Len(w) = n /\ DOMAIN w = 1 .. n /\ Tuple(t, n) /\ \A i \in 1 .. n : w[i] \in Nat \ {0}
  BY NumCounts
<1>2. \A i \in DOMAIN w : Fits(w[i], t[i])
  OBVIOUS
<1> HIDE DEF w, t, y
<1>3. NumsOK(w, t, n)
  BY <1>1, <1>2 DEF NumsOK
<1>4. b \in Bytes
  <2>1. <<>> \in Bytes
    BY DEF Bytes
  <2> QED BY <1>3, <2>1, PutNumsOf
<1> HIDE DEF b
<1>5. ASSUME NEW rest \in Bytes, NEW u, NEW m
      PROVE  readPayload(In(b \o rest, u, m), code) = In(rest, y, m)
  <2>1. ReadEach(In(b \o rest, u, m), w, ReadNum) = In(rest, t, m)
    BY <1>3, PutNumsOf DEF b
  <2> DEFINE r == In(b \o rest, u, m)  q == In(rest, t, m)
  <2>2. q.val = t /\ ~q.err /\ SetVal(q, y) = In(rest, y, m)
    BY Input, InputMap
  <2> HIDE DEF r, q
  <2>3. readPayload(r, code) = readNums(ReadEach(r, w, ReadNum), code)
    BY DEF readPayload, OfNums, Months, Seconds, w
  <2>4. readPayload(r, code) = readNums(q, code)
    BY <2>1, <2>3 DEF r, q
  <2>5. readNums(q, code) = SetVal(q, FromNums(code, q.val))
    BY <2>2 DEF readNums
  <2> QED BY <2>2, <2>4, <2>5 DEF r, y
<1>6. PayloadReads(code, b, y)
  BY <1>4, <1>5 DEF PayloadReads
<1> QED BY <1>6 DEF b, y, w, t

(* A value of a scalar type is read as what is got of it. *)
LEMMA PayloadOf ==
  ASSUME NEW code \in Scalars, NEW v, v # Null, ScalarOK(code, v)
  PROVE  PayloadReads(code, WriteScalar(code, v), Got(code, v))
<1>1. CASE code = "char"
  <2>1. v = <<v[1]>> /\ TextOK(v[1])
    BY <1>1 DEF ScalarOK, Months, Seconds
  <2>2. WriteScalar(code, v) = WriteBytes(encodeModifiedUTF8(v[1])) /\ Got(code, v) = <<GoText(v[1])>>
    BY <1>1 DEF WriteScalar, Got, OfNums, Months, Seconds
  <2> QED BY <1>1, <2>1, <2>2, PayloadChar
<1>2. CASE code = "bool"
  <2>1. v \in {<<0>>, <<1>>}
    BY <1>2 DEF ScalarOK, Months, Seconds
  <2>2. WriteScalar(code, v) = <<v[1]>> /\ Got(code, v) = v
    BY <1>2 DEF WriteScalar, Got, OfNums, Months, Seconds
  <2>3. v = <<v[1]>> /\ v[1] \in {0, 1}
    BY <2>1
  <2> QED BY <1>2, <2>2, <2>3, PayloadBool
<1>3. CASE code = "dec"
  <2>1. /\ v = <<v[1], v[2]>> /\ v[1] \in Int /\ Fits(IntLen, v[2])
        /\ Fits(IntLen, Len(bigIntToTwosComplement(v[1])))
    BY <1>3 DEF ScalarOK, Months, Seconds
  <2>2. /\ WriteScalar(code, v) = WriteBytes(bigIntToTwosComplement(v[1])) \o PutNum(IntLen, v[2])
        /\ Got(code, v) = v
    BY <1>3 DEF WriteScalar, Got, OfNums, Months, Seconds
  <2> DEFINE x == v[1]  z == v[2]
  <2> HIDE DEF x, z
  <2>3. PayloadReads("dec", WriteBytes(bigIntToTwosComplement(x)) \o PutNum(IntLen, z), <<x, z>>)
    BY <2>1, PayloadDec DEF x, z
  <2> QED BY <1>3, <2>1, <2>2, <2>3 DEF x, z
<1>4. CASE code = "bin"
  <2>1. v = <<v[1]>> /\ v[1] \in Bytes /\ Fits(IntLen, Len(v[1]))
    BY <1>4 DEF ScalarOK, Months, Seconds, Bytes, Byte
  <2>2. WriteScalar(code, v) = WriteBytes(v[1]) /\ Got(code, v) = v
    BY <1>4 DEF WriteScalar, Got, OfNums, Months, Seconds
  <2> QED BY <1>4, <2>1, <2>2, PayloadBin
<1>5. CASE code = "bit"
  <2>1. v = <<v[1]>> /\ v[1] \in Bytes /\ Fits(IntLen, 8 * Len(v[1]))
    BY <1>5 DEF ScalarOK, Months, Seconds, Bytes, Byte
  <2>2. WriteScalar(code, v) = PutNum(IntLen, 8 * Len(v[1])) \o v[1] /\ Got(code, v) = v
    BY <1>5 DEF WriteScalar, Got, OfNums, Months, Seconds
  <2> QED BY <1>5, <2>1, <2>2, PayloadBit
<1>6. CASE code = "all"
  <2>1. WriteScalar(code, v) = <<>> /\ Got(code, v) = Null
    BY <1>6 DEF WriteScalar, Got, OfNums, Months, Seconds
  <2> QED BY <1>6, <2>1, PayloadAll
<1>7. CASE code \in OfNums
  <2>1. \A i \in DOMAIN Widths(code) : Fits(Widths(code)[i], ToNums(code, v)[i])
    BY <1>7 DEF ScalarOK
  <2>2. WriteScalar(code, v) = PutNums(Widths(code), ToNums(code, v))
    BY <1>7 DEF WriteScalar, OfNums, Months, Seconds
  <2>3. Got(code, v) = FromNums(code, ToNums(code, v))
    BY <1>7 DEF Got, OfNums, Months, Seconds
  <2> QED BY <1>7, <2>1, <2>2, <2>3, PayloadNums
<1> QED BY <1>1, <1>2, <1>3, <1>4, <1>5, <1>6, <1>7 DEF Scalars, OfNums

-----------------------------------------------------------------------------
(***************************************************************************)
(* Flags, NULL, and the types the driver does not know.                    *)
(***************************************************************************)
LEMMA FlagOne ==
  ASSUME NEW b \in Bytes, NEW rest \in Bytes, NEW u, NEW m
  PROVE  /\ <<1>> \o b \in Bytes
         /\ ReadU8(In((<<1>> \o b) \o rest, u, m)) = In(b \o rest, 1, m)
<1>1. 1 \in Byte
  BY DEF Byte
<1> DEFINE one == <<1>>
<1>2. one \in Bytes
  BY <1>1, OneByte
<1> HIDE DEF one
<1>3. b \o rest \in Bytes /\ (one \o b) \o rest = one \o (b \o rest) /\ one \o b \in Bytes
  BY <1>2, Assoc DEF Bytes
<1> DEFINE c == b \o rest
<1> HIDE DEF c
<1>4. ReadU8(In(one \o c, u, m)) = In(c, 1, m)
  <2>1. ReadU8(In(<<1>> \o c, u, m)) = In(c, 1, m)
    BY <1>1, <1>3, ReadU8Of DEF c
  <2> QED BY <2>1 DEF one
<1> QED BY <1>3, <1>4 DEF one, c

LEMMA FlagZero ==
  ASSUME NEW rest \in Bytes, NEW u, NEW m
  PROVE  <<0>> \in Bytes /\ ReadU8(In(<<0>> \o rest, u, m)) = In(rest, 0, m)
<1>1. 0 \in Byte
  BY DEF Byte
<1> QED BY <1>1, OneByte, ReadU8Of

LEMMA ScalarNull ==
  ASSUME NEW code
  PROVE  ScalarReads(code, <<0>>, Null)
<1>1. <<0>> \in Bytes
  <2>1. 0 \in Byte
    BY DEF Byte
  <2> QED BY <2>1, OneByte
<1>2. ASSUME NEW rest \in Bytes, NEW u, NEW m
      PROVE  ReadScalar(In(<<0>> \o rest, u, m), code) = In(rest, Null, m)
  <2> DEFINE r == In(<<0>> \o rest, u, m)  q == In(rest, 0, m)
  <2>1. ReadU8(r) = q
    BY FlagZero
  <2>2. q.val = 0 /\ SetVal(q, Null) = In(rest, Null, m)
    BY Input, InputMap
  <2> HIDE DEF r, q
  <2>3. ReadScalar(r, code) = SetVal(q, Null)
    BY <2>1, <2>2 DEF ReadScalar, flagged
  <2> QED BY <2>2, <2>3 DEF r
<1> QED BY <1>1, <1>2 DEF ScalarReads

LEMMA ScalarOf ==
  ASSUME NEW code \in Scalars, NEW v, v # Null, ScalarOK(code, v)
  PROVE  ScalarReads(code, <<1>> \o WriteScalar(code, v), Got(code, v))
<1> DEFINE b == WriteScalar(code, v)  y == Got(code, v)
<1>1. PayloadReads(code, b, y)
  BY PayloadOf
<1> HIDE DEF b, y
<1>2. b \in Bytes
  BY <1>1 DEF PayloadReads
<1>3. <<1>> \o b \in Bytes
  BY <1>2, FlagOne DEF Bytes
<1>4. ASSUME NEW rest \in Bytes, NEW u, NEW m
      PROVE  ReadScalar(In((<<1>> \o b) \o rest, u, m), code) = In(rest, y, m)
  <2> DEFINE r == In((<<1>> \o b) \o rest, u, m)  q == In(b \o rest, 1, m)
  <2>1. ReadU8(r) = q
    BY <1>2, FlagOne
  <2>2. q.val = 1
    BY Input
  <2>3. readPayload(q, code) = In(rest, y, m)
    BY <1>1 DEF PayloadReads
  <2> HIDE DEF r, q
  <2>4. ReadScalar(r, code) = readPayload(q, code)
    BY <2>1, <2>2 DEF ReadScalar, flagged
  <2> QED BY <2>3, <2>4 DEF r
<1>5. ScalarReads(code, <<1>> \o b, y)
  BY <1>3, <1>4 DEF ScalarReads
<1> QED BY <1>5 DEF b, y

LEMMA ScalarAfterError ==
  ASSUME NEW b, NEW v, NEW m, NEW code
  PROVE  ReadScalar(Bad(b, v, m), code) = Bad(b, Null, m)
<1> DEFINE r == Bad(b, v, m)  q == Bad(b, 0, m)
<1>1. ReadU8(r) = q
  BY ReadU8AfterError
<1>2. q.val = 0 /\ SetVal(q, Null) = Bad(b, Null, m)
  BY Broken, BrokenMap
<1> HIDE DEF r, q
<1>3. ReadScalar(r, code) = SetVal(q, Null)
  BY <1>1, <1>2 DEF ReadScalar, flagged
<1> QED BY <1>2, <1>3 DEF r

(* A value of the type the driver does not know. *)
LEMMA ScalarUnknown ==
  ASSUME NEW b \in Bytes, NEW rest \in Bytes, NEW u, NEW m
  PROVE  ReadScalar(In((<<1>> \o b) \o rest, u, m), "geometry") = Bad(b \o rest, Null, m)
<1> DEFINE r == In((<<1>> \o b) \o rest, u, m)  q == In(b \o rest, 1, m)
<1>1. ReadU8(r) = q
  BY FlagOne
<1>2. q.val = 1 /\ Fail(q, Null) = Bad(b \o rest, Null, m)
  BY Input, InputMap
<1> HIDE DEF r, q
<1>3. ReadScalar(r, "geometry") = readPayload(q, "geometry")
  BY <1>1, <1>2 DEF ReadScalar, flagged
<1>4. readPayload(q, "geometry") = Fail(q, Null)
  BY DEF readPayload, OfNums, Months, Seconds
<1> QED BY <1>2, <1>3, <1>4 DEF r

-----------------------------------------------------------------------------
(***************************************************************************)
(* A loop one of whose reads fails: what follows reads nothing.            *)
(***************************************************************************)

Breaks(kind, items, parts, y, z, m, n, k) ==
  /\ Len(items) = n /\ ByteParts(parts, n) /\ k \in 1 .. n
  /\ \A i \in 1 .. k - 1 : \A v : \A rest \in Bytes :
       Item(kind, In(parts[i] \o rest, v, m), items[i]) = In(rest, y[i], m)
  /\ \A rest \in Bytes : \E c, x : \A v : Item(kind, In(parts[k] \o rest, v, m), items[k]) = Bad(c, x, m)
  /\ \A i \in k + 1 .. n : \A c, v : Item(kind, Bad(c, v, m), items[i]) = Bad(c, z[i], m)

LEMMA EachBreaks ==
  ASSUME NEW kind, NEW n \in Nat, NEW items, NEW parts, NEW y, NEW z, NEW m, NEW k,
         Breaks(kind, items, parts, y, z, m, n, k), NEW rest \in Bytes
  PROVE  /\ FlattenSeq(parts) \in Bytes
         /\ \E c, x : \A v : Each(kind, In(FlattenSeq(parts) \o rest, v, m), items) = Bad(c, x, m)
<1>1. ByteParts(parts, n) /\ k \in 1 .. n
  BY DEF Breaks
<1>2. FlattenSeq(parts) \in Bytes /\ \E w : Written(parts, n, rest, w)
  BY <1>1, WrittenIs
<1>3. PICK w : Written(parts, n, rest, w)
  BY <1>2
<1>4. w[k] \in Bytes
  BY <1>1, <1>3 DEF Written
<1>5. PICK c, x : \A v : Item(kind, In(parts[k] \o w[k], v, m), items[k]) = Bad(c, x, m)
  BY <1>4 DEF Breaks
<1> DEFINE bb == [i \in 0 .. n |-> IF i < k THEN w[i] ELSE c]
           ff == [i \in 0 .. n |-> IF i < k THEN 0 ELSE 1]
           yy == [i \in 1 .. n |-> IF i < k THEN y[i] ELSE IF i = k THEN x ELSE z[i]]
           mm == Still(n, m)
<1>6. \A i \in 0 .. n : /\ mm[i] = m
                        /\ i < k => bb[i] = w[i] /\ ff[i] = 0
                        /\ ~(i < k) => bb[i] = c /\ ff[i] = 1
  BY DEF Still
<1>7. \A i \in 1 .. n : yy[i] = IF i < k THEN y[i] ELSE IF i = k THEN x ELSE z[i]
  OBVIOUS
<1>8. Tuple(yy, n)
  BY DEF Tuple
<1> HIDE DEF bb, ff, yy, mm
<1>9. ASSUME NEW i \in 1 .. n, NEW u
      PROVE  Item(kind, At(bb[i - 1], ff[i - 1], u, mm[i - 1]), items[i]) = At(bb[i], ff[i], yy[i], mm[i])
  <2>0. i - 1 \in 0 .. n /\ i \in 0 .. n
    OBVIOUS
  <2>1. CASE i < k
    <3>1. w[i - 1] = parts[i] \o w[i] /\ w[i] \in Bytes
      BY <1>3, <2>0 DEF Written
    <3>2. i \in 1 .. k - 1 /\ i - 1 < k
      BY <1>1, <2>1
    <3>3. Item(kind, In(w[i - 1], u, m), items[i]) = In(w[i], y[i], m)
      BY <3>1, <3>2 DEF Breaks
    <3>4. At(bb[i - 1], ff[i - 1], u, mm[i - 1]) = In(w[i - 1], u, m)
      BY <1>6, <2>0, <3>2 DEF At
    <3>5. At(bb[i], ff[i], yy[i], mm[i]) = In(w[i], y[i], m)
      BY <1>6, <1>7, <2>0, <2>1 DEF At
    <3> QED BY <3>3, <3>4, <3>5
  <2>2. CASE i = k
    <3>1. w[i - 1] = parts[i] \o w[i]
      BY <1>3, <2>0 DEF Written
    <3>2. i - 1 < k /\ ~(i < k)
      BY <1>1, <2>2
    <3>3. Item(kind, In(w[i - 1], u, m), items[i]) = Bad(c, x, m)
      BY <1>5, <2>2, <3>1
    <3>4. At(bb[i - 1], ff[i - 1], u, mm[i - 1]) = In(w[i - 1], u, m)
      BY <1>6, <2>0, <3>2 DEF At
    <3>5. At(bb[i], ff[i], yy[i], mm[i]) = Bad(c, x, m)
      BY <1>6, <1>7, <2>0, <2>2, <3>2 DEF At
    <3> QED BY <3>3, <3>4, <3>5
  <2>3. CASE i > k
    <3>1. i \in k + 1 .. n /\ ~(i - 1 < k) /\ ~(i < k) /\ i /= k
      BY <1>1, <2>3
    <3>2. Item(kind, Bad(c, u, m), items[i]) = Bad(c, z[i], m)
      BY <3>1 DEF Breaks
    <3>3. At(bb[i - 1], ff[i - 1], u, mm[i - 1]) = Bad(c, u, m)
      BY <1>6, <2>0, <3>1 DEF At
    <3>4. At(bb[i], ff[i], yy[i], mm[i]) = Bad(c, z[i], m)
      BY <1>6, <1>7, <2>0, <3>1 DEF At
    <3> QED BY <3>2, <3>3, <3>4
  <2> QED BY <1>1, <2>1, <2>2, <2>3
<1>10. Reads(kind, items, bb, ff, yy, mm, n)
  BY <1>8, <1>9 DEF Reads, Breaks
<1>11. ASSUME NEW v
       PROVE  Each(kind, In(FlattenSeq(parts) \o rest, v, m), items) = Bad(c, yy, m)
  <2>1. Each(kind, At(bb[0], ff[0], v, mm[0]), items) = At(bb[n], ff[n], yy, mm[n])
    <3>1. LoopEnds(kind, items, bb, ff, yy, mm, n, v)
      BY <1>10, EachReads
    <3> QED BY <3>1 DEF LoopEnds
  <2>2. 0 \in 0 .. n /\ n \in 0 .. n /\ 0 < k /\ ~(n < k) /\ w[0] = FlattenSeq(parts) \o rest
    BY <1>1, <1>3 DEF Written
  <2>3. At(bb[0], ff[0], v, mm[0]) = In(w[0], v, m)
    BY <1>6, <2>2 DEF At
  <2>4. At(bb[n], ff[n], yy, mm[n]) = Bad(c, yy, m)
    BY <1>6, <2>2 DEF At
  <2> QED BY <2>1, <2>2, <2>3, <2>4
<1> QED BY <1>2, <1>11

BreaksScalar(items, parts, y, z, m, n, k) ==
  /\ Len(items) = n /\ ByteParts(parts, n) /\ k \in 1 .. n
  /\ \A i \in 1 .. k - 1 : \A v : \A rest \in Bytes :
       ReadScalar(In(parts[i] \o rest, v, m), items[i]) = In(rest, y[i], m)
  /\ \A rest \in Bytes : \E c, x : \A v : ReadScalar(In(parts[k] \o rest, v, m), items[k]) = Bad(c, x, m)
  /\ \A i \in k + 1 .. n : \A c, v : ReadScalar(Bad(c, v, m), items[i]) = Bad(c, z[i], m)

LEMMA BreakScalar ==
  ASSUME NEW n \in Nat, NEW items, NEW parts, NEW y, NEW z, NEW m, NEW k,
         BreaksScalar(items, parts, y, z, m, n, k), NEW rest \in Bytes
  PROVE  /\ FlattenSeq(parts) \in Bytes
         /\ \E c, x : \A v : ReadEach(In(FlattenSeq(parts) \o rest, v, m), items, ReadScalar) = Bad(c, x, m)
<1>1. ASSUME NEW i \in 1 .. k - 1, NEW v, NEW more \in Bytes
      PROVE  Item("Scalar", In(parts[i] \o more, v, m), items[i]) = In(more, y[i], m)
  <2>1. ReadScalar(In(parts[i] \o more, v, m), items[i]) = In(more, y[i], m)
    BY DEF BreaksScalar
  <2> QED BY <2>1, ItemIs, Zenon
<1>2. ASSUME NEW more \in Bytes
      PROVE  \E c, x : \A v : Item("Scalar", In(parts[k] \o more, v, m), items[k]) = Bad(c, x, m)
  <2>1. PICK c, x : \A v : ReadScalar(In(parts[k] \o more, v, m), items[k]) = Bad(c, x, m)
    BY DEF BreaksScalar
  <2>2. ASSUME NEW v PROVE Item("Scalar", In(parts[k] \o more, v, m), items[k]) = Bad(c, x, m)
    BY <2>1, ItemIs, Zenon
  <2> QED BY <2>2
<1>3. ASSUME NEW i \in k + 1 .. n, NEW c, NEW v
      PROVE  Item("Scalar", Bad(c, v, m), items[i]) = Bad(c, z[i], m)
  <2>1. ReadScalar(Bad(c, v, m), items[i]) = Bad(c, z[i], m)
    BY DEF BreaksScalar
  <2> QED BY <2>1, ItemIs, Zenon
<1>4. Breaks("Scalar", items, parts, y, z, m, n, k)
  BY <1>1, <1>2, <1>3, Zenon DEF BreaksScalar, Breaks
<1> QED BY <1>4, EachBreaks, NamedScalar

BreaksValue(items, parts, y, z, m, n, k) ==
  /\ Len(items) = n /\ ByteParts(parts, n) /\ k \in 1 .. n
  /\ \A i \in 1 .. k - 1 : \A v : \A rest \in Bytes :
       ReadValue(In(parts[i] \o rest, v, m), items[i]) = In(rest, y[i], m)
  /\ \A rest \in Bytes : \E c, x : \A v : ReadValue(In(parts[k] \o rest, v, m), items[k]) = Bad(c, x, m)
  /\ \A i \in k + 1 .. n : \A c, v : ReadValue(Bad(c, v, m), items[i]) = Bad(c, z[i], m)

LEMMA BreakValue ==
  ASSUME NEW n \in Nat, NEW items, NEW parts, NEW y, NEW z, NEW m, NEW k,
         BreaksValue(items, parts, y, z, m, n, k), NEW rest \in Bytes
  PROVE  /\ FlattenSeq(parts) \in Bytes
         /\ \E c, x : \A v : ReadEach(In(FlattenSeq(parts) \o rest, v, m), items, ReadValue) = Bad(c, x, m)
<1>1. ASSUME NEW i \in 1 .. k - 1, NEW v, NEW more \in Bytes
      PROVE  Item("Value", In(parts[i] \o more, v, m), items[i]) = In(more, y[i], m)
  <2>1. ReadValue(In(parts[i] \o more, v, m), items[i]) = In(more, y[i], m)
    BY DEF BreaksValue
  <2> QED BY <2>1, ItemIs, Zenon
<1>2. ASSUME NEW more \in Bytes
      PROVE  \E c, x : \A v : Item("Value", In(parts[k] \o more, v, m), items[k]) = Bad(c, x, m)
  <2>1. PICK c, x : \A v : ReadValue(In(parts[k] \o more, v, m), items[k]) = Bad(c, x, m)
    BY DEF BreaksValue
  <2>2. ASSUME NEW v PROVE Item("Value", In(parts[k] \o more, v, m), items[k]) = Bad(c, x, m)
    BY <2>1, ItemIs, Zenon
  <2> QED BY <2>2
<1>3. ASSUME NEW i \in k + 1 .. n, NEW c, NEW v
      PROVE  Item("Value", Bad(c, v, m), items[i]) = Bad(c, z[i], m)
  <2>1. ReadValue(Bad(c, v, m), items[i]) = Bad(c, z[i], m)
    BY DEF BreaksValue
  <2> QED BY <2>1, ItemIs, Zenon
<1>4. Breaks("Value", items, parts, y, z, m, n, k)
  BY <1>1, <1>2, <1>3, Zenon DEF BreaksValue, Breaks
<1> QED BY <1>4, EachBreaks, NamedValue

BreaksRow(items, parts, y, z, m, n, k) ==
  /\ Len(items) = n /\ ByteParts(parts, n) /\ k \in 1 .. n
  /\ \A i \in 1 .. k - 1 : \A v : \A rest \in Bytes :
       ReadRow(In(parts[i] \o rest, v, m), items[i]) = In(rest, y[i], m)
  /\ \A rest \in Bytes : \E c, x : \A v : ReadRow(In(parts[k] \o rest, v, m), items[k]) = Bad(c, x, m)
  /\ \A i \in k + 1 .. n : \A c, v : ReadRow(Bad(c, v, m), items[i]) = Bad(c, z[i], m)

LEMMA BreakRow ==
  ASSUME NEW n \in Nat, NEW items, NEW parts, NEW y, NEW z, NEW m, NEW k,
         BreaksRow(items, parts, y, z, m, n, k), NEW rest \in Bytes
  PROVE  /\ FlattenSeq(parts) \in Bytes
         /\ \E c, x : \A v : ReadEach(In(FlattenSeq(parts) \o rest, v, m), items, ReadRow) = Bad(c, x, m)
<1>1. ASSUME NEW i \in 1 .. k - 1, NEW v, NEW more \in Bytes
      PROVE  Item("Row", In(parts[i] \o more, v, m), items[i]) = In(more, y[i], m)
  <2>1. ReadRow(In(parts[i] \o more, v, m), items[i]) = In(more, y[i], m)
    BY DEF BreaksRow
  <2> QED BY <2>1, ItemIs, Zenon
<1>2. ASSUME NEW more \in Bytes
      PROVE  \E c, x : \A v : Item("Row", In(parts[k] \o more, v, m), items[k]) = Bad(c, x, m)
  <2>1. PICK c, x : \A v : ReadRow(In(parts[k] \o more, v, m), items[k]) = Bad(c, x, m)
    BY DEF BreaksRow
  <2>2. ASSUME NEW v PROVE Item("Row", In(parts[k] \o more, v, m), items[k]) = Bad(c, x, m)
    BY <2>1, ItemIs, Zenon
  <2> QED BY <2>2
<1>3. ASSUME NEW i \in k + 1 .. n, NEW c, NEW v
      PROVE  Item("Row", Bad(c, v, m), items[i]) = Bad(c, z[i], m)
  <2>1. ReadRow(Bad(c, v, m), items[i]) = Bad(c, z[i], m)
    BY DEF BreaksRow
  <2> QED BY <2>1, ItemIs, Zenon
<1>4. Breaks("Row", items, parts, y, z, m, n, k)
  BY <1>1, <1>2, <1>3, Zenon DEF BreaksRow, Breaks
<1> QED BY <1>4, EachBreaks, NamedRow

-----------------------------------------------------------------------------
(***************************************************************************)
(* Values: scalars and arrays.                                             *)
(***************************************************************************)
Flagged(code, v) == WriteFlagged(v, WriteScalar(code, v))

Fine(code, v) == v # Null => ScalarOK(code, v)

(* A value the driver knows the type of. *)
Known(code, v) == code \in Scalars \/ v = Null

LEMMA FlaggedKnown ==
  ASSUME NEW code, NEW v, Fine(code, v), Known(code, v)
  PROVE  ScalarReads(code, Flagged(code, v), Got(code, v))
<1>1. CASE v = Null
  BY <1>1, ScalarNull DEF Flagged, WriteFlagged, Got
<1>2. CASE v # Null
  <2>1. ScalarReads(code, <<1>> \o WriteScalar(code, v), Got(code, v))
    BY <1>2, ScalarOf DEF Fine, Known
  <2> QED BY <1>2, <2>1 DEF Flagged, WriteFlagged
<1> QED BY <1>1, <1>2

ScalarFails(code, b) ==
  /\ b \in Bytes
  /\ \A rest \in Bytes : \A m : \E c, x : \A u : ReadScalar(In(b \o rest, u, m), code) = Bad(c, x, m)

LEMMA FlaggedUnknown ==
  ASSUME NEW v, v # Null, ScalarOK("geometry", v)
  PROVE  ScalarFails("geometry", Flagged("geometry", v))
<1>1. v \in Bytes
  BY DEF ScalarOK, Months, Seconds, OfNums, Bytes, Byte
<1>2. Flagged("geometry", v) = <<1>> \o v
  BY DEF Flagged, WriteFlagged, WriteScalar, OfNums, Months, Seconds
<1>3. <<1>> \o v \in Bytes
  BY <1>1, FlagOne DEF Bytes
<1>4. ASSUME NEW rest \in Bytes, NEW m
      PROVE  \E c, x : \A u : ReadScalar(In((<<1>> \o v) \o rest, u, m), "geometry") = Bad(c, x, m)
  <2>1. \A u : ReadScalar(In((<<1>> \o v) \o rest, u, m), "geometry") = Bad(v \o rest, Null, m)
    BY <1>1, ScalarUnknown
  <2> QED BY <2>1
<1> DEFINE b == <<1>> \o v
<1> HIDE DEF b
<1>5. ScalarFails("geometry", b)
  BY <1>3, <1>4 DEF ScalarFails, b
<1> QED BY <1>2, <1>5 DEF b

LEMMA TimesIs ==
  ASSUME NEW n \in Nat, NEW x
  PROVE  Len(Times(n, x)) = n /\ \A i \in 1 .. n : Times(n, x)[i] = x
<1>1. Tuple(Times(n, x), n)
  BY DEF Times, Tuple
<1>2. Len(Times(n, x)) = n
  BY <1>1, TupleLen
<1>3. \A i \in 1 .. n : Times(n, x)[i] = x
  BY DEF Times
<1> QED BY <1>2, <1>3

(* The elements of an array. *)
ElementsOK(base, e) ==
  /\ base \in Scalars \cup {"geometry"} /\ IsSeq(e)
  /\ \A i \in 1 .. Len(e) : Fine(base, e[i])

FlaggedAll(base, e) == [i \in 1 .. Len(e) |-> Flagged(base, e[i])]
GotAll(base, e)  == [i \in 1 .. Len(e) |-> Got(base, e[i])]

LEMMA ElementParts ==
  ASSUME NEW base, NEW e, ElementsOK(base, e)
  PROVE  ByteParts(FlaggedAll(base, e), Len(e))
<1>1. ASSUME NEW i \in 1 .. Len(e) PROVE Flagged(base, e[i]) \in Bytes
  <2>1. CASE Known(base, e[i])
    BY <2>1, FlaggedKnown DEF ElementsOK, ScalarReads
  <2>2. CASE ~Known(base, e[i])
    BY <2>2, FlaggedUnknown DEF ElementsOK, ScalarFails, Known, Fine
  <2> QED BY <2>1, <2>2
<1>2. \A i \in 1 .. Len(e) : FlaggedAll(base, e)[i] = Flagged(base, e[i])
  BY DEF FlaggedAll
<1>3. Tuple(FlaggedAll(base, e), Len(e))
  BY DEF FlaggedAll, Tuple
<1> QED BY <1>1, <1>2, <1>3 DEF ByteParts

LEMMA ElementsKnown ==
  ASSUME NEW base, NEW e, ElementsOK(base, e), \A i \in 1 .. Len(e) : Known(base, e[i]),
         NEW rest \in Bytes, NEW u, NEW m
  PROVE  ReadEach(In(FlattenSeq(FlaggedAll(base, e)) \o rest, u, m), Times(Len(e), base), ReadScalar)
           = In(rest, GotAll(base, e), m)
<1> DEFINE n == Len(e)  parts == FlaggedAll(base, e)  y == GotAll(base, e)  items == Times(n, base)
<1>1. n \in Nat
  BY DEF ElementsOK, IsSeq
<1>2. Len(items) = n /\ \A i \in 1 .. n : items[i] = base
  BY <1>1, TimesIs
<1>3. Tuple(y, n) /\ \A i \in 1 .. n : y[i] = Got(base, e[i])
  BY DEF GotAll, Tuple
<1>4. ByteParts(parts, n) /\ \A i \in 1 .. n : parts[i] = Flagged(base, e[i])
  BY ElementParts DEF FlaggedAll
<1> HIDE DEF parts, y, items
<1>5. ASSUME NEW i \in 1 .. n, NEW v, NEW more \in Bytes
      PROVE  ReadScalar(In(parts[i] \o more, v, m), items[i]) = In(more, y[i], m)
  <2>1. ScalarReads(base, Flagged(base, e[i]), Got(base, e[i]))
    BY FlaggedKnown DEF ElementsOK
  <2> QED BY <1>2, <1>3, <1>4, <2>1 DEF ScalarReads
<1>6. AllScalar(items, parts, y, m, n)
  BY <1>2, <1>3, <1>4, <1>5 DEF AllScalar
<1>7. ReadEach(In(FlattenSeq(parts) \o rest, u, m), items, ReadScalar) = In(rest, y, m)
  BY <1>1, <1>6, LoopScalar
<1> QED BY <1>7 DEF parts, y, items

LEMMA ElementsUnknown ==
  ASSUME NEW base, NEW e, ElementsOK(base, e), \E i \in 1 .. Len(e) : ~Known(base, e[i]),
         NEW rest \in Bytes, NEW m
  PROVE  \E c, x : \A u : ReadEach(In(FlattenSeq(FlaggedAll(base, e)) \o rest, u, m),
                                   Times(Len(e), base), ReadScalar) = Bad(c, x, m)
<1> DEFINE n == Len(e)  parts == FlaggedAll(base, e)  items == Times(n, base)
           T == {i \in 1 .. n : ~Known(base, e[i])}  z == [i \in 1 .. n |-> Null]
<1>1. n \in Nat
  BY DEF ElementsOK, IsSeq
<1>2. Len(items) = n /\ \A i \in 1 .. n : items[i] = base
  BY <1>1, TimesIs
<1>3. ByteParts(parts, n) /\ \A i \in 1 .. n : parts[i] = Flagged(base, e[i])
  BY ElementParts DEF FlaggedAll
<1>4. PICK k \in T : \A i \in T : k <= i
  <2>1. T \in SUBSET Nat /\ T # {}
    OBVIOUS
  <2> HIDE DEF T
  <2> QED BY <2>1, LeastNat
<1>5. k \in 1 .. n /\ ~Known(base, e[k]) /\ base = "geometry"
  BY DEF Known, ElementsOK
<1>6. \A i \in 1 .. k - 1 : i \in 1 .. n /\ Known(base, e[i])
  BY <1>1, <1>4, <1>5
<1> DEFINE y == GotAll(base, e)
<1>7. \A i \in 1 .. n : y[i] = Got(base, e[i])
  BY DEF GotAll
<1>8. \A i \in 1 .. n : z[i] = Null
  OBVIOUS
<1> HIDE DEF parts, y, items, T, z
<1>9. ASSUME NEW i \in 1 .. k - 1, NEW v, NEW more \in Bytes
      PROVE  ReadScalar(In(parts[i] \o more, v, m), items[i]) = In(more, y[i], m)
  <2>0. i \in 1 .. n /\ Known(base, e[i])
    BY <1>6
  <2>1. ScalarReads(base, Flagged(base, e[i]), Got(base, e[i]))
    BY <2>0, FlaggedKnown DEF ElementsOK
  <2>2. parts[i] = Flagged(base, e[i]) /\ items[i] = base /\ y[i] = Got(base, e[i])
    BY <1>2, <1>3, <1>7, <2>0
  <2> QED BY <2>1, <2>2 DEF ScalarReads
<1>10. ASSUME NEW more \in Bytes
       PROVE  \E c, x : \A v : ReadScalar(In(parts[k] \o more, v, m), items[k]) = Bad(c, x, m)
  <2>1. ScalarFails(base, Flagged(base, e[k]))
    BY <1>5, FlaggedUnknown DEF ElementsOK, Known, Fine
  <2>2. parts[k] = Flagged(base, e[k]) /\ items[k] = base
    BY <1>2, <1>3, <1>5
  <2> QED BY <2>1, <2>2 DEF ScalarFails
<1>11. ASSUME NEW i \in k + 1 .. n, NEW c, NEW v
       PROVE  ReadScalar(Bad(c, v, m), items[i]) = Bad(c, z[i], m)
  <2>1. i \in 1 .. n
    BY <1>1, <1>5
  <2> QED BY <1>8, <2>1, ScalarAfterError
<1>12. BreaksScalar(items, parts, y, z, m, n, k)
  BY <1>2, <1>3, <1>5, <1>9, <1>10, <1>11 DEF BreaksScalar
<1>13. \E c, x : \A u : ReadEach(In(FlattenSeq(parts) \o rest, u, m), items, ReadScalar) = Bad(c, x, m)
  BY <1>1, <1>12, BreakScalar
<1> QED BY <1>13 DEF parts, items

GotValue(t, v) ==
  IF t.code # "array" \/ v = Null THEN Got(t.code, v) ELSE <<GotAll(t.base, v[1])>>

(* A value the driver can read. *)
KnownValue(t, v) ==
  \/ v = Null
  \/ t.code # "array" /\ t.code \in Scalars
  \/ t.code = "array" /\ \A i \in 1 .. Len(v[1]) : Known(t.base, v[1][i])

ValueReads(t, b, y) ==
  /\ b \in Bytes
  /\ \A rest \in Bytes : \A u, m : ReadValue(In(b \o rest, u, m), t) = In(rest, y, m)

ValueFails(t, b) ==
  /\ b \in Bytes
  /\ \A rest \in Bytes : \A m : \E c, x : \A u : ReadValue(In(b \o rest, u, m), t) = Bad(c, x, m)

GoodType(t) ==
  /\ t.code \in Scalars \cup {"array", "geometry"}
  /\ t.code = "array" => t.base \in Scalars \cup {"geometry"}

LEMMA ValueAfterError ==
  ASSUME NEW b, NEW v, NEW m, NEW t
  PROVE  ReadValue(Bad(b, v, m), t) = Bad(b, Null, m)
<1>1. CASE t.code # "array"
  BY <1>1, ScalarAfterError DEF ReadValue
<1>2. CASE t.code = "array"
  <2> DEFINE r == Bad(b, v, m)  q == Bad(b, 0, m)
  <2>1. ReadU8(r) = q
    BY ReadU8AfterError
  <2>2. q.val = 0 /\ SetVal(q, Null) = Bad(b, Null, m)
    BY Broken, BrokenMap
  <2> HIDE DEF r, q
  <2>3. ReadValue(r, t) = SetVal(q, Null)
    BY <1>2, <2>1, <2>2 DEF ReadValue, flagged
  <2> QED BY <2>2, <2>3 DEF r
<1> QED BY <1>1, <1>2

LEMMA NullValue ==
  ASSUME NEW t
  PROVE  ValueReads(t, <<0>>, Null)
<1>1. <<0>> \in Bytes
  <2>1. 0 \in Byte
    BY DEF Byte
  <2> QED BY <2>1, OneByte
<1>2. ASSUME NEW rest \in Bytes, NEW u, NEW m
      PROVE  ReadValue(In(<<0>> \o rest, u, m), t) = In(rest, Null, m)
  <2> DEFINE r == In(<<0>> \o rest, u, m)  q == In(rest, 0, m)
  <2>1. ReadU8(r) = q
    BY FlagZero
  <2>2. q.val = 0 /\ SetVal(q, Null) = In(rest, Null, m)
    BY Input, InputMap
  <2> HIDE DEF r, q
  <2>3. ReadValue(r, t) = SetVal(q, Null)
    BY <2>1, <2>2 DEF ReadValue, ReadScalar, flagged
  <2> QED BY <2>2, <2>3 DEF r
<1> QED BY <1>1, <1>2 DEF ValueReads

(* The bytes of an array after its flag, and the input after its length. *)
ArrayBytes(base, e) == PutNum(IntLen, Len(e)) \o FlattenSeq(FlaggedAll(base, e))

LEMMA ArrayLength ==
  ASSUME NEW base, NEW e, ElementsOK(base, e), Fits(IntLen, Len(e)), NEW rest \in Bytes, NEW u, NEW m
  PROVE  /\ ArrayBytes(base, e) \in Bytes
         /\ FlattenSeq(FlaggedAll(base, e)) \o rest \in Bytes
         /\ ReadU8(In((<<1>> \o ArrayBytes(base, e)) \o rest, u, m)) = In(ArrayBytes(base, e) \o rest, 1, m)
         /\ ReadNum(In(ArrayBytes(base, e) \o rest, 1, m), IntLen)
              = In(FlattenSeq(FlaggedAll(base, e)) \o rest, Len(e), m)
<1> DEFINE p == PutNum(IntLen, Len(e))  f == FlattenSeq(FlaggedAll(base, e))
<1>1. Len(e) \in Nat /\ ByteParts(FlaggedAll(base, e), Len(e))
  BY ElementParts DEF ElementsOK, IsSeq
<1>2. f \in Bytes
  BY <1>1, WrittenIs
<1>3. p \in Bytes
  BY <1>1, Lengths, PutNumFacts DEF Bytes
<1> HIDE DEF f
<1>4. p \o f \in Bytes /\ (p \o f) \o rest = p \o (f \o rest) /\ f \o rest \in Bytes
  BY <1>2, <1>3, Assoc DEF Bytes
<1>5. ReadNum(In(p \o (f \o rest), 1, m), IntLen) = In(f \o rest, Len(e), m)
  BY <1>4, Lengths, ReadNumOf
<1> HIDE DEF p
<1>6. ArrayBytes(base, e) = p \o f
  BY DEF ArrayBytes, p, f
<1>7. ReadU8(In((<<1>> \o (p \o f)) \o rest, u, m)) = In((p \o f) \o rest, 1, m)
  <2> DEFINE pf == p \o f
  <2>1. pf \in Bytes
    BY <1>4
  <2> HIDE DEF pf
  <2>2. ReadU8(In((<<1>> \o pf) \o rest, u, m)) = In(pf \o rest, 1, m)
    BY <2>1, FlagOne
  <2> QED BY <2>2 DEF pf
<1> QED BY <1>4, <1>5, <1>6, <1>7 DEF f

LEMMA ArrayInput ==
  ASSUME NEW t, t.code = "array", NEW e, ElementsOK(t.base, e), Fits(IntLen, Len(e)),
         NEW rest \in Bytes, NEW u, NEW m
  PROVE  LET q == ReadEach(In(FlattenSeq(FlaggedAll(t.base, e)) \o rest, Len(e), m), Times(Len(e), t.base), ReadScalar)
         IN  ReadValue(In((<<1>> \o ArrayBytes(t.base, e)) \o rest, u, m), t)
               = RowInput(q.buf, q.err, <<q.val>>, q.meta)
<1> DEFINE r == In((<<1>> \o ArrayBytes(t.base, e)) \o rest, u, m)
           g == In(ArrayBytes(t.base, e) \o rest, 1, m)
           n == In(FlattenSeq(FlaggedAll(t.base, e)) \o rest, Len(e), m)
<1>1. ReadU8(r) = g /\ ReadNum(g, IntLen) = n
  BY ArrayLength
<1>2. g.val = 1 /\ n.val = Len(e)
  BY Input
<1> HIDE DEF r, g, n
<1>3. ReadValue(r, t) = readElements(n, t.base)
  BY <1>1, <1>2 DEF ReadValue, flagged
<1> DEFINE q == ReadEach(n, Times(Len(e), t.base), ReadScalar)
<1>4. readElements(n, t.base) = RowInput(q.buf, q.err, <<q.val>>, q.meta)
  BY <1>2 DEF readElements, MapVal
<1> QED BY <1>3, <1>4 DEF r, n

LEMMA ArrayKnown ==
  ASSUME NEW t, t.code = "array", NEW e, ElementsOK(t.base, e), Fits(IntLen, Len(e)),
         \A i \in 1 .. Len(e) : Known(t.base, e[i])
  PROVE  ValueReads(t, <<1>> \o ArrayBytes(t.base, e), <<GotAll(t.base, e)>>)
<1> DEFINE b == ArrayBytes(t.base, e)  y == GotAll(t.base, e)
<1>1. b \in Bytes
  <2>1. <<>> \in Bytes
    BY DEF Bytes
  <2> QED BY <2>1, ArrayLength
<1>2. <<1>> \o b \in Bytes
  BY <1>1, FlagOne DEF Bytes
<1>3. ASSUME NEW rest \in Bytes, NEW u, NEW m
      PROVE  ReadValue(In((<<1>> \o b) \o rest, u, m), t) = In(rest, <<y>>, m)
  <2> DEFINE q == In(rest, y, m)
  <2>1. ReadEach(In(FlattenSeq(FlaggedAll(t.base, e)) \o rest, Len(e), m), Times(Len(e), t.base), ReadScalar) = q
    BY ElementsKnown
  <2>2. q.val = y /\ RowInput(q.buf, q.err, <<y>>, q.meta) = In(rest, <<y>>, m)
    BY InVal
  <2> HIDE DEF q
  <2>3. ReadValue(In((<<1>> \o b) \o rest, u, m), t) = RowInput(q.buf, q.err, <<q.val>>, q.meta)
    BY <2>1, ArrayInput
  <2> QED BY <2>2, <2>3
<1> HIDE DEF b, y
<1>4. ValueReads(t, <<1>> \o b, <<y>>)
  BY <1>2, <1>3 DEF ValueReads
<1> QED BY <1>4 DEF b, y

LEMMA ArrayUnknown ==
  ASSUME NEW t, t.code = "array", NEW e, ElementsOK(t.base, e), Fits(IntLen, Len(e)),
         \E i \in 1 .. Len(e) : ~Known(t.base, e[i])
  PROVE  ValueFails(t, <<1>> \o ArrayBytes(t.base, e))
<1> DEFINE b == ArrayBytes(t.base, e)
<1>1. b \in Bytes
  <2>1. <<>> \in Bytes
    BY DEF Bytes
  <2> QED BY <2>1, ArrayLength
<1>2. <<1>> \o b \in Bytes
  BY <1>1, FlagOne DEF Bytes
<1>3. ASSUME NEW rest \in Bytes, NEW m
      PROVE  \E c, x : \A u : ReadValue(In((<<1>> \o b) \o rest, u, m), t) = Bad(c, x, m)
  <2>1. PICK c, y : \A u : ReadEach(In(FlattenSeq(FlaggedAll(t.base, e)) \o rest, u, m),
                                   Times(Len(e), t.base), ReadScalar) = Bad(c, y, m)
    BY ElementsUnknown
  <2> DEFINE q == Bad(c, y, m)
  <2>2. q.val = y /\ RowInput(q.buf, q.err, <<y>>, q.meta) = Bad(c, <<y>>, m)
    BY BadVal
  <2> HIDE DEF q
  <2>3. ASSUME NEW u PROVE ReadValue(In((<<1>> \o b) \o rest, u, m), t) = Bad(c, <<y>>, m)
    <3>1. ReadEach(In(FlattenSeq(FlaggedAll(t.base, e)) \o rest, Len(e), m), Times(Len(e), t.base), ReadScalar) = q
      BY <2>1 DEF q
    <3>2. ReadValue(In((<<1>> \o b) \o rest, u, m), t) = RowInput(q.buf, q.err, <<q.val>>, q.meta)
      BY <3>1, ArrayInput
    <3> QED BY <2>2, <3>2
  <2> QED BY <2>3
<1> DEFINE w == <<1>> \o b
<1> HIDE DEF b, w
<1>4. ValueFails(t, w)
  BY <1>2, <1>3 DEF ValueFails, w
<1> QED BY <1>4 DEF b, w

(* An array is its elements. *)
LEMMA ArrayValue ==
  ASSUME NEW t, t.code = "array", GoodType(t), NEW v, v # Null, ValueOK(t, v)
  PROVE  /\ ElementsOK(t.base, v[1]) /\ Fits(IntLen, Len(v[1]))
         /\ WriteValue(t, v) = <<1>> \o ArrayBytes(t.base, v[1])
<1> DEFINE e == v[1]
<1>1. IsSeq(e) /\ Fits(IntLen, Len(e)) /\ \A i \in DOMAIN e : e[i] # Null => ScalarOK(t.base, e[i])
  BY DEF ValueOK
<1>2. DOMAIN e = 1 .. Len(e)
  BY <1>1, SeqIsTuple
<1>3. t.base \in Scalars \cup {"geometry"}
  BY DEF GoodType
<1>4. ElementsOK(t.base, e)
  BY <1>1, <1>2, <1>3 DEF ElementsOK, Fine
<1>5. FlaggedAll(t.base, e) = [i \in DOMAIN e |-> WriteFlagged(e[i], WriteScalar(t.base, e[i]))]
  BY <1>2 DEF FlaggedAll, Flagged
<1>6. WriteValue(t, v) = <<1>> \o (PutNum(IntLen, Len(e)) \o FlattenSeq(FlaggedAll(t.base, e)))
  BY <1>5 DEF WriteValue, WriteFlagged
<1> QED BY <1>1, <1>4, <1>6 DEF ArrayBytes

LEMMA ValueKnown ==
  ASSUME NEW t, GoodType(t), NEW v, ValueOK(t, v), KnownValue(t, v)
  PROVE  ValueReads(t, WriteValue(t, v), GotValue(t, v))
<1>1. CASE v = Null
  BY <1>1, NullValue DEF WriteValue, WriteFlagged, GotValue, Got
<1>2. CASE v # Null /\ t.code # "array"
  <2>1. ScalarReads(t.code, Flagged(t.code, v), Got(t.code, v))
    BY <1>2, FlaggedKnown DEF ValueOK, KnownValue, Known, Fine
  <2>2. WriteValue(t, v) = Flagged(t.code, v) /\ GotValue(t, v) = Got(t.code, v)
    BY <1>2 DEF WriteValue, Flagged, GotValue
  <2>3. ASSUME NEW r PROVE ReadValue(r, t) = ReadScalar(r, t.code)
    BY <1>2 DEF ReadValue
  <2> QED BY <2>1, <2>2, <2>3 DEF ValueReads, ScalarReads
<1>3. CASE v # Null /\ t.code = "array"
  <2>1. /\ ElementsOK(t.base, v[1]) /\ Fits(IntLen, Len(v[1]))
        /\ WriteValue(t, v) = <<1>> \o ArrayBytes(t.base, v[1])
    BY <1>3, ArrayValue
  <2>2. \A i \in 1 .. Len(v[1]) : Known(t.base, v[1][i])
    BY <1>3 DEF KnownValue
  <2>3. GotValue(t, v) = <<GotAll(t.base, v[1])>>
    BY <1>3 DEF GotValue
  <2>4. ValueReads(t, <<1>> \o ArrayBytes(t.base, v[1]), <<GotAll(t.base, v[1])>>)
    BY <1>3, <2>1, <2>2, ArrayKnown
  <2> QED BY <2>1, <2>3, <2>4
<1> QED BY <1>1, <1>2, <1>3

LEMMA ValueUnknown ==
  ASSUME NEW t, GoodType(t), NEW v, ValueOK(t, v), ~KnownValue(t, v)
  PROVE  ValueFails(t, WriteValue(t, v)) /\ v # Null /\ "geometry" \in {t.code, t.base}
<1>1. v # Null
  BY DEF KnownValue
<1>2. CASE t.code # "array"
  <2>1. t.code = "geometry"
    BY <1>2 DEF KnownValue, GoodType
  <2>2. ScalarFails(t.code, Flagged(t.code, v))
    BY <1>1, <1>2, <2>1, FlaggedUnknown DEF ValueOK
  <2>3. WriteValue(t, v) = Flagged(t.code, v)
    BY <1>2 DEF WriteValue, Flagged
  <2>4. ASSUME NEW r PROVE ReadValue(r, t) = ReadScalar(r, t.code)
    BY <1>2 DEF ReadValue
  <2> DEFINE b == Flagged(t.code, v)
  <2> HIDE DEF b
  <2>5. ValueFails(t, b)
    BY <2>2, <2>4 DEF ValueFails, ScalarFails, b
  <2> QED BY <1>1, <2>1, <2>3, <2>5 DEF b
<1>3. CASE t.code = "array"
  <2>1. /\ ElementsOK(t.base, v[1]) /\ Fits(IntLen, Len(v[1]))
        /\ WriteValue(t, v) = <<1>> \o ArrayBytes(t.base, v[1])
    BY <1>1, <1>3, ArrayValue
  <2>2. \E i \in 1 .. Len(v[1]) : ~Known(t.base, v[1][i])
    BY <1>3 DEF KnownValue
  <2>3. ValueFails(t, <<1>> \o ArrayBytes(t.base, v[1]))
    BY <1>3, <2>1, <2>2, ArrayUnknown
  <2>4. t.base = "geometry"
    BY <1>3, <2>2 DEF GoodType, Known
  <2> QED BY <1>1, <2>1, <2>3, <2>4
<1> QED BY <1>2, <1>3

-----------------------------------------------------------------------------
(***************************************************************************)
(* Rows and row sets.                                                      *)
(***************************************************************************)
GoodTypes(types) == IsSeq(types) /\ \A j \in 1 .. Len(types) : GoodType(types[j])

RowOK(types, row) == GoodTypes(types) /\ \A j \in 1 .. Len(types) : ValueOK(types[j], row[j])

KnownRow(types, row) == \A j \in 1 .. Len(types) : KnownValue(types[j], row[j])

RowParts(types, row) == [j \in 1 .. Len(types) |-> WriteValue(types[j], row[j])]
RowBytes(types, row) == FlattenSeq(RowParts(types, row))
GotRow(types, row)   == [j \in 1 .. Len(types) |-> GotValue(types[j], row[j])]

RowReads(types, b, y) ==
  /\ b \in Bytes
  /\ \A rest \in Bytes : \A u, m : ReadRow(In(b \o rest, u, m), types) = In(rest, y, m)

RowFails(types, b) ==
  /\ b \in Bytes
  /\ \A rest \in Bytes : \A m : \E c, x : \A u : ReadRow(In(b \o rest, u, m), types) = Bad(c, x, m)

LEMMA RowPartsOK ==
  ASSUME NEW types, NEW row, RowOK(types, row)
  PROVE  /\ Len(types) \in Nat /\ ByteParts(RowParts(types, row), Len(types))
         /\ \A j \in 1 .. Len(types) : RowParts(types, row)[j] = WriteValue(types[j], row[j])
<1>1. ASSUME NEW j \in 1 .. Len(types) PROVE WriteValue(types[j], row[j]) \in Bytes
  <2>1. CASE KnownValue(types[j], row[j])
    BY <2>1, ValueKnown DEF RowOK, GoodTypes, ValueReads
  <2>2. CASE ~KnownValue(types[j], row[j])
    BY <2>2, ValueUnknown DEF RowOK, GoodTypes, ValueFails
  <2> QED BY <2>1, <2>2
<1>2. \A j \in 1 .. Len(types) : RowParts(types, row)[j] = WriteValue(types[j], row[j])
  BY DEF RowParts
<1>3. Tuple(RowParts(types, row), Len(types))
  BY DEF RowParts, Tuple
<1>4. Len(types) \in Nat
  BY DEF RowOK, GoodTypes, IsSeq
<1> QED BY <1>1, <1>2, <1>3, <1>4 DEF ByteParts

LEMMA RowKnown ==
  ASSUME NEW types, NEW row, RowOK(types, row), KnownRow(types, row)
  PROVE  RowReads(types, RowBytes(types, row), GotRow(types, row))
<1> DEFINE n == Len(types)  parts == RowParts(types, row)  y == GotRow(types, row)  b == FlattenSeq(parts)
<1>1. n \in Nat /\ ByteParts(parts, n) /\ \A j \in 1 .. n : parts[j] = WriteValue(types[j], row[j])
  BY RowPartsOK
<1>2. Tuple(y, n) /\ \A j \in 1 .. n : y[j] = GotValue(types[j], row[j])
  BY DEF GotRow, Tuple
<1> HIDE DEF parts, y
<1>3. ASSUME NEW j \in 1 .. n, NEW v, NEW more \in Bytes, NEW m
      PROVE  ReadValue(In(parts[j] \o more, v, m), types[j]) = In(more, y[j], m)
  <2>1. ValueReads(types[j], WriteValue(types[j], row[j]), GotValue(types[j], row[j]))
    BY ValueKnown DEF RowOK, GoodTypes, KnownRow
  <2> QED BY <1>1, <1>2, <2>1 DEF ValueReads
<1>4. ASSUME NEW m PROVE AllValue(types, parts, y, m, n)
  BY <1>1, <1>2, <1>3 DEF AllValue
<1>5. b \in Bytes
  <2>1. <<>> \in Bytes
    BY DEF Bytes
  <2> QED BY <1>1, <2>1, WrittenIs
<1>6. ASSUME NEW rest \in Bytes, NEW u, NEW m
      PROVE  ReadRow(In(b \o rest, u, m), types) = In(rest, y, m)
  BY <1>1, <1>4, LoopValue DEF ReadRow
<1> HIDE DEF b
<1>7. RowReads(types, b, y)
  BY <1>5, <1>6 DEF RowReads
<1> QED BY <1>7 DEF RowBytes, b, parts, y

LEMMA RowUnknown ==
  ASSUME NEW types, NEW row, RowOK(types, row), ~KnownRow(types, row)
  PROVE  RowFails(types, RowBytes(types, row))
<1> DEFINE n == Len(types)  parts == RowParts(types, row)  y == GotRow(types, row)  b == FlattenSeq(parts)
           T == {j \in 1 .. n : ~KnownValue(types[j], row[j])}  z == [j \in 1 .. n |-> Null]
<1>1. n \in Nat /\ ByteParts(parts, n) /\ \A j \in 1 .. n : parts[j] = WriteValue(types[j], row[j])
  BY RowPartsOK
<1>2. \A j \in 1 .. n : y[j] = GotValue(types[j], row[j])
  BY DEF GotRow
<1>3. \A j \in 1 .. n : z[j] = Null
  OBVIOUS
<1>4. PICK k \in T : \A i \in T : k <= i
  <2>1. T \in SUBSET Nat /\ T # {}
    BY DEF KnownRow
  <2> HIDE DEF T
  <2> QED BY <2>1, LeastNat
<1>5. k \in 1 .. n /\ ~KnownValue(types[k], row[k])
  OBVIOUS
<1>6. \A i \in 1 .. k - 1 : i \in 1 .. n /\ KnownValue(types[i], row[i])
  BY <1>1, <1>4, <1>5
<1> HIDE DEF parts, y, z, T
<1>7. ASSUME NEW j \in 1 .. k - 1, NEW v, NEW more \in Bytes, NEW m
      PROVE  ReadValue(In(parts[j] \o more, v, m), types[j]) = In(more, y[j], m)
  <2>0. j \in 1 .. n /\ KnownValue(types[j], row[j])
    BY <1>6
  <2>1. ValueReads(types[j], WriteValue(types[j], row[j]), GotValue(types[j], row[j]))
    BY <2>0, ValueKnown DEF RowOK, GoodTypes
  <2>2. parts[j] = WriteValue(types[j], row[j]) /\ y[j] = GotValue(types[j], row[j])
    BY <1>1, <1>2, <2>0
  <2> QED BY <2>1, <2>2 DEF ValueReads
<1>8. ASSUME NEW more \in Bytes, NEW m
      PROVE  \E c, x : \A v : ReadValue(In(parts[k] \o more, v, m), types[k]) = Bad(c, x, m)
  <2>1. ValueFails(types[k], WriteValue(types[k], row[k]))
    BY <1>5, ValueUnknown DEF RowOK, GoodTypes
  <2>2. parts[k] = WriteValue(types[k], row[k])
    BY <1>1, <1>5
  <2> QED BY <2>1, <2>2 DEF ValueFails
<1>9. ASSUME NEW i \in k + 1 .. n, NEW c, NEW v, NEW m
      PROVE  ReadValue(Bad(c, v, m), types[i]) = Bad(c, z[i], m)
  <2>1. i \in 1 .. n
    BY <1>1, <1>5
  <2> QED BY <1>3, <2>1, ValueAfterError
<1> HIDE DEF n
<1>10. ASSUME NEW m PROVE BreaksValue(types, parts, y, z, m, n, k)
  <2>1. \A i \in 1 .. k - 1 : \A v : \A rest \in Bytes :
          ReadValue(In(parts[i] \o rest, v, m), types[i]) = In(rest, y[i], m)
    BY <1>7
  <2>2. \A rest \in Bytes : \E c, x : \A v : ReadValue(In(parts[k] \o rest, v, m), types[k]) = Bad(c, x, m)
    BY <1>8
  <2>3. \A i \in k + 1 .. n : \A c, v : ReadValue(Bad(c, v, m), types[i]) = Bad(c, z[i], m)
    BY <1>9
  <2>4. Len(types) = n /\ ByteParts(parts, n) /\ k \in 1 .. n
    BY <1>1, <1>5 DEF n
  <2> QED BY <2>1, <2>2, <2>3, <2>4 DEF BreaksValue
<1>11. b \in Bytes
  <2>1. <<>> \in Bytes
    BY DEF Bytes
  <2> QED BY <1>1, <2>1, WrittenIs
<1>12. ASSUME NEW rest \in Bytes, NEW m
       PROVE  \E c, x : \A u : ReadRow(In(b \o rest, u, m), types) = Bad(c, x, m)
  BY <1>1, <1>10, BreakValue DEF ReadRow
<1> HIDE DEF b
<1>13. RowFails(types, b)
  BY <1>11, <1>12 DEF RowFails
<1> QED BY <1>13 DEF RowBytes, b, parts

HasLen(s, n) == Len(s) = n

LEMMA RowAfterError ==
  ASSUME NEW types, NEW nn \in Nat, HasLen(types, nn), NEW c, NEW v, NEW m
  PROVE  ReadRow(Bad(c, v, m), types) = Bad(c, [j \in 1 .. nn |-> Null], m)
<1> DEFINE yy == [j \in 1 .. nn |-> Null]
           bb == Still(nn, c)  ff == Still(nn, 1)  mm == Still(nn, m)
<1>1. \A i \in 0 .. nn : bb[i] = c /\ ff[i] = 1 /\ mm[i] = m
  BY DEF Still
<1>2. Tuple(yy, nn) /\ \A i \in 1 .. nn : yy[i] = Null
  BY DEF Tuple
<1> HIDE DEF yy, bb, ff, mm
<1>3. ASSUME NEW i \in 0 .. nn, NEW u PROVE At(bb[i], ff[i], u, mm[i]) = Bad(c, u, m)
  BY <1>1 DEF At
<1>4. ASSUME NEW i \in 1 .. nn, NEW u
      PROVE  ReadValue(At(bb[i - 1], ff[i - 1], u, mm[i - 1]), types[i]) = At(bb[i], ff[i], yy[i], mm[i])
  <2>1. i - 1 \in 0 .. nn /\ i \in 0 .. nn
    OBVIOUS
  <2>2. At(bb[i - 1], ff[i - 1], u, mm[i - 1]) = Bad(c, u, m)
    BY <1>3, <2>1
  <2>3. At(bb[i], ff[i], yy[i], mm[i]) = Bad(c, Null, m)
    BY <1>2, <1>3, <2>1
  <2> QED BY <2>2, <2>3, ValueAfterError
<1>5. ReadsValue(types, bb, ff, yy, mm, nn)
  BY <1>2, <1>4 DEF ReadsValue, HasLen
<1>6. ReadEach(At(bb[0], ff[0], v, mm[0]), types, ReadValue) = At(bb[nn], ff[nn], yy, mm[nn])
  BY <1>5, EachValue
<1>7. At(bb[0], ff[0], v, mm[0]) = Bad(c, v, m) /\ At(bb[nn], ff[nn], yy, mm[nn]) = Bad(c, yy, m)
  <2>1. 0 \in 0 .. nn /\ nn \in 0 .. nn
    OBVIOUS
  <2> QED BY <1>3, <2>1
<1> QED BY <1>6, <1>7 DEF ReadRow, yy

RowSetOK(types, rows) ==
  /\ IsSeq(rows) /\ Fits(IntLen, Len(rows)) /\ GoodTypes(types)
  /\ \A i \in 1 .. Len(rows) : RowOK(types, rows[i])

KnownRows(types, rows) == \A i \in 1 .. Len(rows) : KnownRow(types, rows[i])

RowsParts(types, rows) == [i \in 1 .. Len(rows) |-> RowBytes(types, rows[i])]
GotRows(types, rows) == [i \in 1 .. Len(rows) |-> GotRow(types, rows[i])]

LEMMA RowsPartsOK ==
  ASSUME NEW types, NEW rows, RowSetOK(types, rows)
  PROVE  /\ Len(rows) \in Nat /\ ByteParts(RowsParts(types, rows), Len(rows))
         /\ \A i \in 1 .. Len(rows) : RowsParts(types, rows)[i] = RowBytes(types, rows[i])
<1>1. ASSUME NEW i \in 1 .. Len(rows) PROVE RowBytes(types, rows[i]) \in Bytes
  <2>1. CASE KnownRow(types, rows[i])
    BY <2>1, RowKnown DEF RowSetOK, RowReads
  <2>2. CASE ~KnownRow(types, rows[i])
    BY <2>2, RowUnknown DEF RowSetOK, RowFails
  <2> QED BY <2>1, <2>2
<1>2. \A i \in 1 .. Len(rows) : RowsParts(types, rows)[i] = RowBytes(types, rows[i])
  BY DEF RowsParts
<1>3. Tuple(RowsParts(types, rows), Len(rows))
  BY DEF RowsParts, Tuple
<1>4. Len(rows) \in Nat
  BY DEF RowSetOK, IsSeq
<1> QED BY <1>1, <1>2, <1>3, <1>4 DEF ByteParts

LEMMA PutRowsIs ==
  ASSUME NEW types, NEW rows, RowSetOK(types, rows)
  PROVE  PutRows(types, rows) = PutNum(IntLen, Len(rows)) \o FlattenSeq(RowsParts(types, rows))
<1>1. DOMAIN rows = 1 .. Len(rows) /\ DOMAIN types = 1 .. Len(types)
  BY SeqIsTuple DEF RowSetOK, GoodTypes
<1> QED BY <1>1 DEF PutRows, Flat, RowsParts, RowBytes, RowParts

(* The count of the rows is read first. *)
LEMMA RowsCount ==
  ASSUME NEW types, NEW rows, RowSetOK(types, rows), NEW rest \in Bytes, NEW u, NEW m, m.types = types
  PROVE  /\ PutRows(types, rows) \in Bytes
         /\ readRowSetSimple(In(PutRows(types, rows) \o rest, u, m))
              = ReadEach(In(FlattenSeq(RowsParts(types, rows)) \o rest, Len(rows), m), Times(Len(rows), types), ReadRow)
<1> DEFINE p == PutNum(IntLen, Len(rows))  f == FlattenSeq(RowsParts(types, rows))
<1>1. Len(rows) \in Nat /\ Fits(IntLen, Len(rows)) /\ ByteParts(RowsParts(types, rows), Len(rows))
  BY RowsPartsOK DEF RowSetOK
<1>2. f \in Bytes
  BY <1>1, WrittenIs
<1>3. p \in Bytes
  BY <1>1, Lengths, PutNumFacts DEF Bytes
<1> HIDE DEF f
<1>4. p \o f \in Bytes /\ (p \o f) \o rest = p \o (f \o rest) /\ f \o rest \in Bytes
  BY <1>2, <1>3, Assoc DEF Bytes
<1>5. ReadNum(In(p \o (f \o rest), u, m), IntLen) = In(f \o rest, Len(rows), m)
  BY <1>1, <1>4, Lengths, ReadNumOf
<1> HIDE DEF p
<1>6. PutRows(types, rows) = p \o f
  BY PutRowsIs DEF p, f
<1> DEFINE n == In(f \o rest, Len(rows), m)
<1>7. n.val = Len(rows) /\ n.meta = m
  BY Input
<1> HIDE DEF n
<1>8. readCounted(n) = ReadEach(n, Times(Len(rows), types), ReadRow)
  BY <1>7 DEF readCounted
<1>9. readRowSetSimple(In((p \o f) \o rest, u, m)) = readCounted(n)
  BY <1>4, <1>5 DEF readRowSetSimple, n
<1> QED BY <1>4, <1>6, <1>8, <1>9 DEF n, f

LEMMA RowsKnown ==
  ASSUME NEW types, NEW rows, RowSetOK(types, rows), KnownRows(types, rows),
         NEW rest \in Bytes, NEW u, NEW m, m.types = types
  PROVE  readRowSetSimple(In(PutRows(types, rows) \o rest, u, m)) = In(rest, GotRows(types, rows), m)
<1> DEFINE n == Len(rows)  parts == RowsParts(types, rows)  y == GotRows(types, rows)  items == Times(n, types)
<1>1. n \in Nat /\ ByteParts(parts, n) /\ \A i \in 1 .. n : parts[i] = RowBytes(types, rows[i])
  BY RowsPartsOK
<1>2. Tuple(y, n) /\ \A i \in 1 .. n : y[i] = GotRow(types, rows[i])
  BY DEF GotRows, Tuple
<1>3. Len(items) = n /\ \A i \in 1 .. n : items[i] = types
  BY <1>1, TimesIs
<1> HIDE DEF parts, y, items
<1>4. ASSUME NEW i \in 1 .. n, NEW v, NEW more \in Bytes
      PROVE  ReadRow(In(parts[i] \o more, v, m), items[i]) = In(more, y[i], m)
  <2>1. RowReads(types, RowBytes(types, rows[i]), GotRow(types, rows[i]))
    BY RowKnown DEF RowSetOK, KnownRows
  <2> QED BY <1>1, <1>2, <1>3, <2>1 DEF RowReads
<1>5. AllRow(items, parts, y, m, n)
  BY <1>1, <1>2, <1>3, <1>4 DEF AllRow
<1>6. ReadEach(In(FlattenSeq(parts) \o rest, Len(rows), m), items, ReadRow) = In(rest, y, m)
  BY <1>1, <1>5, LoopRow
<1> QED BY <1>6, RowsCount DEF parts, y, items

LEMMA RowsUnknown ==
  ASSUME NEW types, NEW rows, RowSetOK(types, rows), ~KnownRows(types, rows),
         NEW rest \in Bytes, NEW m, m.types = types
  PROVE  \E c, x : \A u : readRowSetSimple(In(PutRows(types, rows) \o rest, u, m)) = Bad(c, x, m)
<1> DEFINE n == Len(rows)  parts == RowsParts(types, rows)  y == GotRows(types, rows)  items == Times(n, types)
           T == {i \in 1 .. n : ~KnownRow(types, rows[i])}
           w == [j \in 1 .. Len(types) |-> Null]  z == [i \in 1 .. n |-> w]
<1>1. n \in Nat /\ ByteParts(parts, n) /\ \A i \in 1 .. n : parts[i] = RowBytes(types, rows[i])
  BY RowsPartsOK
<1>2. \A i \in 1 .. n : y[i] = GotRow(types, rows[i])
  BY DEF GotRows
<1>3. Len(items) = n /\ \A i \in 1 .. n : items[i] = types
  BY <1>1, TimesIs
<1>4. PICK k \in T : \A i \in T : k <= i
  <2>1. T \in SUBSET Nat /\ T # {}
    BY DEF KnownRows
  <2> HIDE DEF T
  <2> QED BY <2>1, LeastNat
<1>5. k \in 1 .. n /\ ~KnownRow(types, rows[k])
  OBVIOUS
<1>6. \A i \in 1 .. k - 1 : i \in 1 .. n /\ KnownRow(types, rows[i])
  BY <1>1, <1>4, <1>5
<1> HIDE DEF w
<1>7. \A i \in 1 .. n : z[i] = w
  OBVIOUS
<1> HIDE DEF parts, y, items, z, T
<1>8. ASSUME NEW i \in 1 .. k - 1, NEW v, NEW more \in Bytes
      PROVE  ReadRow(In(parts[i] \o more, v, m), items[i]) = In(more, y[i], m)
  <2>0. i \in 1 .. n /\ KnownRow(types, rows[i])
    BY <1>6
  <2>1. RowReads(types, RowBytes(types, rows[i]), GotRow(types, rows[i]))
    BY <2>0, RowKnown DEF RowSetOK
  <2>2. parts[i] = RowBytes(types, rows[i]) /\ items[i] = types /\ y[i] = GotRow(types, rows[i])
    BY <1>1, <1>2, <1>3, <2>0
  <2> QED BY <2>1, <2>2 DEF RowReads
<1>9. ASSUME NEW more \in Bytes
      PROVE  \E c, x : \A v : ReadRow(In(parts[k] \o more, v, m), items[k]) = Bad(c, x, m)
  <2>1. RowFails(types, RowBytes(types, rows[k]))
    BY <1>5, RowUnknown DEF RowSetOK
  <2>2. parts[k] = RowBytes(types, rows[k]) /\ items[k] = types
    BY <1>1, <1>3, <1>5
  <2> QED BY <2>1, <2>2 DEF RowFails
<1>10. ASSUME NEW i \in k + 1 .. n, NEW c, NEW v
       PROVE  ReadRow(Bad(c, v, m), items[i]) = Bad(c, z[i], m)
  <2>1. i \in 1 .. n
    BY <1>1, <1>5
  <2>2. items[i] = types /\ z[i] = w
    BY <1>3, <1>7, <2>1
  <2>3. Len(types) \in Nat
    BY DEF RowSetOK, GoodTypes, IsSeq
  <2> QED BY <2>2, <2>3, RowAfterError DEF w, HasLen
<1>11. BreaksRow(items, parts, y, z, m, n, k)
  BY <1>1, <1>3, <1>5, <1>8, <1>9, <1>10 DEF BreaksRow
<1>12. PICK c, x : \A u : ReadEach(In(FlattenSeq(parts) \o rest, u, m), items, ReadRow) = Bad(c, x, m)
  BY <1>1, <1>11, BreakRow
<1>13. ASSUME NEW u PROVE readRowSetSimple(In(PutRows(types, rows) \o rest, u, m)) = Bad(c, x, m)
  BY <1>12, RowsCount DEF parts, items
<1> QED BY <1>13

-----------------------------------------------------------------------------
(***************************************************************************)
(* Blocks of rows.                                                         *)
(***************************************************************************)
LEMMA ReadNumTriple ==
  ASSUME NEW k \in Nat \ {0}, NEW l \in Nat \ {0}, NEW h \in Nat \ {0},
         NEW x, NEW y, NEW z, Fits(k, x), Fits(l, y), Fits(h, z), NEW rest \in Bytes, NEW v, NEW m
  PROVE  /\ PutNums(<<k, l, h>>, <<x, y, z>>) \in Bytes
         /\ ReadEach(In(PutNums(<<k, l, h>>, <<x, y, z>>) \o rest, v, m), <<k, l, h>>, ReadNum)
              = In(rest, <<x, y, z>>, m)
<1> DEFINE ws == <<k, l, h>>  ts == <<x, y, z>>
<1>1. NumsOK(ws, ts, 3)
  <2>1. Tuple(ts, 3)
    BY DEF Tuple
  <2>2. Len(ws) = 3 /\ \A i \in 1 .. 3 : ws[i] \in Nat \ {0} /\ Fits(ws[i], ts[i])
    OBVIOUS
  <2> HIDE DEF ws, ts
  <2> QED BY <2>1, <2>2 DEF NumsOK
<1> HIDE DEF ws, ts
<1>2. /\ PutNums(ws, ts) \in Bytes
      /\ ReadEach(In(PutNums(ws, ts) \o rest, v, m), ws, ReadNum) = In(rest, ts, m)
  BY <1>1, PutNumsOf
<1> QED BY <1>2 DEF ws, ts

BlockOK(head) ==
  /\ head = <<head[1], head[2], head[3]>>
  /\ Fits(LongLen, head[1]) /\ Fits(IntLen, head[2]) /\ Fits(IntLen, head[3])

PutHead(head) == PutNums(<<LongLen, IntLen, IntLen>>, head)

LEMMA ReadHead ==
  ASSUME NEW head, BlockOK(head), NEW rest \in Bytes, NEW v, NEW m
  PROVE  /\ PutHead(head) \in Bytes
         /\ ReadEach(In(PutHead(head) \o rest, v, m), <<LongLen, IntLen, IntLen>>, ReadNum)
              = In(rest, head, m)
<1> DEFINE x == head[1]  y == head[2]  z == head[3]
<1>1. Fits(LongLen, x) /\ Fits(IntLen, y) /\ Fits(IntLen, z)
  BY DEF BlockOK
<1>2. head = <<x, y, z>>
  BY DEF BlockOK
<1> HIDE DEF x, y, z
<1> DEFINE ts == <<x, y, z>>  ws == <<LongLen, IntLen, IntLen>>
<1>3. /\ PutNums(ws, ts) \in Bytes
      /\ ReadEach(In(PutNums(ws, ts) \o rest, v, m), ws, ReadNum) = In(rest, ts, m)
  BY <1>1, Lengths, ReadNumTriple
<1> HIDE DEF ts
<1> QED BY <1>2, <1>3 DEF PutHead, ts

PutBlock(types, head, rows) == PutHead(head) \o PutRows(types, rows)

(* What readRowSet returns, by what the rows after the head return. *)
LEMMA BlockInput ==
  ASSUME NEW types, NEW rows, RowSetOK(types, rows), NEW head, BlockOK(head),
         NEW rest \in Bytes, NEW u, NEW m, m.types = types
  PROVE  LET q == readRowSetSimple(In(PutRows(types, rows) \o rest, head, m))
         IN  /\ PutBlock(types, head, rows) \in Bytes
             /\ readRowSet(In(PutBlock(types, head, rows) \o rest, u, m))
                  = RowInput(q.buf, q.err, <<head, q.val>>, q.meta)
<1> DEFINE p == PutHead(head)  b == PutRows(types, rows)
<1>1. b \in Bytes
  BY RowsCount
<1>2. p \in Bytes
  BY ReadHead
<1> HIDE DEF p, b
<1>3. p \o b \in Bytes /\ (p \o b) \o rest = p \o (b \o rest) /\ b \o rest \in Bytes
  BY <1>1, <1>2, Assoc DEF Bytes
<1> DEFINE h == In(b \o rest, head, m)
<1>4. ReadEach(In(p \o (b \o rest), u, m), <<LongLen, IntLen, IntLen>>, ReadNum) = h
  BY <1>3, ReadHead DEF p
<1>5. h.val = head
  BY Input
<1> HIDE DEF h
<1>6. readRowSet(In(p \o (b \o rest), u, m)) = readBlock(h)
  BY <1>4 DEF readRowSet
<1> DEFINE q == readRowSetSimple(h)
<1>7. readBlock(h) = RowInput(q.buf, q.err, <<head, q.val>>, q.meta)
  BY <1>5 DEF readBlock, MapVal
<1> QED BY <1>3, <1>6, <1>7 DEF PutBlock, p, b, h

LEMMA BlockKnown ==
  ASSUME NEW types, NEW rows, RowSetOK(types, rows), KnownRows(types, rows), NEW head, BlockOK(head),
         NEW rest \in Bytes, NEW u, NEW m, m.types = types
  PROVE  readRowSet(In(PutBlock(types, head, rows) \o rest, u, m)) = In(rest, <<head, GotRows(types, rows)>>, m)
<1> DEFINE g == GotRows(types, rows)  q == In(rest, g, m)
<1>1. readRowSetSimple(In(PutRows(types, rows) \o rest, head, m)) = q
  BY RowsKnown
<1>2. q.val = g /\ RowInput(q.buf, q.err, <<head, g>>, q.meta) = In(rest, <<head, g>>, m)
  BY InVal
<1> HIDE DEF q, g
<1>3. readRowSet(In(PutBlock(types, head, rows) \o rest, u, m)) = RowInput(q.buf, q.err, <<head, q.val>>, q.meta)
  BY <1>1, BlockInput
<1> QED BY <1>2, <1>3 DEF g

LEMMA BlockUnknown ==
  ASSUME NEW types, NEW rows, RowSetOK(types, rows), ~KnownRows(types, rows), NEW head, BlockOK(head),
         NEW rest \in Bytes, NEW m, m.types = types
  PROVE  \E c, x : \A u : readRowSet(In(PutBlock(types, head, rows) \o rest, u, m)) = Bad(c, x, m)
<1>1. PICK c, g : \A u : readRowSetSimple(In(PutRows(types, rows) \o rest, u, m)) = Bad(c, g, m)
  BY RowsUnknown
<1> DEFINE q == Bad(c, g, m)
<1>2. q.val = g /\ RowInput(q.buf, q.err, <<head, g>>, q.meta) = Bad(c, <<head, g>>, m)
  BY BadVal
<1> HIDE DEF q
<1>3. ASSUME NEW u PROVE readRowSet(In(PutBlock(types, head, rows) \o rest, u, m)) = Bad(c, <<head, g>>, m)
  <2>1. readRowSetSimple(In(PutRows(types, rows) \o rest, head, m)) = q
    BY <1>1 DEF q
  <2>2. readRowSet(In(PutBlock(types, head, rows) \o rest, u, m)) = RowInput(q.buf, q.err, <<head, q.val>>, q.meta)
    BY <2>1, BlockInput
  <2> QED BY <1>2, <2>2
<1> QED BY <1>3

-----------------------------------------------------------------------------
(***************************************************************************)
(* Column types.                                                           *)
(***************************************************************************)
AllCodes == Scalars \cup {"array", "geometry"}

LEMMA CodesAre ==
  /\ DOMAIN Codes = 1 .. 29
  /\ \A code \in AllCodes \ {"all"} : \E i \in 1 .. 29 : Codes[i] = code
<1>1. DOMAIN Codes = 1 .. 29
  BY DEF Codes
<1>2. /\ Codes[1] = "char" /\ Codes[2] = "small" /\ Codes[3] = "int" /\ Codes[4] = "big"
      /\ Codes[5] = "bool" /\ Codes[6] = "dec" /\ Codes[7] = "date" /\ Codes[8] = "time"
      /\ Codes[9] = "timetz" /\ Codes[10] = "ts" /\ Codes[11] = "tstz" /\ Codes[12] = "bin"
      /\ Codes[13] = "bit" /\ Codes[14] = "lob" /\ Codes[15] = "array" /\ Codes[16] = "geometry"
      /\ Codes[17] = "year" /\ Codes[18] = "month" /\ Codes[19] = "year_to_month" /\ Codes[20] = "day"
      /\ Codes[21] = "hour" /\ Codes[22] = "minute" /\ Codes[23] = "second" /\ Codes[24] = "day_to_hour"
      /\ Codes[25] = "day_to_minute" /\ Codes[26] = "day_to_second" /\ Codes[27] = "hour_to_minute"
      /\ Codes[28] = "hour_to_second" /\ Codes[29] = "minute_to_second"
  BY DEF Codes
<1>3. ASSUME NEW code \in AllCodes \ {"all"} PROVE \E i \in 1 .. 29 : Codes[i] = code
  <2>0. \/ code = "char" \/ code = "small" \/ code = "int" \/ code = "big"
        \/ code = "bool" \/ code = "dec" \/ code = "date" \/ code = "time"
        \/ code = "timetz" \/ code = "ts" \/ code = "tstz" \/ code = "bin"
        \/ code = "bit" \/ code = "lob" \/ code = "array" \/ code = "geometry"
        \/ code = "year" \/ code = "month" \/ code = "year_to_month" \/ code = "day"
        \/ code = "hour" \/ code = "minute" \/ code = "second" \/ code = "day_to_hour"
        \/ code = "day_to_minute" \/ code = "day_to_second" \/ code = "hour_to_minute" \/ code = "hour_to_second"
        \/ code = "minute_to_second"
    BY DEF AllCodes, Scalars, Months, Seconds
  <2>1. \/ code = Codes[1] \/ code = Codes[2] \/ code = Codes[3] \/ code = Codes[4] \/ code = Codes[5]
        \/ code = Codes[6] \/ code = Codes[7] \/ code = Codes[8] \/ code = Codes[9] \/ code = Codes[10]
        \/ code = Codes[11] \/ code = Codes[12] \/ code = Codes[13] \/ code = Codes[14] \/ code = Codes[15]
        \/ code = Codes[16] \/ code = Codes[17] \/ code = Codes[18] \/ code = Codes[19] \/ code = Codes[20]
        \/ code = Codes[21] \/ code = Codes[22] \/ code = Codes[23] \/ code = Codes[24] \/ code = Codes[25]
        \/ code = Codes[26] \/ code = Codes[27] \/ code = Codes[28] \/ code = Codes[29]
    BY <1>2, <2>0
  <2> QED BY <2>1
<1> QED BY <1>1, <1>3

LEMMA CodeNames ==
  ASSUME NEW code \in AllCodes
  PROVE  CodeOf(code) \in 0 .. 127 /\ NameOf(CodeOf(code)) = code
<1>1. CASE code = "all"
  <2>1. CodeOf(code) = 0
    BY <1>1 DEF CodeOf
  <2>2. 0 \notin DOMAIN Codes
    BY CodesAre
  <2> QED BY <1>1, <2>1, <2>2 DEF NameOf
<1>2. CASE code # "all"
  <2>1. \E i \in DOMAIN Codes : Codes[i] = code
    BY <1>2, CodesAre
  <2>2. CodeOf(code) \in DOMAIN Codes /\ Codes[CodeOf(code)] = code
    BY <1>2, <2>1 DEF CodeOf
  <2>3. CodeOf(code) \in 0 .. 127
    BY <2>2, CodesAre
  <2> QED BY <2>2, <2>3 DEF NameOf
<1> QED BY <1>1, <1>2

LEMMA ReadCode ==
  ASSUME NEW code \in AllCodes, NEW rest \in Bytes, NEW u, NEW m
  PROVE  /\ PutNum(ShortLen, CodeOf(code)) \in Bytes
         /\ ReadNum(In(PutNum(ShortLen, CodeOf(code)) \o rest, u, m), ShortLen) = In(rest, CodeOf(code), m)
         /\ NameOf(CodeOf(code)) = code
<1> DEFINE x == CodeOf(code)
<1>1. x \in 0 .. 127 /\ NameOf(x) = code
  BY CodeNames
<1> HIDE DEF x
<1>2. Fits(ShortLen, x) /\ x \in Int
  BY <1>1, Lengths, SmallFits
<1>3. PutNum(ShortLen, x) \in Bytes
  BY <1>2, Lengths, PutNumFacts DEF Bytes
<1>4. ReadNum(In(PutNum(ShortLen, x) \o rest, u, m), ShortLen) = In(rest, x, m)
  BY <1>2, Lengths, ReadNumOf
<1> QED BY <1>1, <1>3, <1>4 DEF x

SimpleReads(b, t) ==
  /\ b \in Bytes
  /\ \A rest \in Bytes : \A u, m : ReadDataTypeSimple(In(b \o rest, u, m)) = In(rest, t, m)

LEMMA SimpleTypeOf ==
  ASSUME NEW t, NEW s, s = TypeOf(t.code, t.base), t.code \in AllCodes,
         t.base \in IF t.code = "array" THEN AllCodes ELSE {"all"}
  PROVE  SimpleReads(WriteDataTypeSimple(t), s)
<1> DEFINE code == t.code  base == t.base  p == PutNum(ShortLen, CodeOf(code))
<1>0. <<>> \in Bytes
  BY DEF Bytes
<1>1. CASE code # "array"
  <2>1. p \in Bytes
    BY <1>0, ReadCode
  <2>2. WriteDataTypeSimple(t) = p
    <3>1. WriteDataTypeSimple(t) = p \o <<>>
      BY <1>1 DEF WriteDataTypeSimple
    <3> HIDE DEF p
    <3> QED BY <2>1, <3>1, NoneBefore DEF Bytes
  <2>3. s = TypeOf(code, "all")
    BY <1>1
  <2>4. ASSUME NEW rest \in Bytes, NEW u, NEW m
        PROVE  ReadDataTypeSimple(In(p \o rest, u, m)) = In(rest, s, m)
    <3> DEFINE q == In(rest, CodeOf(code), m)
    <3>1. ReadNum(In(p \o rest, u, m), ShortLen) = q /\ NameOf(CodeOf(code)) = code
      BY ReadCode
    <3>2. q.val = CodeOf(code) /\ SetVal(q, s) = In(rest, s, m)
      BY Input, InputMap
    <3> HIDE DEF q
    <3>3. readBase(q) = SetVal(q, TypeOf(code, "all"))
      BY <1>1, <3>1, <3>2 DEF readBase
    <3> QED BY <2>3, <3>1, <3>2, <3>3 DEF ReadDataTypeSimple
  <2> HIDE DEF p
  <2> QED BY <2>1, <2>2, <2>4 DEF SimpleReads
<1>2. CASE code = "array"
  <2> DEFINE pb == PutNum(ShortLen, CodeOf(base))
  <2>1. p \in Bytes /\ pb \in Bytes
    BY <1>0, <1>2, ReadCode
  <2>2. WriteDataTypeSimple(t) = p \o pb
    BY <1>2 DEF WriteDataTypeSimple
  <2>3. p \o pb \in Bytes
    BY <2>1 DEF Bytes
  <2>4. ASSUME NEW rest \in Bytes, NEW u, NEW m
        PROVE  ReadDataTypeSimple(In((p \o pb) \o rest, u, m)) = In(rest, s, m)
    <3>0. (p \o pb) \o rest = p \o (pb \o rest) /\ pb \o rest \in Bytes
      BY <2>1, Assoc DEF Bytes
    <3> DEFINE q == In(pb \o rest, CodeOf(code), m)  h == In(rest, CodeOf(base), m)
    <3>1. ReadNum(In(p \o (pb \o rest), u, m), ShortLen) = q /\ NameOf(CodeOf(code)) = code
      BY <3>0, ReadCode
    <3>2. q.val = CodeOf(code)
      BY Input
    <3>3. ReadNum(q, ShortLen) = h /\ NameOf(CodeOf(base)) = base
      BY <1>2, ReadCode
    <3>4. h.val = CodeOf(base) /\ RowInput(h.buf, h.err, s, h.meta) = In(rest, s, m)
      BY InVal
    <3> HIDE DEF q, h
    <3>5. readBase(q) = RowInput(h.buf, h.err, TypeOf("array", NameOf(h.val)), h.meta)
      BY <1>2, <3>1, <3>2, <3>3 DEF readBase, MapVal
    <3>6. TypeOf("array", NameOf(h.val)) = s
      BY <1>2, <3>3, <3>4
    <3>7. ReadDataTypeSimple(In((p \o pb) \o rest, u, m)) = readBase(q)
      BY <3>0, <3>1 DEF ReadDataTypeSimple
    <3> QED BY <3>4, <3>5, <3>6, <3>7
  <2> DEFINE w == p \o pb
  <2> HIDE DEF w
  <2>5. SimpleReads(w, s)
    BY <2>3, <2>4 DEF SimpleReads, w
  <2> QED BY <2>2, <2>5 DEF w
<1> QED BY <1>1, <1>2

FullReads(b, t) ==
  /\ b \in Bytes
  /\ \A rest \in Bytes : \A u, m : ReadDataType(In(b \o rest, u, m)) = In(rest, t, m)

LEMMA SimpleTypeReads ==
  ASSUME NEW t, SimpleTypeOK(t)
  PROVE  SimpleReads(WriteDataTypeSimple(t), t)
<1>1. t = TypeOf(t.code, t.base) /\ t.code \in AllCodes
  BY DEF SimpleTypeOK, AllCodes
<1>2. t.base \in IF t.code = "array" THEN AllCodes ELSE {"all"}
  BY DEF SimpleTypeOK, AllCodes
<1> QED BY <1>1, <1>2, SimpleTypeOf

LEMMA FullTypeReads ==
  ASSUME NEW t, FullTypeOK(t)
  PROVE  FullReads(WriteDataType(t), t)
<1> DEFINE code == t.code  base == t.base  prec == t.prec  scale == t.scale
           s == TypeOf(code, base)
           a == WriteDataTypeSimple(t)
           p == PutNums(<<LongLen, IntLen>>, <<prec, scale>>)
<1>1. s.code = code /\ s.base = base
  BY DEF TypeOf, ColumnType
<1>2. t = ColumnType(code, base, prec, scale) /\ Fits(LongLen, prec) /\ Fits(IntLen, scale)
  BY DEF FullTypeOK
<1>3. t.code \in AllCodes /\ t.base \in IF t.code = "array" THEN AllCodes ELSE {"all"}
  BY <1>1 DEF FullTypeOK, SimpleTypeOK, AllCodes
<1>4. SimpleReads(a, s)
  BY <1>3, SimpleTypeOf
<1>5. a \in Bytes
  BY <1>4 DEF SimpleReads
<1>6. p \in Bytes
  <2>1. <<>> \in Bytes
    BY DEF Bytes
  <2> QED BY <1>2, <2>1, Lengths, ReadNumPair
<1>7. WriteDataType(t) = a \o p
  BY DEF WriteDataType
<1> HIDE DEF a, p, s
<1>8. a \o p \in Bytes
  BY <1>5, <1>6 DEF Bytes
<1>9. ASSUME NEW rest \in Bytes, NEW u, NEW m
      PROVE  ReadDataType(In((a \o p) \o rest, u, m)) = In(rest, t, m)
  <2>1. (a \o p) \o rest = a \o (p \o rest) /\ p \o rest \in Bytes
    BY <1>5, <1>6, Assoc DEF Bytes
  <2> DEFINE q == In(p \o rest, s, m)  h == In(rest, <<prec, scale>>, m)
  <2>2. ReadDataTypeSimple(In(a \o (p \o rest), u, m)) = q
    BY <1>4, <2>1 DEF SimpleReads
  <2>3. q.val = s
    BY Input
  <2>4. ReadEach(q, <<LongLen, IntLen>>, ReadNum) = h
    BY <1>2, Lengths, ReadNumPair DEF p
  <2>5. h.val = <<prec, scale>> /\ RowInput(h.buf, h.err, t, h.meta) = In(rest, t, m)
    BY InVal
  <2> HIDE DEF q, h
  <2>6. readSize(q) = RowInput(h.buf, h.err, ColumnType(q.val.code, q.val.base, h.val[1], h.val[2]), h.meta)
    BY <2>4 DEF readSize, MapVal
  <2>7. ColumnType(q.val.code, q.val.base, h.val[1], h.val[2]) = t
    BY <1>1, <1>2, <2>3, <2>5
  <2> QED BY <2>1, <2>2, <2>5, <2>6, <2>7 DEF ReadDataType
<1> DEFINE w == a \o p
<1> HIDE DEF w
<1>10. FullReads(w, t)
  BY <1>8, <1>9 DEF FullReads, w
<1> QED BY <1>7, <1>10 DEF w

-----------------------------------------------------------------------------
(***************************************************************************)
(* Names and columns.                                                      *)
(***************************************************************************)
NamesOK(ss, n) == n \in Nat /\ Tuple(ss, n) /\ \A i \in 1 .. n : TextOK(ss[i])

GoNames(ss) == [i \in DOMAIN ss |-> GoText(ss[i])]

LEMMA NamesRead ==
  ASSUME NEW n, NEW ss, NamesOK(ss, n), NEW rest \in Bytes, NEW u, NEW m
  PROVE  /\ Strings(ss) \in Bytes
         /\ ReadEach(In(Strings(ss) \o rest, u, m), Times(n, 0), readName) = In(rest, GoNames(ss), m)
<1> DEFINE parts == [i \in 1 .. n |-> WriteBytes(encodeModifiedUTF8(ss[i]))]
           y == [i \in 1 .. n |-> GoText(ss[i])]  items == Times(n, 0)
<1>1. n \in Nat /\ DOMAIN ss = 1 .. n
  BY TupleLen DEF NamesOK
<1>2. Strings(ss) = FlattenSeq(parts) /\ GoNames(ss) = y
  BY <1>1 DEF Strings, GoNames
<1>3. Len(items) = n
  BY <1>1, TimesIs
<1>4. Tuple(y, n) /\ \A i \in 1 .. n : y[i] = GoText(ss[i])
  BY DEF Tuple
<1>5. \A i \in 1 .. n : parts[i] = WriteBytes(encodeModifiedUTF8(ss[i]))
  OBVIOUS
<1>6. Tuple(parts, n)
  BY DEF Tuple
<1> HIDE DEF parts, y, items
<1>7. ASSUME NEW i \in 1 .. n, NEW v, NEW more \in Bytes
      PROVE  parts[i] \in Bytes /\ readName(In(parts[i] \o more, v, m), items[i]) = In(more, y[i], m)
  <2>1. TextOK(ss[i])
    BY DEF NamesOK
  <2> DEFINE s == ss[i]
  <2> HIDE DEF s
  <2>2. /\ WriteBytes(encodeModifiedUTF8(s)) \in Bytes
        /\ ReadString(In(WriteBytes(encodeModifiedUTF8(s)) \o more, v, m)) = In(more, GoText(s), m)
    BY <2>1, ReadStringOf DEF s
  <2> QED BY <1>4, <1>5, <2>2 DEF readName, s
<1>8. AllName(items, parts, y, m, n)
  <2>1. \A i \in 1 .. n : parts[i] \in Bytes
    BY <1>7
  <2>2. ByteParts(parts, n)
    BY <1>6, <2>1 DEF ByteParts
  <2> QED BY <1>3, <1>4, <1>7, <2>2 DEF AllName
<1>9. /\ FlattenSeq(parts) \in Bytes
      /\ ReadEach(In(FlattenSeq(parts) \o rest, u, m), items, readName) = In(rest, y, m)
  BY <1>1, <1>8, LoopName
<1> QED BY <1>2, <1>9 DEF items

PutColumn(c) == Strings(c.names) \o <<c.attrs>>

ColumnReads(n, b, y) ==
  /\ b \in Bytes
  /\ \A rest \in Bytes : \A u, m : ReadColumn(In(b \o rest, u, m), n) = In(rest, y, m)

LEMMA ColumnRead ==
  ASSUME NEW n \in Nat, NEW c, ColumnOK(c, n)
  PROVE  ColumnReads(n, PutColumn(c), GoColumn(c))
<1> DEFINE ss == c.names  x == c.attrs  a == Strings(ss)
<1>1. x \in Byte
  BY DEF ColumnOK, Byte
<1>2. NamesOK(ss, n)
  <2>1. IsSeq(ss) /\ Len(ss) = n /\ \A i \in DOMAIN ss : TextOK(ss[i])
    BY DEF ColumnOK
  <2>2. Tuple(ss, n) /\ DOMAIN ss = 1 .. n
    BY <2>1, SeqIsTuple
  <2> QED BY <2>1, <2>2 DEF NamesOK
<1> DEFINE y == GoNames(ss)  g == [names |-> y, attrs |-> x]
<1>3. GoColumn(c) = g
  BY DEF GoColumn, GoNames
<1> HIDE DEF ss, x, y
<1>4. a \in Bytes
  <2>1. <<>> \in Bytes
    BY DEF Bytes
  <2> QED BY <1>2, <2>1, NamesRead
<1>5. <<x>> \in Bytes
  BY <1>1, OneByte
<1> DEFINE one == <<x>>
<1>6. one \in Bytes
  BY <1>5
<1> HIDE DEF one
<1>7. a \o one \in Bytes
  BY <1>4, <1>6 DEF Bytes
<1>8. ASSUME NEW rest \in Bytes, NEW u, NEW m
      PROVE  ReadColumn(In((a \o one) \o rest, u, m), n) = In(rest, g, m)
  <2>1. (a \o one) \o rest = a \o (one \o rest) /\ one \o rest \in Bytes
    BY <1>4, <1>6, Assoc DEF Bytes
  <2> DEFINE q == In(one \o rest, y, m)  h == In(rest, x, m)
  <2>2. ReadEach(In(a \o (one \o rest), u, m), Times(n, 0), readName) = q
    BY <1>2, <2>1, NamesRead DEF y
  <2>3. q.val = y
    BY Input
  <2>4. ReadU8(q) = h
    BY <1>1, ReadU8Of DEF one
  <2>5. h.val = x /\ RowInput(h.buf, h.err, g, h.meta) = In(rest, g, m)
    BY InVal
  <2> HIDE DEF q, h
  <2>6. readAttrs(q) = RowInput(h.buf, h.err, [names |-> q.val, attrs |-> h.val], h.meta)
    BY <2>4 DEF readAttrs, MapVal
  <2>7. [names |-> q.val, attrs |-> h.val] = g
    BY <2>3, <2>5
  <2>8. ReadColumn(In((a \o one) \o rest, u, m), n) = readAttrs(q)
    BY <2>1, <2>2 DEF ReadColumn
  <2> QED BY <2>5, <2>6, <2>7, <2>8
<1> HIDE DEF g
<1> DEFINE w == a \o one
<1> HIDE DEF w
<1>9. ColumnReads(n, w, g)
  BY <1>7, <1>8 DEF ColumnReads, w
<1>10. PutColumn(c) = w
  BY DEF PutColumn, w, a, one, ss, x
<1> QED BY <1>3, <1>9, <1>10

LEMMA ParamRead ==
  ASSUME NEW t, FullTypeOK(t), NEW c, ColumnOK(c, 1), NEW rest \in Bytes, NEW u, NEW m, NEW x
  PROVE  /\ WriteDataType(t) \o PutColumn(c) \in Bytes
         /\ ReadParam(In((WriteDataType(t) \o PutColumn(c)) \o rest, u, m), x) = In(rest, <<t, GoColumn(c)>>, m)
<1> DEFINE a == WriteDataType(t)  p == PutColumn(c)  g == GoColumn(c)
<1>1. FullReads(a, t)
  BY FullTypeReads
<1>2. ColumnReads(1, p, g)
  BY ColumnRead
<1> HIDE DEF a, p, g
<1>3. a \in Bytes /\ p \in Bytes
  BY <1>1, <1>2 DEF FullReads, ColumnReads
<1>4. (a \o p) \o rest = a \o (p \o rest) /\ p \o rest \in Bytes /\ a \o p \in Bytes
  BY <1>3, Assoc DEF Bytes
<1> DEFINE q == In(p \o rest, t, m)  h == In(rest, g, m)
<1>5. ReadDataType(In(a \o (p \o rest), u, m)) = q
  BY <1>1, <1>4 DEF FullReads
<1>6. q.val = t
  BY Input
<1>7. ReadColumn(q, 1) = h
  BY <1>2 DEF ColumnReads
<1>8. h.val = g /\ RowInput(h.buf, h.err, <<t, g>>, h.meta) = In(rest, <<t, g>>, m)
  BY InVal
<1> HIDE DEF q, h
<1>9. readLabel(q) = RowInput(h.buf, h.err, <<q.val, h.val>>, h.meta)
  BY <1>7 DEF readLabel, MapVal
<1>10. ReadParam(In((a \o p) \o rest, u, m), x) = readLabel(q)
  BY <1>4, <1>5 DEF ReadParam
<1> QED BY <1>4, <1>6, <1>8, <1>9, <1>10 DEF a, p, g

LEMMA SimpleTypesRead ==
  ASSUME NEW n \in Nat, NEW ts, Tuple(ts, n), \A i \in 1 .. n : SimpleTypeOK(ts[i]), NEW rest \in Bytes, NEW u, NEW m
  PROVE  /\ FlattenSeq([i \in 1 .. n |-> WriteDataTypeSimple(ts[i])]) \in Bytes
         /\ ReadEach(In(FlattenSeq([i \in 1 .. n |-> WriteDataTypeSimple(ts[i])]) \o rest, u, m), Times(n, 0), simpleType)
              = In(rest, ts, m)
<1> DEFINE parts == [i \in 1 .. n |-> WriteDataTypeSimple(ts[i])]  y == ts  items == Times(n, 0)
<1>1. Len(items) = n /\ \A i \in 1 .. n : items[i] = 0
  BY TimesIs
<1>2. Tuple(y, n) /\ \A i \in 1 .. n : y[i] = ts[i]
  BY DEF Tuple
<1>3. \A i \in 1 .. n : parts[i] = WriteDataTypeSimple(ts[i])
  OBVIOUS
<1>4. Tuple(parts, n)
  BY DEF Tuple
<1> HIDE DEF parts, y, items
<1>5. ASSUME NEW i \in 1 .. n, NEW v, NEW more \in Bytes
      PROVE  parts[i] \in Bytes /\ simpleType(In(parts[i] \o more, v, m), items[i]) = In(more, y[i], m)
  <2>1. SimpleReads(WriteDataTypeSimple(ts[i]), ts[i])
    BY SimpleTypeReads
  <2> QED BY <1>2, <1>3, <2>1 DEF SimpleReads, simpleType
<1>6. AllSimpleType(items, parts, y, m, n)
  <2>1. \A i \in 1 .. n : parts[i] \in Bytes
    BY <1>5
  <2>2. ByteParts(parts, n)
    BY <1>4, <2>1 DEF ByteParts
  <2> QED BY <1>1, <1>2, <1>5, <2>2 DEF AllSimpleType
<1>7. /\ FlattenSeq(parts) \in Bytes
      /\ ReadEach(In(FlattenSeq(parts) \o rest, u, m), items, simpleType) = In(rest, y, m)
  BY <1>6, LoopSimpleType
<1> QED BY <1>7 DEF parts, y, items

LEMMA FullTypesRead ==
  ASSUME NEW n \in Nat, NEW ts, Tuple(ts, n), \A i \in 1 .. n : FullTypeOK(ts[i]), NEW rest \in Bytes, NEW u, NEW m
  PROVE  /\ FlattenSeq([i \in 1 .. n |-> WriteDataType(ts[i])]) \in Bytes
         /\ ReadEach(In(FlattenSeq([i \in 1 .. n |-> WriteDataType(ts[i])]) \o rest, u, m), Times(n, 0), fullType)
              = In(rest, ts, m)
<1> DEFINE parts == [i \in 1 .. n |-> WriteDataType(ts[i])]  y == ts  items == Times(n, 0)
<1>1. Len(items) = n /\ \A i \in 1 .. n : items[i] = 0
  BY TimesIs
<1>2. Tuple(y, n) /\ \A i \in 1 .. n : y[i] = ts[i]
  BY DEF Tuple
<1>3. \A i \in 1 .. n : parts[i] = WriteDataType(ts[i])
  OBVIOUS
<1>4. Tuple(parts, n)
  BY DEF Tuple
<1> HIDE DEF parts, y, items
<1>5. ASSUME NEW i \in 1 .. n, NEW v, NEW more \in Bytes
      PROVE  parts[i] \in Bytes /\ fullType(In(parts[i] \o more, v, m), items[i]) = In(more, y[i], m)
  <2>1. FullReads(WriteDataType(ts[i]), ts[i])
    BY FullTypeReads
  <2> QED BY <1>2, <1>3, <2>1 DEF FullReads, fullType
<1>6. AllFullType(items, parts, y, m, n)
  <2>1. \A i \in 1 .. n : parts[i] \in Bytes
    BY <1>5
  <2>2. ByteParts(parts, n)
    BY <1>4, <2>1 DEF ByteParts
  <2> QED BY <1>1, <1>2, <1>5, <2>2 DEF AllFullType
<1>7. /\ FlattenSeq(parts) \in Bytes
      /\ ReadEach(In(FlattenSeq(parts) \o rest, u, m), items, fullType) = In(rest, y, m)
  BY <1>6, LoopFullType
<1> QED BY <1>7 DEF parts, y, items

LEMMA ColumnsRead ==
  ASSUME NEW n \in Nat, NEW ts, Tuple(ts, n), \A i \in 1 .. n : ColumnOK(ts[i], 5), NEW rest \in Bytes, NEW u, NEW m
  PROVE  /\ FlattenSeq([i \in 1 .. n |-> PutColumn(ts[i])]) \in Bytes
         /\ ReadEach(In(FlattenSeq([i \in 1 .. n |-> PutColumn(ts[i])]) \o rest, u, m), Times(n, 5), ReadColumn)
              = In(rest, [i \in 1 .. n |-> GoColumn(ts[i])], m)
<1> DEFINE parts == [i \in 1 .. n |-> PutColumn(ts[i])]  y == [i \in 1 .. n |-> GoColumn(ts[i])]  items == Times(n, 5)
<1>1. Len(items) = n /\ \A i \in 1 .. n : items[i] = 5
  BY TimesIs
<1>2. Tuple(y, n) /\ \A i \in 1 .. n : y[i] = GoColumn(ts[i])
  BY DEF Tuple
<1>3. \A i \in 1 .. n : parts[i] = PutColumn(ts[i])
  OBVIOUS
<1>4. Tuple(parts, n)
  BY DEF Tuple
<1> HIDE DEF parts, y, items
<1>5. ASSUME NEW i \in 1 .. n, NEW v, NEW more \in Bytes
      PROVE  parts[i] \in Bytes /\ ReadColumn(In(parts[i] \o more, v, m), items[i]) = In(more, y[i], m)
  <2>1. ColumnReads(5, PutColumn(ts[i]), GoColumn(ts[i]))
    BY ColumnRead
  <2> QED BY <1>1, <1>2, <1>3, <2>1 DEF ColumnReads
<1>6. AllColumn(items, parts, y, m, n)
  <2>1. \A i \in 1 .. n : parts[i] \in Bytes
    BY <1>5
  <2>2. ByteParts(parts, n)
    BY <1>4, <2>1 DEF ByteParts
  <2> QED BY <1>1, <1>2, <1>5, <2>2 DEF AllColumn
<1>7. /\ FlattenSeq(parts) \in Bytes
      /\ ReadEach(In(FlattenSeq(parts) \o rest, u, m), items, ReadColumn) = In(rest, y, m)
  BY <1>6, LoopColumn
<1> QED BY <1>7 DEF parts, y, items

PutParams(ts, cs, n) == [i \in 1 .. n |-> WriteDataType(ts[i]) \o PutColumn(cs[i])]
GoParams(ts, cs, n)  == [i \in 1 .. n |-> <<ts[i], GoColumn(cs[i])>>]

LEMMA ParamsRead ==
  ASSUME NEW n \in Nat, NEW ts, NEW cs, \A i \in 1 .. n : FullTypeOK(ts[i]) /\ ColumnOK(cs[i], 1), NEW rest \in Bytes, NEW u, NEW m
  PROVE  /\ FlattenSeq(PutParams(ts, cs, n)) \in Bytes
         /\ ReadEach(In(FlattenSeq(PutParams(ts, cs, n)) \o rest, u, m), Times(n, 0), ReadParam)
              = In(rest, GoParams(ts, cs, n), m)
<1> DEFINE parts == PutParams(ts, cs, n)  y == GoParams(ts, cs, n)  items == Times(n, 0)
<1>1. Len(items) = n /\ \A i \in 1 .. n : items[i] = 0
  BY TimesIs
<1>2. Tuple(y, n) /\ \A i \in 1 .. n : y[i] = <<ts[i], GoColumn(cs[i])>>
  BY DEF Tuple, PutParams, GoParams
<1>3. \A i \in 1 .. n : parts[i] = WriteDataType(ts[i]) \o PutColumn(cs[i])
  BY DEF PutParams
<1>4. Tuple(parts, n)
  BY DEF Tuple, PutParams, GoParams
<1> HIDE DEF parts, y, items
<1>5. ASSUME NEW i \in 1 .. n, NEW v, NEW more \in Bytes
      PROVE  parts[i] \in Bytes /\ ReadParam(In(parts[i] \o more, v, m), items[i]) = In(more, y[i], m)
  <2>1. /\ WriteDataType(ts[i]) \o PutColumn(cs[i]) \in Bytes
        /\ ReadParam(In((WriteDataType(ts[i]) \o PutColumn(cs[i])) \o more, v, m), items[i])
             = In(more, <<ts[i], GoColumn(cs[i])>>, m)
    BY ParamRead
  <2> QED BY <1>2, <1>3, <2>1
<1>6. AllParam(items, parts, y, m, n)
  <2>1. \A i \in 1 .. n : parts[i] \in Bytes
    BY <1>5
  <2>2. ByteParts(parts, n)
    BY <1>4, <2>1 DEF ByteParts
  <2> QED BY <1>1, <1>2, <1>5, <2>2 DEF AllParam
<1>7. /\ FlattenSeq(parts) \in Bytes
      /\ ReadEach(In(FlattenSeq(parts) \o rest, u, m), items, ReadParam) = In(rest, y, m)
  BY <1>6, LoopParam
<1> QED BY <1>7 DEF parts, y, items

LEMMA NumListRead ==
  ASSUME NEW n \in Nat, NEW xs, Tuple(xs, n), \A i \in 1 .. n : Fits(IntLen, xs[i]),
         NEW rest \in Bytes, NEW u, NEW m
  PROVE  /\ Nums(IntLen, xs) \in Bytes
         /\ ReadEach(In(Nums(IntLen, xs) \o rest, u, m), Times(n, IntLen), ReadNum) = In(rest, xs, m)
<1> DEFINE ws == Times(n, IntLen)
<1>1. Len(ws) = n /\ \A i \in 1 .. n : ws[i] = IntLen
  BY TimesIs
<1>2. Nums(IntLen, xs) = PutNums(ws, xs)
  <2>1. DOMAIN xs = 1 .. n
    BY TupleLen
  <2> QED BY <2>1 DEF Nums, Times
<1> HIDE DEF ws
<1>3. NumsOK(ws, xs, n)
  BY <1>1, Lengths DEF NumsOK
<1>4. /\ PutNums(ws, xs) \in Bytes
      /\ ReadEach(In(PutNums(ws, xs) \o rest, u, m), ws, ReadNum) = In(rest, xs, m)
  BY <1>3, PutNumsOf
<1> QED BY <1>2, <1>4 DEF ws

-----------------------------------------------------------------------------
(***************************************************************************)
(* Metadata, kind by kind.                                                 *)
(***************************************************************************)
GoCols(cs) == [i \in DOMAIN cs |-> GoColumn(cs[i])]

LEMMA GoMetaIs ==
  ASSUME NEW d
  PROVE  GoMeta(d) = Meta(d.kind, d.count, d.types, GoCols(d.cols), d.idx)
BY DEF GoMeta, GoCols

LEMMA GoColsEmpty == GoCols(<<>>) = <<>>
<1>1. Tuple(GoCols(<<>>), 0)
  BY DEF GoCols, Tuple
<1> QED BY <1>1, TupleLen

(* What is written after the kind and the count. *)
PutResult(d) ==
  PutNum(IntLen, Len(d.types)) \o Flat(d.types, WriteDataType) \o Flat(d.cols, PutColumn)
    \o IF d.count = Len(d.types) THEN <<>> ELSE Nums(IntLen, d.idx)

PutBranch(d) ==
  CASE d.kind \in {2, 3} -> Flat(d.types, WriteDataTypeSimple)
    [] d.kind = 5 -> Nums(IntLen, d.idx)
    [] d.kind = 6 -> Flat(d.cols, LAMBDA c : Strings(c.names))
    [] d.kind = 4 -> FlattenSeq([i \in DOMAIN d.types |-> WriteDataType(d.types[i]) \o PutColumn(d.cols[i])])
    [] d.kind = 1 -> PutResult(d)

LEMMA MetadataIs ==
  ASSUME NEW d
  PROVE  writeMetadata(d) = PutNums(<<IntLen, IntLen>>, <<d.kind, d.count>>) \o PutBranch(d)
BY DEF writeMetadata, PutBranch, PutResult, PutColumn, Flat

BranchReads(d) ==
  /\ PutBranch(d) \in Bytes
  /\ \A rest \in Bytes : \A u, m :
       readBranch(In(PutBranch(d) \o rest, u, m), d.kind, d.count) = In(rest, GoMeta(d), m)

LEMMA BranchCodes ==
  ASSUME NEW d, MetaOK(d), d.kind \in {2, 3}
  PROVE  BranchReads(d)
<1> DEFINE n == d.count  ts == d.types  b == FlattenSeq([i \in 1 .. n |-> WriteDataTypeSimple(ts[i])])
<1>1. n \in Nat /\ Len(ts) = n /\ IsSeq(ts) /\ \A i \in 1 .. n : SimpleTypeOK(ts[i])
  BY DEF MetaOK
<1>2. Tuple(ts, n) /\ DOMAIN ts = 1 .. n
  BY <1>1, SeqIsTuple
<1>3. d.cols = <<>> /\ d.idx = <<>>
  BY DEF MetaOK
<1>4. PutBranch(d) = b
  <2>1. CASE d.kind = 2
    BY <1>2, <2>1 DEF PutBranch, Flat
  <2>2. CASE d.kind = 3
    BY <1>2, <2>2 DEF PutBranch, Flat
  <2> QED BY <2>1, <2>2
<1>5. GoMeta(d) = Meta(d.kind, n, ts, <<>>, <<>>)
  BY <1>3, GoMetaIs, GoColsEmpty
<1>6. b \in Bytes
  <2>1. <<>> \in Bytes
    BY DEF Bytes
  <2> QED BY <1>1, <1>2, <2>1, SimpleTypesRead
<1>7. ASSUME NEW rest \in Bytes, NEW u, NEW m
      PROVE  readBranch(In(b \o rest, u, m), d.kind, n) = In(rest, GoMeta(d), m)
  <2> DEFINE k == In(b \o rest, u, m)  q == In(rest, ts, m)  g == GoMeta(d)
  <2>1. ReadEach(k, Times(n, 0), simpleType) = q
    BY <1>1, <1>2, SimpleTypesRead
  <2>2. q.val = ts /\ RowInput(q.buf, q.err, g, q.meta) = In(rest, g, m)
    BY InVal
  <2> HIDE DEF k, q, g
  <2>3. readBranch(k, d.kind, n) = RowInput(q.buf, q.err, Meta(d.kind, n, q.val, <<>>, <<>>), q.meta)
    <3>1. CASE d.kind = 2
      BY <2>1, <3>1 DEF readBranch, MapVal
    <3>2. CASE d.kind = 3
      BY <2>1, <3>2 DEF readBranch, MapVal
    <3> QED BY <3>1, <3>2
  <2> QED BY <1>5, <2>2, <2>3 DEF k, g
<1> QED BY <1>4, <1>6, <1>7 DEF BranchReads

LEMMA BranchIndexes ==
  ASSUME NEW d, MetaOK(d), d.kind = 5
  PROVE  BranchReads(d)
<1> DEFINE n == d.count  xs == d.idx  b == Nums(IntLen, xs)
<1>1. n \in Nat /\ Len(xs) = n /\ IsSeq(xs) /\ \A i \in 1 .. n : Fits(IntLen, xs[i])
  BY DEF MetaOK
<1>2. Tuple(xs, n)
  BY <1>1, SeqIsTuple
<1>3. d.cols = <<>> /\ d.types = <<>>
  BY DEF MetaOK
<1>4. PutBranch(d) = b
  BY DEF PutBranch
<1>5. GoMeta(d) = Meta(d.kind, n, <<>>, <<>>, xs)
  BY <1>3, GoMetaIs, GoColsEmpty
<1>6. b \in Bytes
  <2>1. <<>> \in Bytes
    BY DEF Bytes
  <2> QED BY <1>1, <1>2, <2>1, NumListRead
<1>7. ASSUME NEW rest \in Bytes, NEW u, NEW m
      PROVE  readBranch(In(b \o rest, u, m), d.kind, n) = In(rest, GoMeta(d), m)
  <2> DEFINE k == In(b \o rest, u, m)  q == In(rest, xs, m)  g == GoMeta(d)
  <2>1. ReadEach(k, Times(n, IntLen), ReadNum) = q
    BY <1>1, <1>2, NumListRead
  <2>2. q.val = xs /\ RowInput(q.buf, q.err, g, q.meta) = In(rest, g, m)
    BY InVal
  <2> HIDE DEF k, q, g
  <2>3. readBranch(k, d.kind, n) = RowInput(q.buf, q.err, Meta(d.kind, n, <<>>, <<>>, q.val), q.meta)
    BY <2>1 DEF readBranch, MapVal
  <2> QED BY <1>5, <2>2, <2>3 DEF k, g
<1> QED BY <1>4, <1>6, <1>7 DEF BranchReads

(* Kind 6: each column is one name. *)
LEMMA OneNames ==
  ASSUME NEW n \in Nat, NEW cs, IsSeq(cs), Len(cs) = n,
         \A i \in 1 .. n : ColumnOK(cs[i], 1) /\ cs[i].attrs = 0
  PROVE  /\ NamesOK([i \in 1 .. n |-> cs[i].names[1]], n)
         /\ Flat(cs, LAMBDA c : Strings(c.names)) = Strings([i \in 1 .. n |-> cs[i].names[1]])
         /\ GoCols(cs) = [i \in 1 .. n |-> [names |-> <<GoText(cs[i].names[1])>>, attrs |-> 0]]
<1> DEFINE ss == [i \in 1 .. n |-> cs[i].names[1]]
<1>1. DOMAIN cs = 1 .. n
  BY SeqIsTuple
<1>2. ASSUME NEW i \in 1 .. n
      PROVE  /\ TextOK(cs[i].names[1]) /\ DOMAIN cs[i].names = 1 .. 1 /\ cs[i].names = <<cs[i].names[1]>>
  <2> DEFINE ns == cs[i].names
  <2>1. IsSeq(ns) /\ Len(ns) = 1 /\ \A j \in DOMAIN ns : TextOK(ns[j])
    BY DEF ColumnOK
  <2> HIDE DEF ns
  <2>2. DOMAIN ns = 1 .. 1 /\ Tuple(ns, 1)
    BY <2>1, SeqIsTuple
  <2>3. Tuple(<<ns[1]>>, 1)
    BY DEF Tuple
  <2>4. ns = <<ns[1]>>
    <3> DEFINE one == <<ns[1]>>
    <3>1. \A j \in 1 .. 1 : ns[j] = one[j]
      OBVIOUS
    <3>2. Tuple(one, 1)
      BY <2>3
    <3> HIDE DEF one
    <3>3. ns = one
      BY <2>2, <3>1, <3>2, TuplesEqual
    <3> QED BY <3>3 DEF one
  <2> QED BY <2>1, <2>2, <2>4 DEF ns
<1>3. NamesOK(ss, n)
  BY <1>2 DEF NamesOK, Tuple
<1>4. ASSUME NEW i \in 1 .. n PROVE Strings(cs[i].names) = WriteBytes(encodeModifiedUTF8(ss[i]))
  <2> DEFINE ns == cs[i].names  w == WriteBytes(encodeModifiedUTF8(ns[1]))
  <2>1. DOMAIN ns = 1 .. 1 /\ TextOK(ns[1])
    BY <1>2
  <2>2. w \in Bytes
    <3>1. <<>> \in Bytes
      BY DEF Bytes
    <3> DEFINE s == ns[1]
    <3> HIDE DEF s
    <3>2. WriteBytes(encodeModifiedUTF8(s)) \in Bytes
      BY <2>1, <3>1, ReadStringOf DEF s
    <3> QED BY <3>2 DEF s
  <2> DEFINE parts == [j \in DOMAIN ns |-> WriteBytes(encodeModifiedUTF8(ns[j]))]
  <2>3. Strings(ns) = FlattenSeq(parts)
    BY DEF Strings
  <2>4. Tuple(parts, 1) /\ parts[1] = w
    BY <2>1 DEF Tuple
  <2> HIDE DEF ns, w, parts
  <2>5. ByteParts(parts, 1)
    BY <2>2, <2>4 DEF ByteParts
  <2>6. FlattenSeq(parts) = w
    <3>1. <<>> \in Bytes /\ 1 \in Nat
      BY DEF Bytes
    <3>2. FlattenSeq(parts) \in Bytes /\ \E r : Written(parts, 1, <<>>, r)
      BY <2>5, <3>1, WrittenIs
    <3>3. PICK r : Written(parts, 1, <<>>, r)
      BY <3>2
    <3>4. r[1] = <<>> /\ r[0] = FlattenSeq(parts) \o <<>> /\ r[0] = parts[1] \o r[1]
      <4>1. r[1] = <<>> /\ r[0] = FlattenSeq(parts) \o <<>>
        BY <3>3 DEF Written
      <4>2. 1 \in 1 .. 1 /\ 1 - 1 = 0
        OBVIOUS
      <4>3. r[1 - 1] = parts[1] \o r[1]
        BY <3>3, <4>2 DEF Written
      <4> QED BY <4>1, <4>2, <4>3
    <3> DEFINE f == FlattenSeq(parts)
    <3> HIDE DEF f
    <3>5. f \o <<>> = w \o <<>> /\ f \in Bytes
      BY <2>4, <3>2, <3>4 DEF f
    <3>6. f \o <<>> = f /\ w \o <<>> = w
      BY <2>2, <3>5, NoneBefore DEF Bytes
    <3> QED BY <3>5, <3>6 DEF f
  <2> QED BY <2>3, <2>6 DEF ns, w
<1>5. Flat(cs, LAMBDA c : Strings(c.names)) = Strings(ss)
  <2>1. [i \in DOMAIN cs |-> Strings(cs[i].names)] = [i \in DOMAIN ss |-> WriteBytes(encodeModifiedUTF8(ss[i]))]
    BY <1>1, <1>4
  <2> QED BY <2>1 DEF Flat, Strings
<1>6. ASSUME NEW i \in 1 .. n
      PROVE  GoColumn(cs[i]) = [names |-> <<GoText(cs[i].names[1])>>, attrs |-> 0]
  <2> DEFINE ns == cs[i].names  g == GoNames(ns)  one == <<GoText(ns[1])>>
  <2>1. DOMAIN ns = 1 .. 1
    BY <1>2
  <2>2. Tuple(g, 1) /\ g[1] = GoText(ns[1])
    BY <2>1 DEF GoNames, Tuple
  <2>3. Tuple(one, 1) /\ one[1] = GoText(ns[1])
    BY DEF Tuple
  <2>4. GoColumn(cs[i]) = [names |-> g, attrs |-> 0]
    BY DEF GoColumn, GoNames
  <2> HIDE DEF g, one, ns
  <2>5. g = one
    <3>1. \A j \in 1 .. 1 : g[j] = one[j]
      BY <2>2, <2>3
    <3>2. 1 \in Nat /\ Tuple(g, 1) /\ Tuple(one, 1)
      BY <2>2, <2>3
    <3> QED BY <3>1, <3>2, TuplesEqual
  <2> QED BY <2>4, <2>5 DEF one, ns
<1>7. GoCols(cs) = [i \in 1 .. n |-> [names |-> <<GoText(cs[i].names[1])>>, attrs |-> 0]]
  BY <1>1, <1>6 DEF GoCols
<1> QED BY <1>3, <1>5, <1>7

LEMMA BranchNames ==
  ASSUME NEW d, MetaOK(d), d.kind = 6
  PROVE  BranchReads(d)
<1> DEFINE n == d.count  cs == d.cols  ss == [i \in 1 .. n |-> cs[i].names[1]]  b == Strings(ss)
           gs == GoNames(ss)
<1>1. /\ n \in Nat /\ Len(cs) = n /\ IsSeq(cs)
      /\ \A i \in 1 .. n : ColumnOK(cs[i], 1) /\ cs[i].attrs = 0
  BY DEF MetaOK
<1>2. d.types = <<>> /\ d.idx = <<>>
  BY DEF MetaOK
<1>3. /\ NamesOK(ss, n) /\ Flat(cs, LAMBDA c : Strings(c.names)) = b
      /\ GoCols(cs) = [i \in 1 .. n |-> [names |-> <<GoText(cs[i].names[1])>>, attrs |-> 0]]
  BY <1>1, OneNames
<1>4. PutBranch(d) = b
  <2>1. PutBranch(d) = Flat(cs, LAMBDA c : Strings(c.names))
    BY DEF PutBranch, Flat
  <2> QED BY <1>3, <2>1 DEF Flat
<1>5. [i \in DOMAIN gs |-> [names |-> <<gs[i]>>, attrs |-> 0]] = GoCols(cs)
  <2>1. DOMAIN gs = 1 .. n /\ \A i \in 1 .. n : gs[i] = GoText(cs[i].names[1])
    BY DEF GoNames
  <2> QED BY <1>3, <2>1
<1>6. GoMeta(d) = Meta(d.kind, n, <<>>, GoCols(cs), <<>>)
  BY <1>2, GoMetaIs
<1> HIDE DEF ss
<1>7. b \in Bytes
  <2>1. <<>> \in Bytes
    BY DEF Bytes
  <2> QED BY <1>3, <2>1, NamesRead
<1>8. ASSUME NEW rest \in Bytes, NEW u, NEW m
      PROVE  readBranch(In(b \o rest, u, m), d.kind, n) = In(rest, GoMeta(d), m)
  <2> DEFINE k == In(b \o rest, u, m)  q == In(rest, gs, m)  g == GoMeta(d)
  <2>1. ReadEach(k, Times(n, 0), readName) = q
    BY <1>3, NamesRead
  <2>2. q.val = gs /\ RowInput(q.buf, q.err, g, q.meta) = In(rest, g, m)
    BY InVal
  <2> HIDE DEF k, q, g, gs
  <2>3. readBranch(k, d.kind, n)
          = RowInput(q.buf, q.err,
                     Meta(d.kind, n, <<>>, [i \in DOMAIN q.val |-> [names |-> <<q.val[i]>>, attrs |-> 0]], <<>>), q.meta)
    BY <2>1 DEF readBranch, MapVal
  <2>4. Meta(d.kind, n, <<>>, [i \in DOMAIN q.val |-> [names |-> <<q.val[i]>>, attrs |-> 0]], <<>>) = g
    BY <1>5, <1>6, <2>2 DEF g
  <2> QED BY <2>2, <2>3, <2>4 DEF k, g
<1> QED BY <1>4, <1>7, <1>8 DEF BranchReads

LEMMA BranchParams ==
  ASSUME NEW d, MetaOK(d), d.kind = 4
  PROVE  BranchReads(d)
<1> DEFINE nn == d.count  tt == d.types  cc == d.cols
           bb == FlattenSeq(PutParams(tt, cc, nn))
           ps == GoParams(tt, cc, nn)
<1>1. /\ nn \in Nat /\ Len(tt) = nn /\ IsSeq(tt) /\ Len(cc) = nn /\ IsSeq(cc) /\ d.idx = <<>>
      /\ \A i \in 1 .. nn : FullTypeOK(tt[i]) /\ ColumnOK(cc[i], 1)
  BY DEF MetaOK
<1>2. Tuple(tt, nn) /\ DOMAIN tt = 1 .. nn /\ DOMAIN cc = 1 .. nn
  BY <1>1, SeqIsTuple
<1>3. PutBranch(d) = bb
  BY <1>2 DEF PutBranch, PutParams
<1>4. [i \in DOMAIN ps |-> ps[i][1]] = tt
  BY <1>2 DEF Tuple, GoParams
<1>5. [i \in DOMAIN ps |-> ps[i][2]] = GoCols(cc)
  BY <1>2 DEF GoCols, GoParams
<1>6. GoMeta(d) = Meta(d.kind, nn, tt, GoCols(cc), <<>>)
  BY <1>1, GoMetaIs
<1>7. bb \in Bytes
  <2>1. <<>> \in Bytes
    BY DEF Bytes
  <2> QED BY <1>1, <2>1, ParamsRead
<1>8. ASSUME NEW rest \in Bytes, NEW u, NEW m
      PROVE  readBranch(In(bb \o rest, u, m), d.kind, nn) = In(rest, GoMeta(d), m)
  <2> DEFINE k == In(bb \o rest, u, m)  q == In(rest, ps, m)  g == GoMeta(d)
  <2>1. ReadEach(k, Times(nn, 0), ReadParam) = q
    <3>1. \A i \in 1 .. nn : FullTypeOK(tt[i]) /\ ColumnOK(cc[i], 1)
      BY <1>1
    <3>2. nn \in Nat
      BY <1>1
    <3> HIDE DEF nn, tt, cc
    <3> QED BY <3>1, <3>2, ParamsRead
  <2>2. q.val = ps /\ RowInput(q.buf, q.err, g, q.meta) = In(rest, g, m)
    BY InVal
  <2> HIDE DEF k, q, g, ps
  <2>3. readBranch(k, d.kind, nn)
          = RowInput(q.buf, q.err, Meta(d.kind, nn, [i \in DOMAIN q.val |-> q.val[i][1]],
                                        [i \in DOMAIN q.val |-> q.val[i][2]], <<>>), q.meta)
    BY <2>1 DEF readBranch, MapVal
  <2>4. Meta(d.kind, nn, [i \in DOMAIN q.val |-> q.val[i][1]], [i \in DOMAIN q.val |-> q.val[i][2]], <<>>) = g
    BY <1>4, <1>5, <1>6, <2>2 DEF g
  <2> QED BY <2>2, <2>3, <2>4 DEF k, g
<1> QED BY <1>3, <1>7, <1>8 DEF BranchReads

(* Kind 1: the types of all columns, the visible columns, the map between. *)
ResultOK(d) ==
  /\ d.count \in Nat /\ IsSeq(d.types) /\ IsSeq(d.cols) /\ IsSeq(d.idx)
  /\ Fits(IntLen, Len(d.types)) /\ Len(d.cols) = d.count
  /\ Len(d.idx) = indexes(d.count, Len(d.types))
  /\ \A i \in 1 .. Len(d.types) : FullTypeOK(d.types[i])
  /\ \A i \in 1 .. d.count : ColumnOK(d.cols[i], 5)
  /\ \A i \in 1 .. Len(d.idx) : Fits(IntLen, d.idx[i])

PutTypes(d) == Flat(d.types, WriteDataType)
PutCols(d)  == Flat(d.cols, PutColumn)
PutIdx(d)   == IF d.count = Len(d.types) THEN <<>> ELSE Nums(IntLen, d.idx)

LEMMA ResultTypes ==
  ASSUME NEW d, ResultOK(d), NEW rest \in Bytes, NEW u, NEW m
  PROVE  /\ PutNum(IntLen, Len(d.types)) \in Bytes /\ PutTypes(d) \in Bytes
         /\ readTypes(ReadNum(In(PutNum(IntLen, Len(d.types)) \o (PutTypes(d) \o rest), u, m), IntLen))
              = In(rest, d.types, m)
<1> DEFINE ts == d.types  n == Len(ts)  b == PutTypes(d)
<1>1. n \in Nat /\ Tuple(ts, n) /\ DOMAIN ts = 1 .. n
  BY SeqIsTuple DEF ResultOK
<1>2. Fits(IntLen, n) /\ \A i \in 1 .. n : FullTypeOK(ts[i])
  BY DEF ResultOK
<1>3. b = FlattenSeq([i \in 1 .. n |-> WriteDataType(ts[i])])
  BY <1>1 DEF PutTypes, Flat
<1> HIDE DEF n, b, ts
<1>4. b \in Bytes /\ ReadEach(In(b \o rest, n, m), Times(n, 0), fullType) = In(rest, ts, m)
  BY <1>1, <1>2, <1>3, FullTypesRead
<1>5. PutNum(IntLen, n) \in Bytes
  BY <1>1, Lengths, PutNumFacts DEF Bytes
<1>6. ReadNum(In(PutNum(IntLen, n) \o (b \o rest), u, m), IntLen) = In(b \o rest, n, m)
  <2>1. b \o rest \in Bytes
    BY <1>4 DEF Bytes
  <2> QED BY <1>2, <2>1, Lengths, ReadNumOf
<1> DEFINE q == In(b \o rest, n, m)
<1>7. q.val = n
  BY Input
<1> HIDE DEF q
<1>8. readTypes(q) = ReadEach(q, Times(n, 0), fullType)
  BY <1>7 DEF readTypes
<1> QED BY <1>4, <1>5, <1>6, <1>8 DEF q, b, n, ts

LEMMA ResultColumns ==
  ASSUME NEW d, ResultOK(d), NEW rest \in Bytes, NEW u, NEW m
  PROVE  /\ PutCols(d) \in Bytes
         /\ ReadEach(In(PutCols(d) \o rest, u, m), Times(d.count, 5), ReadColumn) = In(rest, GoCols(d.cols), m)
<1> DEFINE cs == d.cols  n == d.count
<1>1. n \in Nat /\ Tuple(cs, n) /\ DOMAIN cs = 1 .. n /\ \A i \in 1 .. n : ColumnOK(cs[i], 5)
  BY SeqIsTuple DEF ResultOK
<1>2. PutCols(d) = FlattenSeq([i \in 1 .. n |-> PutColumn(cs[i])])
  BY <1>1 DEF PutCols, Flat
<1>3. GoCols(cs) = [i \in 1 .. n |-> GoColumn(cs[i])]
  BY <1>1 DEF GoCols
<1> HIDE DEF cs, n
<1>4. /\ PutCols(d) \in Bytes
      /\ ReadEach(In(PutCols(d) \o rest, u, m), Times(n, 5), ReadColumn) = In(rest, GoCols(cs), m)
  BY <1>1, <1>2, <1>3, ColumnsRead
<1> QED BY <1>4 DEF cs, n

LEMMA ResultIndexes ==
  ASSUME NEW d, ResultOK(d), NEW rest \in Bytes, NEW u, NEW m
  PROVE  /\ PutIdx(d) \in Bytes
         /\ ReadEach(In(PutIdx(d) \o rest, u, m), Times(indexes(d.count, Len(d.types)), IntLen), ReadNum)
              = In(rest, d.idx, m)
<1> DEFINE xs == d.idx  n == Len(xs)
<1>1. /\ n \in Nat /\ Tuple(xs, n) /\ \A i \in 1 .. n : Fits(IntLen, xs[i])
      /\ n = indexes(d.count, Len(d.types))
  BY SeqIsTuple DEF ResultOK
<1>2. PutIdx(d) = Nums(IntLen, xs)
  <2>1. CASE d.count # Len(d.types)
    BY <2>1 DEF PutIdx
  <2>2. CASE d.count = Len(d.types)
    <3>1. n = 0
      BY <1>1, <2>2 DEF indexes
    <3>2. DOMAIN xs = {}
      BY <1>1, <3>1, TupleLen
    <3> DEFINE ps == [i \in DOMAIN xs |-> PutNum([j \in DOMAIN xs |-> IntLen][i], xs[i])]
    <3>3. Nums(IntLen, xs) = FlattenSeq(ps)
      BY DEF Nums, PutNums
    <3>4. Tuple(ps, 0)
      BY <3>2 DEF Tuple
    <3> HIDE DEF ps
    <3>5. Len(ps) = 0
      BY <3>4, TupleLen
    <3>6. FlattenSeq(ps) = <<>>
      BY <3>5 DEF FlattenSeq
    <3> QED BY <2>2, <3>3, <3>6 DEF PutIdx
  <2> QED BY <2>1, <2>2
<1> HIDE DEF n
<1>3. /\ Nums(IntLen, xs) \in Bytes
      /\ ReadEach(In(Nums(IntLen, xs) \o rest, u, m), Times(n, IntLen), ReadNum) = In(rest, xs, m)
  BY <1>1, NumListRead
<1> QED BY <1>1, <1>2, <1>3

ToLeft(p, l, e, h, r)  == (((p \o l) \o e) \o h) \o r
ToRight(p, l, e, h, r) == p \o (l \o (e \o (h \o r)))

Regroup(a, b, c) == (a \o b) \o c = a \o (b \o c)

LEMMA AssocBytes ==
  ASSUME NEW a \in Bytes, NEW b \in Bytes, NEW c \in Bytes
  PROVE  Regroup(a, b, c) /\ a \o b \in Bytes
BY Assoc DEF Bytes, Regroup

LEMMA AssocFive ==
  ASSUME NEW p \in Bytes, NEW l \in Bytes, NEW e \in Bytes, NEW h \in Bytes, NEW r \in Bytes
  PROVE  ToLeft(p, l, e, h, r) = ToRight(p, l, e, h, r)
<1> DEFINE pa == p \o l  pae == pa \o e  hr == h \o r  ehr == e \o hr
<1>1. pa \in Bytes /\ hr \in Bytes
  BY AssocBytes
<1>2. pae \in Bytes /\ ehr \in Bytes
  <2> HIDE DEF pa, hr
  <2> QED BY <1>1, AssocBytes
<1> HIDE DEF pae, ehr, pa, hr
<1>2a. Regroup(pae, h, r) /\ Regroup(pa, e, hr) /\ Regroup(p, l, ehr)
  BY <1>1, <1>2, AssocBytes
<1>3. (pae \o h) \o r = pae \o hr
  BY <1>2a, Zenon DEF Regroup, hr
<1>4. pae \o hr = pa \o ehr
  BY <1>2a, Zenon DEF Regroup, pae, ehr
<1>5. pa \o ehr = p \o (l \o ehr)
  BY <1>2a, Zenon DEF Regroup, pa
<1>6. (pae \o h) \o r = p \o (l \o ehr)
  BY <1>3, <1>4, <1>5
<1> QED BY <1>6, Zenon DEF pae, ehr, pa, hr, ToLeft, ToRight

LEMMA BranchResult ==
  ASSUME NEW d, MetaOK(d), d.kind = 1
  PROVE  BranchReads(d)
<1>1. ResultOK(d)
  BY DEF MetaOK, ResultOK
<1> DEFINE p0 == PutNum(IntLen, Len(d.types))  l0 == PutTypes(d)  e0 == PutCols(d)  h0 == PutIdx(d)
<1>2. PutBranch(d) = ((p0 \o l0) \o e0) \o h0
  <2>1. PutBranch(d) = PutResult(d)
    BY DEF PutBranch, Flat
  <2> QED BY <2>1 DEF PutResult, PutTypes, PutCols, PutIdx, Flat
<1>3. p0 \in Bytes /\ l0 \in Bytes /\ e0 \in Bytes /\ h0 \in Bytes
  <2>1. <<>> \in Bytes
    BY DEF Bytes
  <2> QED BY <1>1, <2>1, ResultTypes, ResultColumns, ResultIndexes
<1>4. GoMeta(d) = Meta(d.kind, d.count, d.types, GoCols(d.cols), d.idx)
  BY GoMetaIs
<1> HIDE DEF p0, l0, e0, h0
<1> DEFINE b == ((p0 \o l0) \o e0) \o h0
<1>5. b \in Bytes
  BY <1>3 DEF Bytes
<1>6. ASSUME NEW rest \in Bytes, NEW u, NEW m
      PROVE  readBranch(In(b \o rest, u, m), d.kind, d.count) = In(rest, GoMeta(d), m)
  <2>1. b \o rest = p0 \o (l0 \o (e0 \o (h0 \o rest)))
    <3>1. ToLeft(p0, l0, e0, h0, rest) = ToRight(p0, l0, e0, h0, rest)
      BY <1>3, AssocFive
    <3> QED BY <3>1, Zenon DEF ToLeft, ToRight
  <2>2. h0 \o rest \in Bytes /\ e0 \o (h0 \o rest) \in Bytes
    BY <1>3 DEF Bytes
  <2> DEFINE ts == d.types  gc == GoCols(d.cols)  g == GoMeta(d)
             t == In(e0 \o (h0 \o rest), ts, m)  c == In(h0 \o rest, gc, m)  q == In(rest, d.idx, m)
  <2>3. readTypes(ReadNum(In(p0 \o (l0 \o (e0 \o (h0 \o rest))), u, m), IntLen)) = t
    BY <1>1, <2>2, ResultTypes DEF p0, l0
  <2>4. ReadEach(t, Times(d.count, 5), ReadColumn) = c
    BY <1>1, <2>2, ResultColumns DEF e0
  <2>5. ReadEach(c, Times(indexes(d.count, Len(d.types)), IntLen), ReadNum) = q
    BY <1>1, ResultIndexes DEF h0
  <2>6. t.val = ts /\ c.val = gc /\ q.val = d.idx
    BY Input
  <2>7. RowInput(q.buf, q.err, g, q.meta) = In(rest, g, m)
    BY InVal
  <2> HIDE DEF t, c, q, g
  <2>8. readIndexes(c, d.kind, d.count, ts) = RowInput(q.buf, q.err, Meta(d.kind, d.count, ts, c.val, q.val), q.meta)
    BY <2>5 DEF readIndexes, MapVal
  <2>9. readColumns(t, d.kind, d.count) = readIndexes(c, d.kind, d.count, ts)
    BY <2>4, <2>6 DEF readColumns
  <2> DEFINE k == In(b \o rest, u, m)
  <2>10. readTypes(ReadNum(k, IntLen)) = t
    BY <2>1, <2>3
  <2> HIDE DEF k
  <2>11. readBranch(k, d.kind, d.count) = readColumns(readTypes(ReadNum(k, IntLen)), d.kind, d.count)
    BY DEF readBranch
  <2>12. Meta(d.kind, d.count, ts, c.val, q.val) = g
    BY <1>4, <2>6 DEF g
  <2> QED BY <2>7, <2>8, <2>9, <2>10, <2>11, <2>12 DEF k, g
<1> HIDE DEF b
<1>7. PutBranch(d) = b
  BY <1>2 DEF b
<1> QED BY <1>5, <1>6, <1>7 DEF BranchReads

LEMMA MetaRead ==
  ASSUME NEW d, MetaOK(d), NEW rest \in Bytes, NEW u, NEW m
  PROVE  /\ writeMetadata(d) \in Bytes
         /\ readMetadata(In(writeMetadata(d) \o rest, u, m)) = In(rest, GoMeta(d), m)
<1> DEFINE p == PutNums(<<IntLen, IntLen>>, <<d.kind, d.count>>)  b == PutBranch(d)
<1>1. BranchReads(d)
  BY BranchCodes, BranchIndexes, BranchNames, BranchParams, BranchResult DEF MetaOK
<1>2. d.kind \in 0 .. 127 /\ Fits(IntLen, d.count)
  BY DEF MetaOK
<1>3. Fits(IntLen, d.kind)
  BY <1>2, Lengths, SmallFits
<1>4. b \in Bytes
  BY <1>1 DEF BranchReads
<1>5. b \o rest \in Bytes
  BY <1>4 DEF Bytes
<1> DEFINE k == In(b \o rest, <<d.kind, d.count>>, m)
<1>6. /\ p \in Bytes
      /\ ReadEach(In(p \o (b \o rest), u, m), <<IntLen, IntLen>>, ReadNum) = k
  BY <1>2, <1>3, <1>5, Lengths, ReadNumPair
<1> HIDE DEF p, b
<1>7. p \o b \in Bytes /\ (p \o b) \o rest = p \o (b \o rest)
  BY <1>4, <1>6, Assoc DEF Bytes
<1>8. k.val = <<d.kind, d.count>>
  BY Input
<1>9. readBranch(k, d.kind, d.count) = In(rest, GoMeta(d), m)
  BY <1>1 DEF BranchReads, b
<1> HIDE DEF k
<1>10. readHead(k) = readBranch(k, d.kind, d.count)
  BY <1>8 DEF readHead
<1>11. readMetadata(In((p \o b) \o rest, u, m)) = In(rest, GoMeta(d), m)
  BY <1>6, <1>7, <1>9, <1>10 DEF readMetadata
<1> QED BY <1>7, <1>11, MetadataIs DEF p, b

-----------------------------------------------------------------------------
(***************************************************************************)
(* The fields of a frame.                                                  *)
(***************************************************************************)
HasRows(kind) == kind = "simple" \/ kind = "rows"

KnownField(types, f) == HasRows(f[1]) => KnownRows(types, RowsOf(f[1], f[2]))

GotField(types, f) ==
  IF f[1] = "str" THEN GoText(f[2])
  ELSE IF f[1] = "meta" THEN GoMeta(f[2])
  ELSE IF f[1] = "simple" THEN GotRows(types, f[2])
  ELSE IF f[1] = "rows" THEN <<f[2][1], GotRows(types, f[2][2])>>
  ELSE f[2]

(* The metadata the input keeps after a field. *)
KeptMeta(f, m) == IF f[1] = "meta" THEN GoMeta(f[2]) ELSE m

FieldReads(types, f) ==
  /\ PutField(types, f) \in Bytes
  /\ \A rest \in Bytes : \A u, m : (HasRows(f[1]) => m.types = types) =>
       ReadField(In(PutField(types, f) \o rest, u, m), f[1]) = In(rest, GotField(types, f), KeptMeta(f, m))

FieldFails(types, f) ==
  /\ PutField(types, f) \in Bytes
  /\ \A rest \in Bytes : \A m : m.types = types =>
       \E c, x : \A u : ReadField(In(PutField(types, f) \o rest, u, m), f[1]) = Bad(c, x, m)

LEMMA StringIs ==
  ASSUME NEW s, TextOK(s)
  PROVE  Strings(<<s>>) = WriteBytes(encodeModifiedUTF8(s))
<1> DEFINE b == WriteBytes(encodeModifiedUTF8(s))  parts == [i \in DOMAIN <<s>> |-> WriteBytes(encodeModifiedUTF8(<<s>>[i]))]
<1>0. <<>> \in Bytes
  BY DEF Bytes
<1>1. b \in Bytes
  BY <1>0, ReadStringOf
<1>2. DOMAIN <<s>> = 1 .. 1 /\ <<s>>[1] = s
  OBVIOUS
<1>3. Tuple(parts, 1) /\ parts[1] = b
  BY <1>2 DEF Tuple
<1> HIDE DEF b, parts
<1>4. ByteParts(parts, 1)
  BY <1>1, <1>3 DEF ByteParts
<1>5. PICK w : Written(parts, 1, <<>>, w)
  BY <1>0, <1>4, WrittenIs
<1>6. FlattenSeq(parts) \in Bytes
  BY <1>0, <1>4, WrittenIs
<1>7. FlattenSeq(parts) \o <<>> = parts[1] \o <<>>
  <2>1. w[1] = <<>> /\ w[0] = FlattenSeq(parts) \o <<>>
    BY <1>5 DEF Written
  <2>2. w[1 - 1] = parts[1] \o w[1]
    <3>1. 1 \in 1 .. 1
      OBVIOUS
    <3> QED BY <1>5, <3>1 DEF Written
  <2>3. 1 - 1 = 0
    OBVIOUS
  <2>4. w[0] = parts[1] \o w[1]
    BY <2>2, <2>3
  <2> QED BY <2>1, <2>4
<1>8. FlattenSeq(parts) = b
  BY <1>1, <1>3, <1>6, <1>7, NoneBefore DEF Bytes
<1> QED BY <1>8 DEF Strings, parts, b

(* Fields of one number. *)
LEMMA NumField ==
  ASSUME NEW types, NEW f, FieldOK(types, f), f[1] \in {"u8", "short", "int", "long"}
  PROVE  FieldReads(types, f)
<1> DEFINE x == f[2]
<1>0. f[1] \notin {"str", "meta", "simple", "rows"}
  OBVIOUS
<1>1. GotField(types, f) = x /\ ~HasRows(f[1]) /\ \A m : KeptMeta(f, m) = m
  BY <1>0 DEF GotField, HasRows, KeptMeta
<1>2. CASE f[1] = "u8"
  <2>1. x \in Byte /\ PutField(types, f) = <<x>>
    BY <1>2 DEF FieldOK, PutField, Byte
  <2> HIDE DEF x
  <2>2. <<x>> \in Bytes
    BY <2>1, OneByte
  <2>3. ASSUME NEW rest \in Bytes, NEW u, NEW m
        PROVE  ReadField(In(<<x>> \o rest, u, m), f[1]) = In(rest, x, m)
    <3> DEFINE r == In(<<x>> \o rest, u, m)
    <3>1. ReadU8(r) = In(rest, x, m)
      BY <2>1, ReadU8Of
    <3> HIDE DEF r
    <3>2. ReadField(r, f[1]) = ReadU8(r)
      BY <1>2 DEF ReadField
    <3> QED BY <3>1, <3>2 DEF r
  <2> QED BY <1>1, <2>1, <2>2, <2>3 DEF FieldReads
<1>3. ASSUME NEW n \in Nat \ {0}, Fits(n, x), PutField(types, f) = PutNum(n, x),
             \A r : ReadField(r, f[1]) = ReadNum(r, n)
      PROVE  FieldReads(types, f)
  <2> HIDE DEF x
  <2>1. PutNum(n, x) \in Bytes
    BY <1>3, PutNumFacts DEF Bytes, Fits
  <2>2. ASSUME NEW rest \in Bytes, NEW u, NEW m
        PROVE  ReadField(In(PutNum(n, x) \o rest, u, m), f[1]) = In(rest, x, m)
    BY <1>3, ReadNumOf
  <2> QED BY <1>1, <1>3, <2>1, <2>2 DEF FieldReads
<1>4. CASE f[1] = "short"
  <2>1. Fits(ShortLen, x) /\ PutField(types, f) = PutNum(ShortLen, x) /\ \A r : ReadField(r, f[1]) = ReadNum(r, ShortLen)
    BY <1>4 DEF FieldOK, PutField, ReadField
  <2> QED BY <1>3, <2>1, Lengths
<1>5. CASE f[1] = "int"
  <2>1. Fits(IntLen, x) /\ PutField(types, f) = PutNum(IntLen, x) /\ \A r : ReadField(r, f[1]) = ReadNum(r, IntLen)
    BY <1>5 DEF FieldOK, PutField, ReadField
  <2> QED BY <1>3, <2>1, Lengths
<1>6. CASE f[1] = "long"
  <2>1. Fits(LongLen, x) /\ PutField(types, f) = PutNum(LongLen, x) /\ \A r : ReadField(r, f[1]) = ReadNum(r, LongLen)
    BY <1>6 DEF FieldOK, PutField, ReadField
  <2> QED BY <1>3, <2>1, Lengths
<1> QED BY <1>2, <1>4, <1>5, <1>6

LEMMA StrField ==
  ASSUME NEW types, NEW f, FieldOK(types, f), f[1] = "str"
  PROVE  FieldReads(types, f)
<1> DEFINE s == f[2]  b == WriteBytes(encodeModifiedUTF8(s))
<1>1. TextOK(s) /\ PutField(types, f) = Strings(<<s>>) /\ \A r : ReadField(r, f[1]) = ReadString(r)
  BY DEF FieldOK, PutField, ReadField
<1>2. GotField(types, f) = GoText(s) /\ ~HasRows(f[1]) /\ \A m : KeptMeta(f, m) = m
  BY DEF GotField, HasRows, KeptMeta
<1> HIDE DEF s
<1>3. Strings(<<s>>) = b
  BY <1>1, StringIs
<1>4. <<>> \in Bytes
  BY DEF Bytes
<1>5. b \in Bytes
  BY <1>1, <1>4, ReadStringOf
<1>6. ASSUME NEW rest \in Bytes, NEW u, NEW m
      PROVE  ReadField(In(b \o rest, u, m), f[1]) = In(rest, GoText(s), m)
  BY <1>1, ReadStringOf
<1> HIDE DEF b
<1> QED BY <1>1, <1>2, <1>3, <1>5, <1>6 DEF FieldReads

LEMMA MetaField ==
  ASSUME NEW types, NEW f, FieldOK(types, f), f[1] = "meta"
  PROVE  FieldReads(types, f)
<1> DEFINE d == f[2]  b == writeMetadata(d)  g == GoMeta(d)
<1>1. MetaOK(d) /\ PutField(types, f) = b /\ \A r : ReadField(r, f[1]) = keepMeta(readMetadata(r))
  BY DEF FieldOK, PutField, ReadField
<1>2. GotField(types, f) = g /\ ~HasRows(f[1]) /\ \A m : KeptMeta(f, m) = g
  BY DEF GotField, HasRows, KeptMeta
<1> HIDE DEF d
<1>4. <<>> \in Bytes
  BY DEF Bytes
<1>5. b \in Bytes
  BY <1>1, <1>4, MetaRead
<1>6. ASSUME NEW rest \in Bytes, NEW u, NEW m
      PROVE  ReadField(In(b \o rest, u, m), f[1]) = In(rest, g, g)
  <2>1. readMetadata(In(b \o rest, u, m)) = In(rest, g, m)
    BY <1>1, MetaRead
  <2> HIDE DEF g, b
  <2>2. keepMeta(In(rest, g, m)) = In(rest, g, g)
    BY Input DEF keepMeta, In, RowInput
  <2> QED BY <1>1, <2>1, <2>2
<1> HIDE DEF b, g
<1> QED BY <1>1, <1>2, <1>5, <1>6 DEF FieldReads

LEMMA RowsAreOK ==
  ASSUME NEW types, NEW rows, RowsOK(types, rows), GoodTypes(types)
  PROVE  RowSetOK(types, rows)
<1>1. IsSeq(rows) /\ Fits(IntLen, Len(rows))
  BY DEF RowsOK
<1>2. DOMAIN rows = 1 .. Len(rows) /\ DOMAIN types = 1 .. Len(types)
  BY <1>1, SeqIsTuple DEF GoodTypes
<1>3. ASSUME NEW i \in 1 .. Len(rows) PROVE RowOK(types, rows[i])
  BY <1>2 DEF RowOK, RowsOK
<1> QED BY <1>1, <1>3 DEF RowSetOK

LEMMA PutRowsBytes ==
  ASSUME NEW types, NEW rows, RowSetOK(types, rows)
  PROVE  PutRows(types, rows) \in Bytes
<1> DEFINE m == [types |-> types]
<1>1. m.types = types /\ <<>> \in Bytes
  BY DEF Bytes
<1> HIDE DEF m
<1> QED BY <1>1, RowsCount

LEMMA RowsField ==
  ASSUME NEW types, GoodTypes(types), NEW f, FieldOK(types, f), f[1] = "simple"
  PROVE  IF KnownField(types, f) THEN FieldReads(types, f) ELSE FieldFails(types, f)
<1> DEFINE rows == f[2]  b == PutRows(types, rows)  g == GotRows(types, rows)
<1>1. RowsOK(types, rows) /\ PutField(types, f) = b /\ \A r : ReadField(r, f[1]) = readRowSetSimple(r)
  BY DEF FieldOK, PutField, ReadField
<1>2. GotField(types, f) = g /\ HasRows(f[1]) /\ \A m : KeptMeta(f, m) = m
  BY DEF GotField, HasRows, KeptMeta
<1>3. KnownField(types, f) = KnownRows(types, rows)
  BY DEF KnownField, HasRows, RowsOf, KnownRows
<1> HIDE DEF rows
<1>4. RowSetOK(types, rows)
  BY <1>1, RowsAreOK
<1>5. b \in Bytes
  BY <1>4, PutRowsBytes
<1>6. CASE KnownRows(types, rows)
  <2>1. ASSUME NEW rest \in Bytes, NEW u, NEW m, m.types = types
        PROVE  ReadField(In(b \o rest, u, m), f[1]) = In(rest, g, m)
    BY <1>1, <1>4, <1>6, <2>1, RowsKnown
  <2> HIDE DEF b, g
  <2>2. FieldReads(types, f)
    BY <1>1, <1>2, <1>5, <2>1 DEF FieldReads
  <2> QED BY <1>3, <1>6, <2>2
<1>7. CASE ~KnownRows(types, rows)
  <2>1. ASSUME NEW rest \in Bytes, NEW m, m.types = types
        PROVE  \E c, x : \A u : ReadField(In(b \o rest, u, m), f[1]) = Bad(c, x, m)
    BY <1>1, <1>4, <1>7, <2>1, RowsUnknown
  <2> HIDE DEF b, g
  <2>2. FieldFails(types, f)
    BY <1>1, <1>2, <1>5, <2>1 DEF FieldFails
  <2> QED BY <1>3, <1>7, <2>2
<1> QED BY <1>6, <1>7

LEMMA BlockField ==
  ASSUME NEW types, GoodTypes(types), NEW f, FieldOK(types, f), f[1] = "rows"
  PROVE  IF KnownField(types, f) THEN FieldReads(types, f) ELSE FieldFails(types, f)
<1> DEFINE head == f[2][1]  rows == f[2][2]  b == PutBlock(types, head, rows)  g == GotRows(types, rows)  hg == <<head, g>>
<1>1. RowsOK(types, rows) /\ PutField(types, f) = b /\ \A r : ReadField(r, f[1]) = readRowSet(r)
  BY DEF FieldOK, PutField, ReadField, PutBlock, PutHead
<1>2. GotField(types, f) = hg /\ HasRows(f[1]) /\ \A m : KeptMeta(f, m) = m
  BY DEF GotField, HasRows, KeptMeta
<1>3. KnownField(types, f) = KnownRows(types, rows)
  BY DEF KnownField, HasRows, RowsOf, KnownRows
<1>0. BlockOK(head)
  BY DEF FieldOK, BlockOK
<1> HIDE DEF rows, head
<1>4. RowSetOK(types, rows)
  BY <1>1, RowsAreOK
<1>5. b \in Bytes
  <2>1. PutRows(types, rows) \in Bytes
    BY <1>4, PutRowsBytes
  <2>2. <<>> \in Bytes
    BY DEF Bytes
  <2>3. PutHead(head) \in Bytes
    BY <1>0, <2>2, ReadHead
  <2> QED BY <2>1, <2>3 DEF PutBlock, Bytes
<1>6. CASE KnownRows(types, rows)
  <2>1. ASSUME NEW rest \in Bytes, NEW u, NEW m, m.types = types
        PROVE  ReadField(In(b \o rest, u, m), f[1]) = In(rest, hg, m)
    BY <1>0, <1>1, <1>4, <1>6, <2>1, BlockKnown
  <2> HIDE DEF b, hg
  <2>2. FieldReads(types, f)
    BY <1>1, <1>2, <1>5, <2>1 DEF FieldReads
  <2> QED BY <1>3, <1>6, <2>2
<1>7. CASE ~KnownRows(types, rows)
  <2>1. ASSUME NEW rest \in Bytes, NEW m, m.types = types
        PROVE  \E c, x : \A u : ReadField(In(b \o rest, u, m), f[1]) = Bad(c, x, m)
    BY <1>0, <1>1, <1>4, <1>7, <2>1, BlockUnknown
  <2> HIDE DEF b, hg
  <2>2. FieldFails(types, f)
    BY <1>1, <1>2, <1>5, <2>1 DEF FieldFails
  <2> QED BY <1>3, <1>7, <2>2
<1> QED BY <1>6, <1>7

LEMMA FieldRead ==
  ASSUME NEW types, GoodTypes(types), NEW f, FieldOK(types, f)
  PROVE  IF KnownField(types, f) THEN FieldReads(types, f) ELSE HasRows(f[1]) /\ FieldFails(types, f)
<1>1. f[1] \in {"u8", "short", "int", "long", "str", "meta", "simple", "rows"}
  BY DEF FieldOK
<1>2. ~KnownField(types, f) => HasRows(f[1])
  BY DEF KnownField
<1>3. ~HasRows(f[1]) => KnownField(types, f)
  BY DEF KnownField
<1> QED BY <1>1, <1>2, <1>3, NumField, StrField, MetaField, RowsField, BlockField DEF HasRows

-----------------------------------------------------------------------------
(***************************************************************************)
(* The result of a frame.                                                  *)
(***************************************************************************)

(* Only the last field has rows, and only the one before it their types.   *)
RowsLast(kinds, n) ==
  \A j \in 1 .. n : HasRows(kinds[j]) =>
    /\ j = n /\ n > 1 /\ kinds[n - 1] = "meta"
    /\ \A i \in 1 .. n - 2 : kinds[i] # "meta"

LEMMA LayoutLast ==
  ASSUME NEW mode \in DOMAIN Layout
  PROVE  RowsLast(Layout[mode], Len(Layout[mode])) /\ Len(Layout[mode]) \in Nat
<1>0. mode \in {1, 2, 3, 4, 6, 7, 11, 14, 15, 16, 19, 20, 38, 43}
  BY DEF Layout
<1> DEFINE k == Layout[mode]
<1>1. CASE mode = 1
  <2>1. k = <<"int">>
    BY <1>1 DEF Layout
  <2> QED BY <2>1 DEF RowsLast, HasRows
<1>2. CASE mode \in {2, 19}
  <2>1. k = <<"str", "str", "int">>
    BY <1>2 DEF Layout
  <2> QED BY <2>1 DEF RowsLast, HasRows
<1>3. CASE mode \in {3, 15, 20}
  <2>1. k = <<"long", "int", "int", "u8", "meta", "rows">>
    BY <1>3 DEF Layout, Data
  <2> QED BY <2>1 DEF RowsLast, HasRows
<1>4. CASE mode = 14
  <2>1. k = <<"meta", "rows">>
    BY <1>4 DEF Layout
  <2> QED BY <2>1 DEF RowsLast, HasRows
<1>5. CASE mode = 4
  <2>1. k = <<"u8", "long", "u8", "meta", "meta">>
    BY <1>5 DEF Layout
  <2> QED BY <2>1 DEF RowsLast, HasRows
<1>6. CASE mode \in {6, 16}
  <2>1. k = <<"int", "int", "long", "short", "meta", "simple">>
    BY <1>6 DEF Layout, Simple
  <2> QED BY <2>1 DEF RowsLast, HasRows
<1>7. CASE mode \in {7, 38}
  <2>1. k = <<>>
    BY <1>7 DEF Layout
  <2> QED BY <2>1 DEF RowsLast, HasRows
<1>8. CASE mode = 11
  <2>1. k = <<"int", "long", "str", "str", "int">>
    BY <1>8 DEF Layout
  <2> QED BY <2>1 DEF RowsLast, HasRows
<1>9. CASE mode = 43
  <2>1. k = <<"int", "int", "long", "u8", "u8", "meta", "simple">>
    BY <1>9 DEF Layout
  <2> QED BY <2>1 DEF RowsLast, HasRows
<1> QED BY <1>0, <1>1, <1>2, <1>3, <1>4, <1>5, <1>6, <1>7, <1>8, <1>9

Kinds(fs) == [j \in DOMAIN fs |-> fs[j][1]]

(* Well-formed fields of any frame, and those with the layout of a mode.   *)
FieldsOK(fs) == IsSeq(fs) /\ \A j \in 1 .. Len(fs) : FieldOK(RowTypes(fs), fs[j])
LaidOut(fs) == FieldsOK(fs) /\ RowsLast(Kinds(fs), Len(fs))

LEMMA KindsIs ==
  ASSUME NEW fs, IsSeq(fs)
  PROVE  /\ Len(fs) \in Nat /\ DOMAIN fs = 1 .. Len(fs) /\ Len(Kinds(fs)) = Len(fs)
         /\ \A j \in 1 .. Len(fs) : Kinds(fs)[j] = fs[j][1]
<1>1. Len(fs) \in Nat /\ DOMAIN fs = 1 .. Len(fs)
  BY SeqIsTuple
<1>2. Tuple(Kinds(fs), Len(fs))
  BY <1>1 DEF Kinds, Tuple
<1>3. Len(Kinds(fs)) = Len(fs)
  BY <1>1, <1>2, TupleLen
<1> QED BY <1>1, <1>3 DEF Kinds

(* The types of the rows are those of the first metadata. *)
LEMMA TypesGood ==
  ASSUME NEW fs, FieldsOK(fs)
  PROVE  GoodTypes(RowTypes(fs))
<1> DEFINE metas == {i \in DOMAIN fs : fs[i][1] = "meta"}
<1>0. Len(fs) \in Nat /\ DOMAIN fs = 1 .. Len(fs)
  BY KindsIs DEF FieldsOK
<1>1. CASE metas = {}
  <2>1. RowTypes(fs) = <<>>
    BY <1>1 DEF RowTypes
  <2>2. IsSeq(<<>>) /\ Len(<<>>) = 0
    BY DEF IsSeq
  <2> QED BY <2>1, <2>2 DEF GoodTypes
<1>2. CASE metas # {}
  <2> DEFINE k == CHOOSE i \in metas : \A j \in metas : i <= j
  <2>1. metas \in SUBSET Nat
    BY <1>0
  <2> HIDE DEF metas
  <2>2. \E i \in metas : \A j \in metas : i <= j
    BY <1>2, <2>1, LeastNat
  <2>3. k \in metas
    BY <2>2
  <2>4. RowTypes(fs) = fs[k][2].types
    BY <1>2 DEF RowTypes, metas
  <2> HIDE DEF k
  <2>5. k \in 1 .. Len(fs) /\ fs[k][1] = "meta"
    BY <1>0, <2>3 DEF metas
  <2>6. MetaOK(fs[k][2])
    BY <2>5 DEF FieldsOK, FieldOK
  <2> DEFINE d == fs[k][2]
  <2> HIDE DEF d
  <2>7. IsSeq(d.types) /\ d.kind \in 1 .. 6
    BY <2>6 DEF MetaOK, d
  <2>8. ASSUME NEW j \in 1 .. Len(d.types) PROVE GoodType(d.types[j])
    <3>1. CASE d.kind \in {2, 3}
      <4>1. SimpleTypeOK(d.types[j])
        BY <2>6, <3>1 DEF MetaOK, d
      <4> QED BY <4>1 DEF SimpleTypeOK, GoodType
    <3>2. CASE d.kind \in {5, 6}
      <4>1. d.types = <<>>
        BY <2>6, <3>2 DEF MetaOK, d
      <4> QED BY <4>1
    <3>3. CASE d.kind \in {1, 4}
      <4>1. FullTypeOK(d.types[j])
        BY <2>6, <3>3 DEF MetaOK, d
      <4> DEFINE c == d.types[j].code  e == d.types[j].base
      <4>2. SimpleTypeOK(TypeOf(c, e))
        BY <4>1 DEF FullTypeOK
      <4> HIDE DEF c, e
      <4>3. TypeOf(c, e).code = c /\ TypeOf(c, e).base = e
        BY DEF TypeOf, ColumnType
      <4> QED BY <4>2, <4>3 DEF SimpleTypeOK, GoodType, c, e
    <3> QED BY <2>7, <3>1, <3>2, <3>3
  <2>9. GoodTypes(d.types)
    BY <2>7, <2>8 DEF GoodTypes
  <2> QED BY <2>4, <2>9 DEF d
<1> QED BY <1>1, <1>2

(* The metadata kept after i fields: the last one of them. *)
LastMetas(fs, i) == {k \in 1 .. i : fs[k][1] = "meta" /\ \A j \in k + 1 .. i : fs[j][1] # "meta"}
MetaAfter(fs, i) == IF LastMetas(fs, i) = {} THEN <<>> ELSE GoMeta(fs[CHOOSE k \in LastMetas(fs, i) : TRUE][2])

LEMMA MetaSteps ==
  ASSUME NEW fs, NEW i \in Nat \ {0}
  PROVE  MetaAfter(fs, i) = KeptMeta(fs[i], MetaAfter(fs, i - 1))
<1>1. CASE fs[i][1] = "meta"
  <2>1. LastMetas(fs, i) = {i}
    BY <1>1 DEF LastMetas
  <2>2. (CHOOSE k \in {i} : TRUE) = i
    OBVIOUS
  <2> QED BY <1>1, <2>1, <2>2 DEF MetaAfter, KeptMeta
<1>2. CASE fs[i][1] # "meta"
  <2>1. LastMetas(fs, i) = LastMetas(fs, i - 1)
    BY <1>2 DEF LastMetas
  <2> QED BY <1>2, <2>1 DEF MetaAfter, KeptMeta
<1> QED BY <1>1, <1>2

LEMMA FirstMeta ==
  ASSUME NEW fs
  PROVE  MetaAfter(fs, 0) = <<>>
BY DEF MetaAfter, LastMetas

LEMMA MetaOfRows ==
  ASSUME NEW fs, LaidOut(fs), HasRows(fs[Len(fs)][1]), Len(fs) # 0
  PROVE  Len(fs) > 1 /\ MetaAfter(fs, Len(fs) - 1).types = RowTypes(fs)
<1> DEFINE n == Len(fs)  metas == {i \in DOMAIN fs : fs[i][1] = "meta"}
<1>0. n \in Nat \ {0} /\ DOMAIN fs = 1 .. n /\ \A j \in 1 .. n : Kinds(fs)[j] = fs[j][1]
  BY KindsIs DEF LaidOut, FieldsOK
<1> HIDE DEF n
<1>1. n > 1 /\ fs[n - 1][1] = "meta" /\ \A i \in 1 .. n - 2 : fs[i][1] # "meta"
  <2>1. n \in 1 .. n /\ HasRows(Kinds(fs)[n])
    BY <1>0 DEF n
  <2>2. n > 1 /\ Kinds(fs)[n - 1] = "meta" /\ \A i \in 1 .. n - 2 : Kinds(fs)[i] # "meta"
    BY <2>1 DEF LaidOut, RowsLast, n
  <2> QED BY <1>0, <2>2
<1>2. fs[n][1] # "meta"
  BY DEF HasRows, n
<1>3. metas = {n - 1}
  BY <1>0, <1>1, <1>2
<1>4. RowTypes(fs) = fs[n - 1][2].types
  <2> HIDE DEF metas
  <2>1. (CHOOSE i \in metas : \A j \in metas : i <= j) = n - 1
    BY <1>0, <1>3
  <2>2. RowTypes(fs) = fs[CHOOSE i \in metas : \A j \in metas : i <= j][2].types
    BY <1>3 DEF RowTypes, metas
  <2> QED BY <2>1, <2>2
<1>5. MetaAfter(fs, n - 1) = GoMeta(fs[n - 1][2])
  BY <1>0, <1>1, MetaSteps DEF KeptMeta
<1>6. GoMeta(fs[n - 1][2]).types = fs[n - 1][2].types
  BY DEF GoMeta, Meta
<1> QED BY <1>1, <1>4, <1>5, <1>6 DEF n

FieldParts(fs) == [i \in 1 .. Len(fs) |-> PutField(RowTypes(fs), fs[i])]
GotFields(fs)  == [i \in 1 .. Len(fs) |-> GotField(RowTypes(fs), fs[i])]
KnownFields(fs) == \A i \in 1 .. Len(fs) : KnownField(RowTypes(fs), fs[i])

LEMMA PayloadIs ==
  ASSUME NEW f, IsSeq(f.fields)
  PROVE  Payload(f) = FlattenSeq(FieldParts(f.fields))
<1>1. DOMAIN f.fields = 1 .. Len(f.fields)
  BY KindsIs
<1> QED BY <1>1 DEF Payload, Flat, FieldParts

LEMMA FieldPartsOK ==
  ASSUME NEW fs, FieldsOK(fs)
  PROVE  /\ Len(fs) \in Nat /\ ByteParts(FieldParts(fs), Len(fs))
         /\ \A i \in 1 .. Len(fs) : FieldParts(fs)[i] = PutField(RowTypes(fs), fs[i])
<1>1. Len(fs) \in Nat /\ GoodTypes(RowTypes(fs))
  BY KindsIs, TypesGood DEF FieldsOK
<1>2. ASSUME NEW i \in 1 .. Len(fs) PROVE PutField(RowTypes(fs), fs[i]) \in Bytes
  <2>1. FieldOK(RowTypes(fs), fs[i])
    BY DEF FieldsOK
  <2> QED BY <1>1, <2>1, FieldRead DEF FieldReads, FieldFails
<1>3. Tuple(FieldParts(fs), Len(fs)) /\ \A i \in 1 .. Len(fs) : FieldParts(fs)[i] = PutField(RowTypes(fs), fs[i])
  BY DEF FieldParts, Tuple
<1> QED BY <1>1, <1>2, <1>3 DEF ByteParts

LEMMA FieldStep ==
  ASSUME NEW fs, LaidOut(fs), NEW i \in 1 .. Len(fs), KnownField(RowTypes(fs), fs[i]), NEW rest \in Bytes, NEW u
  PROVE  ReadField(In(PutField(RowTypes(fs), fs[i]) \o rest, u, MetaAfter(fs, i - 1)), fs[i][1])
           = In(rest, GotField(RowTypes(fs), fs[i]), MetaAfter(fs, i))
<1> DEFINE ts == RowTypes(fs)  m == MetaAfter(fs, i - 1)
<1>0. Len(fs) \in Nat /\ \A j \in 1 .. Len(fs) : Kinds(fs)[j] = fs[j][1]
  BY KindsIs DEF LaidOut, FieldsOK
<1>1. GoodTypes(ts) /\ FieldOK(ts, fs[i])
  BY TypesGood DEF LaidOut, FieldsOK
<1>2. HasRows(fs[i][1]) => m.types = ts
  <2>1. SUFFICES ASSUME HasRows(fs[i][1]) PROVE m.types = ts
    OBVIOUS
  <2>2. i = Len(fs)
    BY <1>0, <2>1 DEF LaidOut, RowsLast
  <2> QED BY <1>0, <2>1, <2>2, MetaOfRows
<1>3. MetaAfter(fs, i) = KeptMeta(fs[i], m)
  BY <1>0, MetaSteps
<1> HIDE DEF ts, m
<1>4. FieldReads(ts, fs[i])
  BY <1>1, FieldRead DEF ts
<1>5. ReadField(In(PutField(ts, fs[i]) \o rest, u, m), fs[i][1]) = In(rest, GotField(ts, fs[i]), KeptMeta(fs[i], m))
  BY <1>2, <1>4 DEF FieldReads
<1> QED BY <1>3, <1>5 DEF ts, m

LEMMA FieldsRead ==
  ASSUME NEW fs, LaidOut(fs), KnownFields(fs)
  PROVE  ReadEach(NewRowInput(FlattenSeq(FieldParts(fs))), Kinds(fs), ReadField)
           = In(<<>>, GotFields(fs), MetaAfter(fs, Len(fs)))
<1> DEFINE n == Len(fs)  parts == FieldParts(fs)  ks == Kinds(fs)  y == GotFields(fs)
           ff == Still(n, 0)  mm == [i \in 0 .. n |-> MetaAfter(fs, i)]
<1>1. n \in Nat /\ ByteParts(parts, n) /\ \A i \in 1 .. n : parts[i] = PutField(RowTypes(fs), fs[i])
  BY FieldPartsOK DEF LaidOut
<1>2. Len(ks) = n /\ \A i \in 1 .. n : ks[i] = fs[i][1]
  BY KindsIs DEF LaidOut, FieldsOK
<1>3. Tuple(y, n) /\ \A i \in 1 .. n : y[i] = GotField(RowTypes(fs), fs[i])
  BY DEF GotFields, Tuple
<1>4. \A i \in 0 .. n : ff[i] = 0 /\ mm[i] = MetaAfter(fs, i)
  BY DEF Still
<1>5. <<>> \in Bytes
  BY DEF Bytes
<1> HIDE DEF n, parts, ks, y, ff, mm
<1>6. PICK w : Written(parts, n, <<>>, w)
  BY <1>1, <1>5, WrittenIs
<1>7. FlattenSeq(parts) \in Bytes
  BY <1>1, <1>5, WrittenIs
<1>8. ASSUME NEW i \in 0 .. n, NEW v PROVE At(w[i], ff[i], v, mm[i]) = In(w[i], v, MetaAfter(fs, i))
  BY <1>4 DEF At
<1>9. ASSUME NEW i \in 1 .. n, NEW v
      PROVE  ReadField(At(w[i - 1], ff[i - 1], v, mm[i - 1]), ks[i]) = At(w[i], ff[i], y[i], mm[i])
  <2>1. i - 1 \in 0 .. n /\ i \in 0 .. n
    BY <1>1
  <2>2. w[i - 1] = parts[i] \o w[i] /\ w[i] \in Bytes
    BY <1>6, <2>1 DEF Written
  <2>3. KnownField(RowTypes(fs), fs[i])
    BY DEF KnownFields, n
  <2>4. ReadField(In(PutField(RowTypes(fs), fs[i]) \o w[i], v, MetaAfter(fs, i - 1)), fs[i][1])
           = In(w[i], GotField(RowTypes(fs), fs[i]), MetaAfter(fs, i))
    BY <2>2, <2>3, FieldStep DEF n
  <2>5. At(w[i - 1], ff[i - 1], v, mm[i - 1]) = In(PutField(RowTypes(fs), fs[i]) \o w[i], v, MetaAfter(fs, i - 1))
    BY <1>1, <1>8, <2>1, <2>2
  <2>6. At(w[i], ff[i], y[i], mm[i]) = In(w[i], GotField(RowTypes(fs), fs[i]), MetaAfter(fs, i))
    BY <1>3, <1>8, <2>1
  <2> QED BY <1>2, <2>4, <2>5, <2>6
<1>10. ReadsField(ks, w, ff, y, mm, n)
  BY <1>2, <1>3, <1>9 DEF ReadsField
<1>11. ASSUME NEW v PROVE ReadEach(At(w[0], ff[0], v, mm[0]), ks, ReadField) = At(w[n], ff[n], y, mm[n])
  BY <1>1, <1>10, EachField
<1>12. 0 \in 0 .. n /\ n \in 0 .. n
  BY <1>1
<1>13. At(w[0], ff[0], Null, mm[0]) = NewRowInput(FlattenSeq(parts))
  <2>1. w[0] = FlattenSeq(parts)
    BY <1>6, <1>7, NoneBefore DEF Written, Bytes
  <2> QED BY <1>8, <1>12, <2>1, FirstMeta DEF NewRowInput, In
<1>14. At(w[n], ff[n], y, mm[n]) = In(<<>>, y, MetaAfter(fs, n))
  BY <1>6, <1>8, <1>12 DEF Written
<1>15. ReadEach(NewRowInput(FlattenSeq(parts)), ks, ReadField) = In(<<>>, y, MetaAfter(fs, n))
  BY <1>11, <1>13, <1>14
<1> QED BY <1>15 DEF n, parts, ks, y

LEMMA FieldsFail ==
  ASSUME NEW fs, LaidOut(fs), ~KnownFields(fs)
  PROVE  ReadEach(NewRowInput(FlattenSeq(FieldParts(fs))), Kinds(fs), ReadField).err = TRUE
<1> DEFINE n == Len(fs)  parts == FieldParts(fs)  ks == Kinds(fs)  ts == RowTypes(fs)
<1>1. n \in Nat /\ ByteParts(parts, n) /\ \A i \in 1 .. n : parts[i] = PutField(ts, fs[i])
  BY FieldPartsOK DEF LaidOut
<1>2. Len(ks) = n /\ \A i \in 1 .. n : ks[i] = fs[i][1]
  BY KindsIs DEF LaidOut, FieldsOK
<1>3. PICK j \in 1 .. n : ~KnownField(ts, fs[j])
  BY DEF KnownFields
<1>4. GoodTypes(ts) /\ \A i \in 1 .. n : FieldOK(ts, fs[i])
  BY TypesGood DEF LaidOut, FieldsOK
<1> HIDE DEF parts, ks, ts
<1>5. HasRows(fs[j][1]) /\ FieldFails(ts, fs[j])
  BY <1>3, <1>4, FieldRead
<1>6. j = n
  BY <1>2, <1>5 DEF LaidOut, RowsLast, ks
<1>7. n # 0 /\ n > 1 /\ MetaAfter(fs, n - 1).types = ts
  BY <1>1, <1>5, <1>6, MetaOfRows DEF ts
<1>8. \A i \in 1 .. n - 1 : KnownField(ts, fs[i])
  <2>1. ASSUME NEW i \in 1 .. n - 1 PROVE ~HasRows(fs[i][1])
    BY <1>1, <1>2 DEF LaidOut, RowsLast, ks
  <2> QED BY <2>1 DEF KnownField
<1>9. <<>> \in Bytes
  BY DEF Bytes
<1> DEFINE m == MetaAfter(fs, n - 1)
<1>10. PICK c, x : \A u : ReadField(In(PutField(ts, fs[n]) \o <<>>, u, m), fs[n][1]) = Bad(c, x, m)
  <2> HIDE DEF n
  <2>1. FieldFails(ts, fs[n]) /\ m.types = ts
    BY <1>5, <1>6, <1>7
  <2> DEFINE f == fs[n]
  <2> HIDE DEF m, f
  <2>2. FieldFails(ts, f)
    BY <2>1 DEF f
  <2> DEFINE ee == <<>>
  <2>3. ee \in Bytes
    BY <1>9
  <2> HIDE DEF ee
  <2>4. \E c, x : \A u : ReadField(In(PutField(ts, f) \o ee, u, m), f[1]) = Bad(c, x, m)
    BY <2>1, <2>2, <2>3 DEF FieldFails
  <2> QED BY <2>4 DEF f, ee
<1>11. PICK w : Written(parts, n, <<>>, w)
  BY <1>1, <1>9, WrittenIs
<1>12. FlattenSeq(parts) \in Bytes
  BY <1>1, <1>9, WrittenIs
<1> DEFINE bb == [i \in 0 .. n |-> IF i = n THEN c ELSE w[i]]
           ff == [i \in 0 .. n |-> IF i = n THEN 1 ELSE 0]
           mm == [i \in 0 .. n |-> IF i = n THEN m ELSE MetaAfter(fs, i)]
           y  == [i \in 1 .. n |-> IF i = n THEN x ELSE GotField(ts, fs[i])]
<1>13. \A i \in 0 .. n - 1 : bb[i] = w[i] /\ ff[i] = 0 /\ mm[i] = MetaAfter(fs, i)
  BY <1>1
<1>14. bb[n] = c /\ ff[n] = 1 /\ mm[n] = m
  BY <1>1
<1>15. Tuple(y, n) /\ y[n] = x /\ \A i \in 1 .. n - 1 : y[i] = GotField(ts, fs[i])
  BY <1>1, <1>7 DEF Tuple
<1> HIDE DEF bb, ff, mm, y, m, n
<1>16. ASSUME NEW i \in 0 .. n - 1, NEW v PROVE At(bb[i], ff[i], v, mm[i]) = In(w[i], v, MetaAfter(fs, i))
  BY <1>13 DEF At
<1>17. ASSUME NEW v PROVE At(bb[n], ff[n], v, mm[n]) = Bad(c, v, m)
  BY <1>14 DEF At
<1>18. ASSUME NEW i \in 1 .. n, NEW v
       PROVE  ReadField(At(bb[i - 1], ff[i - 1], v, mm[i - 1]), ks[i]) = At(bb[i], ff[i], y[i], mm[i])
  <2>1. i - 1 \in 0 .. n - 1 /\ i \in 0 .. n
    BY <1>1
  <2>2. w[i - 1] = PutField(ts, fs[i]) \o w[i] /\ w[i] \in Bytes
    BY <1>1, <1>11, <2>1 DEF Written
  <2>3. At(bb[i - 1], ff[i - 1], v, mm[i - 1]) = In(PutField(ts, fs[i]) \o w[i], v, MetaAfter(fs, i - 1))
    BY <1>16, <2>1, <2>2
  <2>4. CASE i = n
    <3>1. w[n] = <<>>
      BY <1>11 DEF Written
    <3>2. ReadField(In(PutField(ts, fs[n]) \o <<>>, v, m), fs[n][1]) = Bad(c, x, m)
      BY <1>10
    <3>3. At(bb[i], ff[i], y[i], mm[i]) = Bad(c, x, m)
      BY <1>15, <1>17, <2>4
    <3> QED BY <1>2, <2>3, <2>4, <3>1, <3>2, <3>3 DEF m
  <2>5. CASE i # n
    <3>1. i \in 0 .. n - 1 /\ i \in 1 .. n - 1
      BY <1>1, <2>1, <2>5
    <3>2. At(bb[i], ff[i], y[i], mm[i]) = In(w[i], GotField(ts, fs[i]), MetaAfter(fs, i))
      BY <1>15, <1>16, <3>1
    <3>3. KnownField(ts, fs[i])
      BY <1>8, <3>1
    <3>4. ReadField(In(PutField(ts, fs[i]) \o w[i], v, MetaAfter(fs, i - 1)), fs[i][1])
            = In(w[i], GotField(ts, fs[i]), MetaAfter(fs, i))
      BY <2>2, <3>3, FieldStep DEF ts, n
    <3> QED BY <1>2, <2>3, <3>2, <3>4
  <2> QED BY <2>4, <2>5
<1>19. ReadsField(ks, bb, ff, y, mm, n)
  BY <1>2, <1>15, <1>18 DEF ReadsField
<1>20. ASSUME NEW v PROVE ReadEach(At(bb[0], ff[0], v, mm[0]), ks, ReadField) = At(bb[n], ff[n], y, mm[n])
  BY <1>1, <1>19, EachField
<1>21. At(bb[0], ff[0], Null, mm[0]) = NewRowInput(FlattenSeq(parts))
  <2>1. w[0] = FlattenSeq(parts)
    BY <1>11, <1>12, NoneBefore DEF Written, Bytes
  <2>2. 0 \in 0 .. n - 1
    BY <1>1, <1>7
  <2> QED BY <1>16, <2>1, <2>2, FirstMeta DEF NewRowInput, In
<1>22. ReadEach(NewRowInput(FlattenSeq(parts)), ks, ReadField) = Bad(c, y, m)
  BY <1>17, <1>20, <1>21
<1> QED BY <1>22, Broken DEF parts, ks

FrameKnown(f) == f.mode \in DOMAIN Layout /\ KnownFields(f.fields)

LEMMA FrameFields ==
  ASSUME NEW f, FrameOK(f)
  PROVE  FieldsOK(f.fields)
<1>1. IsSeq(f.fields) /\ \A j \in DOMAIN f.fields : FieldOK(RowTypes(f.fields), f.fields[j])
  BY DEF FrameOK
<1>2. DOMAIN f.fields = 1 .. Len(f.fields)
  BY <1>1, KindsIs
<1> QED BY <1>1, <1>2 DEF FieldsOK

LEMMA FramePayload ==
  ASSUME NEW f, FrameOK(f)
  PROVE  Payload(f) \in Bytes /\ Payload(f) = FlattenSeq(FieldParts(f.fields))
<1>1. FieldsOK(f.fields)
  BY FrameFields
<1>2. Payload(f) = FlattenSeq(FieldParts(f.fields))
  BY <1>1, PayloadIs DEF FieldsOK
<1>3. Len(f.fields) \in Nat /\ ByteParts(FieldParts(f.fields), Len(f.fields))
  BY <1>1, FieldPartsOK
<1>4. <<>> \in Bytes
  BY DEF Bytes
<1> QED BY <1>2, <1>3, <1>4, WrittenIs

(* The layout that DecodeResult reads is that of the fields. *)
LEMMA FrameLayout ==
  ASSUME NEW f, FrameOK(f), f.mode \in DOMAIN Layout
  PROVE  /\ LaidOut(f.fields)
         /\ Kinds(f.fields) = IF f.mode = 6 /\ Payload(f) = <<>> THEN <<>> ELSE Layout[f.mode]
<1> DEFINE fs == f.fields  n == Len(fs)
<1>1. FieldsOK(fs)
  BY FrameFields
<1>2. n \in Nat /\ DOMAIN fs = 1 .. n /\ Len(Kinds(fs)) = n /\ \A j \in 1 .. n : Kinds(fs)[j] = fs[j][1]
  BY <1>1, KindsIs DEF FieldsOK
<1>3. Payload(f) = FlattenSeq(FieldParts(fs))
  BY FramePayload
<1>4. CASE f.mode = 6 /\ fs = <<>>
  <2>1. Kinds(fs) = <<>>
    BY <1>4 DEF Kinds
  <2>2. n = 0
    BY <1>4
  <2>3. RowsLast(Kinds(fs), n)
    BY <2>2 DEF RowsLast
  <2>4. FieldParts(fs) = <<>>
    BY <2>2 DEF FieldParts
  <2>5. Payload(f) = <<>>
    BY <1>3, <2>4 DEF FlattenSeq
  <2> QED BY <1>1, <1>4, <2>1, <2>3, <2>5 DEF LaidOut
<1>5. CASE ~(f.mode = 6 /\ fs = <<>>)
  <2>1. Kinds(fs) = Layout[f.mode]
    BY <1>5 DEF FrameOK, Kinds
  <2>2. RowsLast(Kinds(fs), n)
    BY <1>2, <2>1, LayoutLast
  <2>3. ASSUME f.mode = 6 PROVE Payload(f) # <<>>
    <3>1. Layout[6] = <<"int", "int", "long", "short", "meta", "simple">>
      BY DEF Layout, Simple
    <3>2. n = 6 /\ fs[1][1] = "int"
      <4>1. Kinds(fs)[1] = "int" /\ Len(Kinds(fs)) = 6
        BY <2>1, <2>3, <3>1
      <4> QED BY <1>2, <4>1
    <3>3. FieldOK(RowTypes(fs), fs[1])
      BY <1>1, <3>2 DEF FieldsOK
    <3>4. Fits(IntLen, fs[1][2]) /\ PutField(RowTypes(fs), fs[1]) = PutNum(IntLen, fs[1][2])
      BY <3>2, <3>3 DEF FieldOK, PutField
    <3> DEFINE x == fs[1][2]  parts == FieldParts(fs)
    <3>5. PutNum(IntLen, x) \in Seq(Byte) /\ Len(PutNum(IntLen, x)) = IntLen
      BY <3>4, Lengths, PutNumFacts DEF Fits
    <3>6. ByteParts(parts, n) /\ parts[1] = PutNum(IntLen, x)
      <4> HIDE DEF fs
      <4>1. ByteParts(parts, n) /\ \A i \in 1 .. n : parts[i] = PutField(RowTypes(fs), fs[i])
        BY <1>1, FieldPartsOK
      <4>2. 1 \in 1 .. n
        BY <3>2
      <4> HIDE DEF parts, n
      <4>3. parts[1] = PutField(RowTypes(fs), fs[1])
        BY <4>1, <4>2
      <4> QED BY <3>4, <4>1, <4>3
    <3>7. <<>> \in Bytes
      BY DEF Bytes
    <3> HIDE DEF parts, x, n
    <3>8. PICK w : Written(parts, n, <<>>, w)
      BY <1>2, <3>6, <3>7, WrittenIs
    <3>9. FlattenSeq(parts) \o <<>> = PutNum(IntLen, x) \o w[1] /\ w[1] \in Bytes
      <4>1. 1 \in 1 .. n /\ 1 \in 0 .. n /\ 1 - 1 = 0
        BY <3>2
      <4>2. w[1 - 1] = parts[1] \o w[1] /\ w[1] \in Bytes /\ w[0] = FlattenSeq(parts) \o <<>>
        BY <3>8, <4>1 DEF Written
      <4> QED BY <3>6, <4>1, <4>2
    <3>10. FlattenSeq(parts) \in Bytes
      BY <1>2, <3>6, <3>7, WrittenIs
    <3> DEFINE a == PutNum(IntLen, x)  p == FlattenSeq(parts)  r == w[1]
    <3> HIDE DEF a, p, r
    <3>11. a \in Seq(Byte) /\ r \in Seq(Byte) /\ p \in Seq(Byte) /\ p \o <<>> = a \o r /\ Len(a) = IntLen
      BY <3>5, <3>9, <3>10 DEF Bytes, a, p, r
    <3>12. p = a \o r
      BY <3>11, NoneBefore
    <3>13. Len(p) = IntLen + Len(r) /\ Len(r) \in Nat
      BY <3>11, <3>12, Halves
    <3>14. p # <<>>
      BY <3>13, Lengths
    <3> QED BY <1>3, <3>14 DEF p, parts
  <2> QED BY <1>1, <2>1, <2>2, <2>3 DEF LaidOut
<1> QED BY <1>4, <1>5

LEMMA FrameDecodes ==
  ASSUME NEW f, FrameOK(f), FrameKnown(f)
  PROVE  \E m : DecodeResult(f.mode, Payload(f)) = In(<<>>, GotFields(f.fields), m)
<1>1. LaidOut(f.fields) /\ Kinds(f.fields) = IF f.mode = 6 /\ Payload(f) = <<>> THEN <<>> ELSE Layout[f.mode]
  BY FrameLayout DEF FrameKnown
<1>2. Payload(f) = FlattenSeq(FieldParts(f.fields))
  BY FramePayload
<1>3. DecodeResult(f.mode, Payload(f)) = ReadEach(NewRowInput(Payload(f)), Kinds(f.fields), ReadField)
  BY <1>1 DEF DecodeResult, FrameKnown
<1> QED BY <1>1, <1>2, <1>3, FieldsRead DEF FrameKnown

LEMMA FrameFails ==
  ASSUME NEW f, FrameOK(f), ~FrameKnown(f)
  PROVE  DecodeResult(f.mode, Payload(f)).err = TRUE
<1>1. CASE f.mode \in DOMAIN Layout
  <2>1. LaidOut(f.fields) /\ Kinds(f.fields) = IF f.mode = 6 /\ Payload(f) = <<>> THEN <<>> ELSE Layout[f.mode]
    BY <1>1, FrameLayout
  <2>2. Payload(f) = FlattenSeq(FieldParts(f.fields))
    BY FramePayload
  <2>3. DecodeResult(f.mode, Payload(f)) = ReadEach(NewRowInput(Payload(f)), Kinds(f.fields), ReadField)
    BY <1>1, <2>1 DEF DecodeResult
  <2> QED BY <1>1, <2>1, <2>2, <2>3, FieldsFail DEF FrameKnown
<1>2. CASE f.mode \notin DOMAIN Layout
  <2>1. DecodeResult(f.mode, Payload(f)) = Fail(NewRowInput(Payload(f)), Null)
    BY <1>2 DEF DecodeResult
  <2> QED BY <2>1 DEF Fail, RowInput
<1> QED BY <1>1, <1>2

(* Only a mode or a type that the driver does not know stops it. *)
LEMMA WhyUnknown ==
  ASSUME NEW frames, NEW l \in DOMAIN frames, FrameOK(frames[l]), ~FrameKnown(frames[l])
  PROVE  Unknown(frames)
<1> DEFINE f == frames[l]  fs == f.fields  ts == RowTypes(fs)
<1>1. CASE f.mode \notin DOMAIN Layout
  BY <1>1 DEF Unknown
<1>2. CASE f.mode \in DOMAIN Layout
  <2>1. FieldsOK(fs) /\ GoodTypes(ts)
    BY FrameFields, TypesGood
  <2>2. Len(fs) \in Nat /\ DOMAIN fs = 1 .. Len(fs)
    BY <2>1, KindsIs DEF FieldsOK
  <2>3. PICK j \in 1 .. Len(fs) : ~KnownField(ts, fs[j])
    BY <1>2 DEF FrameKnown, KnownFields
  <2> DEFINE rows == RowsOf(fs[j][1], fs[j][2])
  <2>4. HasRows(fs[j][1]) /\ ~KnownRows(ts, rows)
    BY <2>3 DEF KnownField
  <2>5. RowsOK(ts, rows)
    <3>1. FieldOK(ts, fs[j])
      BY <2>1 DEF FieldsOK
    <3>2. CASE fs[j][1] = "simple"
      BY <3>1, <3>2 DEF FieldOK, RowsOf
    <3>3. CASE fs[j][1] = "rows"
      BY <3>1, <3>3 DEF FieldOK, RowsOf
    <3> QED BY <2>4, <3>2, <3>3 DEF HasRows
  <2> HIDE DEF ts
  <2>6. RowSetOK(ts, rows)
    <3> HIDE DEF rows
    <3> QED BY <2>1, <2>5, RowsAreOK
  <2>7. PICK i \in 1 .. Len(rows) : ~KnownRow(ts, rows[i])
    BY <2>4 DEF KnownRows
  <2> DEFINE row == rows[i]
  <2>8. PICK k \in 1 .. Len(ts) : ~KnownValue(ts[k], row[k])
    BY <2>7 DEF KnownRow
  <2>9. GoodType(ts[k]) /\ ValueOK(ts[k], row[k])
    BY <2>6 DEF RowSetOK, RowOK, GoodTypes
  <2>10. DOMAIN rows = 1 .. Len(rows) /\ DOMAIN ts = 1 .. Len(ts)
    BY <2>6, SeqIsTuple DEF RowSetOK, GoodTypes
  <2>11. row \in ToSet(rows)
    BY <2>10 DEF ToSet
  <2> HIDE DEF row, rows
  <2>12. row[k] # Null /\ "geometry" \in {ts[k].code, ts[k].base}
    BY <2>8, <2>9, ValueUnknown
  <2> QED BY <2>2, <2>10, <2>11, <2>12 DEF Unknown, ts, rows
<1> QED BY <1>1, <1>2

-----------------------------------------------------------------------------
(***************************************************************************)
(* Division, and what a value means to the reader.                         *)
(***************************************************************************)

LEMMA MulStep ==
  ASSUME NEW d \in Nat \ {0}, NEW k \in Int
  PROVE  /\ k >= 1 => k * d >= d
         /\ k <= -1 => k * d <= -d
         /\ k * d \in Int
OBVIOUS

LEMMA DivIs ==
  ASSUME NEW d \in Nat \ {0}, NEW x \in Int
  PROVE  /\ x \div d \in Int /\ x % d \in 0 .. d - 1
         /\ x = (x \div d) * d + (x % d)
OBVIOUS

LEMMA Distribute ==
  ASSUME NEW d \in Int, NEW p \in Int, NEW q \in Int
  PROVE  (p - q) * d = p * d - q * d
OBVIOUS

LEMMA DivMod ==
  ASSUME NEW d \in Nat \ {0}, NEW q \in Int, NEW r \in 0 .. d - 1
  PROVE  (q * d + r) \div d = q /\ (q * d + r) % d = r
<1> DEFINE qd == q * d  x == qd + r
<1>1. qd \in Int
  OBVIOUS
<1> HIDE DEF qd
<1>2. x \in Int
  BY <1>1
<1> DEFINE p == x \div d  s == x % d  pd == p * d
<1> HIDE DEF x
<1>3. p \in Int /\ s \in 0 .. d - 1 /\ x = pd + s
  BY <1>2, DivIs
<1> HIDE DEF p, s
<1>4. (p - q) * d = pd - qd
  BY <1>3, Distribute DEF qd
<1>5. pd \in Int
  BY <1>3
<1> HIDE DEF pd
<1>6. pd - qd = r - s
  BY <1>1, <1>3, <1>5 DEF x
<1>7. p - q < 1 /\ p - q > -1
  <2> DEFINE k == p - q
  <2>1. k \in Int
    BY <1>3
  <2>2. k * d = r - s
    BY <1>4, <1>6
  <2> HIDE DEF k
  <2> QED BY <1>3, <2>1, <2>2, MulStep DEF k
<1>8. p = q
  BY <1>3, <1>7
<1>9. pd = qd
  BY <1>8 DEF pd, qd
<1>10. s = r
  BY <1>1, <1>6, <1>9, <1>3
<1> QED BY <1>8, <1>10 DEF p, s, x, qd

LEMMA TimesDiv ==
  ASSUME NEW d \in Nat \ {0}, NEW q \in Int
  PROVE  (q * d) \div d = q /\ (q * d) % d = 0
<1> DEFINE z == 0  x == q * d
<1>1. z \in 0 .. d - 1 /\ x \in Int
  OBVIOUS
<1> HIDE DEF z
<1>2. (q * d + z) \div d = q /\ (q * d + z) % d = z
  BY <1>1, DivMod
<1>3. q * d + z = x
  <2> HIDE DEF x
  <2>1. x + 0 = x
    BY <1>1
  <2> QED BY <2>1 DEF x, z
<1> QED BY <1>2, <1>3 DEF z, x

LEMMA SmallDiv ==
  ASSUME NEW d \in Nat \ {0}, NEW r \in 0 .. d - 1
  PROVE  r \div d = 0 /\ r % d = r
<1> DEFINE z == 0
<1>1. z \in Int
  OBVIOUS
<1> HIDE DEF z
<1>2. (z * d + r) \div d = z /\ (z * d + r) % d = r
  BY <1>1, DivMod
<1>3. z * d + r = r
  BY DEF z
<1> QED BY <1>2, <1>3 DEF z

LEMMA NegMod ==
  ASSUME NEW d \in Nat \ {0}, NEW x \in Int, x % d = 0
  PROVE  (-x) % d = 0
<1> DEFINE q == x \div d  p == -q
<1>1. q \in Int /\ x = q * d + 0
  BY DivIs
<1> HIDE DEF q
<1>2. p \in Int /\ -x = p * d
  BY <1>1
<1> HIDE DEF p
<1> QED BY <1>2, TimesDiv

(* The remainder of a remainder. *)
LEMMA ModMod ==
  ASSUME NEW d \in Nat \ {0}, NEW e \in Nat \ {0}, d % e = 0, NEW n \in Int
  PROVE  (n % d) % e = n % e
<1> DEFINE c == d \div e  q == n \div d  r == n % d  p == r \div e  s == r % e
<1>1. c \in Int /\ d = c * e
  BY DivIs
<1>2. q \in Int /\ r \in Int /\ n = q * d + r
  BY DivIs
<1> HIDE DEF c, q, r
<1>3. p \in Int /\ s \in 0 .. e - 1 /\ r = p * e + s
  BY <1>2, DivIs
<1> HIDE DEF p, s
<1>4. n = (q * c + p) * e + s
  BY <1>1, <1>2, <1>3
<1> DEFINE k == q * c + p
<1>5. k \in Int
  BY <1>1, <1>2, <1>3
<1> HIDE DEF k
<1>6. n % e = s
  BY <1>3, <1>4, <1>5, DivMod DEF k
<1> QED BY <1>6 DEF s, r

LEMMA DivBelow ==
  ASSUME NEW d \in Nat \ {0}, NEW e \in Nat \ {0}, d % e = 0, NEW r \in 0 .. d - 1
  PROVE  r \div e >= 0 /\ r \div e < d \div e
<1> DEFINE c == d \div e  p == r \div e  s == r % e
<1>1. c \in Int /\ d = c * e
  BY DivIs
<1>2. p \in Int /\ s \in 0 .. e - 1 /\ r = p * e + s
  BY DivIs
<1> HIDE DEF c, p, s
<1>3. (c - p) * e = d - p * e
  BY <1>1, <1>2, Distribute
<1> DEFINE k == c - p  pe == p * e
<1>4. k \in Int /\ pe \in Int
  BY <1>1, <1>2
<1> HIDE DEF k, pe
<1>5. k * e = d - pe /\ r = pe + s
  BY <1>2, <1>3 DEF k, pe
<1>6. k * e > 0
  BY <1>2, <1>4, <1>5
<1>7. k >= 1
  BY <1>4, <1>6, MulStep
<1>8. p >= 0
  BY <1>2, <1>4, <1>5, MulStep DEF pe
<1> QED BY <1>1, <1>2, <1>7, <1>8 DEF c, p, k

LEMMA DivNat ==
  ASSUME NEW n \in Nat, NEW e \in Nat \ {0}
  PROVE  n \div e >= 0 /\ n \div e \in Int
<1> DEFINE p == n \div e  s == n % e
<1>2. p \in Int /\ s \in 0 .. e - 1 /\ n = p * e + s
  BY DivIs
<1> HIDE DEF p, s
<1>3. p >= 0
  BY <1>2, MulStep
<1> QED BY <1>2, <1>3 DEF p

-----------------------------------------------------------------------------
(***************************************************************************)
(* Intervals.                                                              *)
(***************************************************************************)
Chain(u) ==
  /\ Len(u) \in Nat \ {0} /\ DOMAIN u = 1 .. Len(u)
  /\ \A i \in 1 .. Len(u) : u[i] \in Nat \ {0}
  /\ \A i \in 2 .. Len(u) : u[i - 1] % u[i] = 0

SumTab(t, u, g) == t = [i \in 0 .. Len(u) |-> IF i = 0 THEN 0 ELSE t[i - 1] + u[i] * g[i]]
SumOf(u, g) == (CHOOSE t : SumTab(t, u, g))[Len(u)]

LEMMA SumIs ==
  ASSUME NEW u, NEW n \in Nat, HasLen(u, n), NEW g, NEW s, s[0] = 0,
         \A i \in 1 .. n : s[i] = s[i - 1] + u[i] * g[i]
  PROVE  SumOf(u, g) = s[n]
<1> DEFINE tab == [i \in 0 .. n |-> s[i]]  any == CHOOSE t : SumTab(t, u, g)
<1>1. tab[0] = 0 /\ \A i \in 0 .. n : tab[i] = s[i]
  OBVIOUS
<1>2. \A i \in 1 .. n : i - 1 \in 0 .. n /\ i \in 0 .. n
  OBVIOUS
<1>3. tab = [i \in 0 .. n |-> IF i = 0 THEN 0 ELSE tab[i - 1] + u[i] * g[i]]
  <2> DEFINE rhs == [i \in 0 .. n |-> IF i = 0 THEN 0 ELSE tab[i - 1] + u[i] * g[i]]
  <2>1. ASSUME NEW i \in 0 .. n PROVE s[i] = IF i = 0 THEN 0 ELSE tab[i - 1] + u[i] * g[i]
    <3>1. CASE i = 0
      BY <3>1
    <3>2. CASE i # 0
      <4>1. i \in 1 .. n /\ i - 1 \in 0 .. n
        BY <3>2
      <4>2. s[i] = s[i - 1] + u[i] * g[i] /\ tab[i - 1] = s[i - 1]
        BY <1>1, <4>1
      <4> QED BY <3>2, <4>2
    <3> QED BY <3>1, <3>2
  <2> QED BY <2>1
<1> HIDE DEF tab
<1>4. SumTab(tab, u, g)
  BY <1>3 DEF SumTab, HasLen
<1>5. SumTab(any, u, g)
  BY <1>4, Zenon
<1> HIDE DEF any
<1>6. any = [i \in 0 .. n |-> IF i = 0 THEN 0 ELSE any[i - 1] + u[i] * g[i]]
  BY <1>5 DEF SumTab, HasLen
<1> DEFINE f == [i \in 0 .. n |-> IF i = 0 THEN 0 ELSE any[i - 1] + u[i] * g[i]]
<1>7. f[0] = 0 /\ \A i \in 1 .. n : f[i] = any[i - 1] + u[i] * g[i]
  OBVIOUS
<1> HIDE DEF f
<1>8. any[0] = 0 /\ \A i \in 1 .. n : any[i] = any[i - 1] + u[i] * g[i]
  BY <1>6, <1>7 DEF f
<1>9. ASSUME NEW i \in 1 .. n, any[i - 1] = s[i - 1] PROVE any[i] = s[i]
  BY <1>8, <1>9
<1>10. \A i \in 0 .. n : any[i] = s[i]
  BY <1>8, <1>9, Determined
<1> QED BY <1>10 DEF SumOf, any, HasLen

Printed(u, n, whole, g) ==
  /\ Len(u) # 1 => whole = n
  /\ g[1] = whole \div u[1] /\ \A i \in 2 .. Len(u) : g[i] = (n % u[i - 1]) \div u[i]

(* What the fields of an interval of n say, n being the sum of all but the  *)
(* remainder by the last unit.                                             *)
LEMMA FieldsAddUp ==
  ASSUME NEW u, Chain(u), NEW n \in Nat, NEW whole \in Nat, NEW g, Printed(u, n, whole, g)
  PROVE  /\ SumOf(u, g) = whole - (whole % u[Len(u)])
         /\ \A i \in 1 .. Len(u) : g[i] >= 0 /\ (i > 1 => g[i] < u[i - 1] \div u[i])
<1> DEFINE l == Len(u)  s == [i \in 0 .. l |-> IF i = 0 THEN 0 ELSE whole - (whole % u[i])]
<1>1. l \in Nat \ {0} /\ \A i \in 1 .. l : u[i] \in Nat \ {0}
  BY DEF Chain
<1>2. s[0] = 0 /\ \A i \in 1 .. l : s[i] = whole - (whole % u[i])
  OBVIOUS
<1>3. \A i \in 2 .. l : u[i - 1] % u[i] = 0
  BY DEF Chain
<1> HIDE DEF s
<1>4. ASSUME NEW i \in 2 .. l
      PROVE  /\ i - 1 \in 1 .. l /\ i \in 1 .. l /\ u[i - 1] \in Nat \ {0} /\ u[i] \in Nat \ {0}
             /\ whole = n
  <2>1. i - 1 \in 1 .. l /\ i \in 1 .. l /\ l # 1
    BY <1>1
  <2> QED BY <1>1, <2>1 DEF Printed
<1>5. ASSUME NEW i \in 1 .. l PROVE s[i] = s[i - 1] + u[i] * g[i]
  <2>1. CASE i = 1
    <3> DEFINE dd == u[1]  qq == whole \div dd  rr == whole % dd
    <3>1. dd \in Nat \ {0}
      BY <1>1
    <3> HIDE DEF dd
    <3>2. qq \in Int /\ rr \in Int /\ whole = qq * dd + rr
      <4> HIDE DEF l
      <4> QED BY <3>1, DivIs
    <3> HIDE DEF qq, rr
    <3>3. g[1] = qq /\ s[1] = whole - rr
      BY <1>1, <1>2 DEF qq, rr, dd, Printed
    <3>4. whole - rr = 0 + dd * qq
      BY <3>1, <3>2
    <3> QED BY <1>2, <2>1, <3>3, <3>4 DEF dd
  <2>2. CASE i # 1
    <3>1. i \in 2 .. l
      BY <1>1, <2>2
    <3> DEFINE dd == u[i - 1]  ee == u[i]  rr == n % dd  qq == rr \div ee  tt == rr % ee
    <3>2. dd \in Nat \ {0} /\ ee \in Nat \ {0} /\ whole = n /\ dd % ee = 0 /\ g[i] = qq
      BY <1>3, <1>4, <3>1 DEF Printed
    <3>3. s[i] = n - (n % ee) /\ s[i - 1] = n - rr
      BY <1>2, <1>4, <3>1
    <3>4. tt = n % ee
      <4> DEFINE nn == n
      <4> HIDE DEF dd, ee, l
      <4>1. dd \in Nat \ {0} /\ ee \in Nat \ {0} /\ dd % ee = 0
        BY <3>2
      <4>2. nn \in Int
        OBVIOUS
      <4> HIDE DEF nn
      <4>3. (nn % dd) % ee = nn % ee
        BY <4>1, <4>2, ModMod
      <4> QED BY <4>3 DEF nn
    <3> HIDE DEF dd, ee
    <3>5. rr \in Int
      BY <3>2, DivIs
    <3> HIDE DEF rr
    <3>6. qq \in Int /\ tt \in Int /\ rr = qq * ee + tt
      <4> HIDE DEF l
      <4> QED BY <3>2, <3>5, DivIs
    <3> HIDE DEF qq, tt
    <3>7. n - tt = (n - rr) + ee * qq
      BY <3>2, <3>5, <3>6
    <3> QED BY <3>2, <3>3, <3>4, <3>7 DEF ee
  <2> QED BY <2>1, <2>2
<1>6. SumOf(u, g) = s[l]
  <2> HIDE DEF l
  <2>1. l \in Nat /\ HasLen(u, l)
    BY <1>1 DEF HasLen, l
  <2> QED BY <1>2, <1>5, <2>1, SumIs
<1>7. ASSUME NEW i \in 1 .. l PROVE g[i] >= 0 /\ (i > 1 => g[i] < u[i - 1] \div u[i])
  <2>1. CASE i = 1
    <3>1. g[1] >= 0
      <4> DEFINE dd == u[1]
      <4>1. dd \in Nat \ {0} /\ g[1] = whole \div dd
        BY <1>1 DEF Printed
      <4> HIDE DEF dd
      <4> QED BY <4>1, DivNat
    <3> QED BY <2>1, <3>1
  <2>2. CASE i # 1
    <3>1. i \in 2 .. l
      BY <1>1, <2>2
    <3> DEFINE dd == u[i - 1]  ee == u[i]  rr == n % dd
    <3>2. dd \in Nat \ {0} /\ ee \in Nat \ {0} /\ dd % ee = 0 /\ g[i] = rr \div ee
      BY <1>3, <1>4, <3>1 DEF Printed
    <3> HIDE DEF dd, ee
    <3>3. rr \in 0 .. dd - 1
      <4> DEFINE nn == n
      <4> HIDE DEF l
      <4>1. dd \in Nat \ {0}
        BY <3>2
      <4>2. nn \in Int
        OBVIOUS
      <4> HIDE DEF nn
      <4>3. nn % dd \in 0 .. dd - 1
        BY <4>1, <4>2, DivIs
      <4> QED BY <4>3 DEF nn
    <3> HIDE DEF rr
    <3>4. g[i] >= 0 /\ g[i] < dd \div ee
      BY <3>2, <3>3, DivBelow
    <3> QED BY <3>4 DEF dd, ee
  <2> QED BY <2>1, <2>2
<1>8. s[l] = whole - (whole % u[l])
  BY <1>1, <1>2
<1> QED BY <1>6, <1>7, <1>8

LEMMA TimeUnits ==
  /\ Minute \in Nat \ {0} /\ Hour \in Nat \ {0} /\ Day \in Nat \ {0}
  /\ Hour % Minute = 0 /\ Day % Hour = 0 /\ Minute % 1 = 0
<1>1. Minute \in Nat \ {0} /\ Hour \in Nat \ {0} /\ Day \in Nat \ {0} /\ Hour % Minute = 0 /\ Day % Hour = 0
  BY WireBounds
<1>2. Minute % 1 = 0
  BY <1>1
<1> QED BY <1>1, <1>2

LEMMA Chain1 ==
  ASSUME NEW x \in Nat \ {0}
  PROVE  Chain(<<x>>) /\ Len(<<x>>) = 1 /\ Last(<<x>>) = x /\ <<x>>[1] = x
<1> DEFINE u == <<x>>
<1>1. Len(u) = 1 /\ DOMAIN u = 1 .. 1 /\ u[1] = x
  OBVIOUS
<1>2. Last(u) = u[1]
  BY <1>1 DEF Last
<1> HIDE DEF u
<1>3. \A i \in 1 .. 1 : u[i] \in Nat \ {0}
  BY <1>1
<1>4. \A i \in 2 .. 1 : u[i - 1] % u[i] = 0
  OBVIOUS
<1> QED BY <1>1, <1>2, <1>3, <1>4 DEF Chain, u

LEMMA Chain2 ==
  ASSUME NEW x \in Nat \ {0}, NEW y \in Nat \ {0}, x % y = 0
  PROVE  Chain(<<x, y>>) /\ Len(<<x, y>>) = 2 /\ Last(<<x, y>>) = y /\ <<x, y>>[2] = y
<1> DEFINE u == <<x, y>>
<1>1. Len(u) = 2 /\ DOMAIN u = 1 .. 2 /\ u[1] = x /\ u[2] = y
  OBVIOUS
<1>2. Last(u) = u[2]
  BY <1>1 DEF Last
<1> HIDE DEF u
<1>3. \A i \in 1 .. 2 : u[i] \in Nat \ {0}
  BY <1>1
<1>4. \A i \in 2 .. 2 : u[i - 1] % u[i] = 0
  <2>1. ASSUME NEW i \in 2 .. 2 PROVE u[i - 1] % u[i] = 0
    <3>2. CASE i = 2
      <4>1. i - 1 = 1
        BY <3>2
      <4> QED BY <1>1, <3>2, <4>1
    <3> QED BY <3>2
  <2> QED BY <2>1
<1> QED BY <1>1, <1>2, <1>3, <1>4 DEF Chain, u

LEMMA Chain3 ==
  ASSUME NEW x \in Nat \ {0}, NEW y \in Nat \ {0}, NEW z \in Nat \ {0}, x % y = 0, y % z = 0
  PROVE  Chain(<<x, y, z>>) /\ Len(<<x, y, z>>) = 3 /\ Last(<<x, y, z>>) = z /\ <<x, y, z>>[3] = z
<1> DEFINE u == <<x, y, z>>
<1>1. Len(u) = 3 /\ DOMAIN u = 1 .. 3 /\ u[1] = x /\ u[2] = y /\ u[3] = z
  OBVIOUS
<1>2. Last(u) = u[3]
  BY <1>1 DEF Last
<1> HIDE DEF u
<1>3. \A i \in 1 .. 3 : u[i] \in Nat \ {0}
  BY <1>1
<1>4. \A i \in 2 .. 3 : u[i - 1] % u[i] = 0
  <2>1. ASSUME NEW i \in 2 .. 3 PROVE u[i - 1] % u[i] = 0
    <3>2. CASE i = 2
      <4>1. i - 1 = 1
        BY <3>2
      <4> QED BY <1>1, <3>2, <4>1
    <3>3. CASE i = 3
      <4>1. i - 1 = 2
        BY <3>3
      <4> QED BY <1>1, <3>3, <4>1
    <3> QED BY <3>2, <3>3
  <2> QED BY <2>1
<1> QED BY <1>1, <1>2, <1>3, <1>4 DEF Chain, u

LEMMA Chain4 ==
  ASSUME NEW x \in Nat \ {0}, NEW y \in Nat \ {0}, NEW z \in Nat \ {0}, NEW w \in Nat \ {0}, x % y = 0, y % z = 0, z % w = 0
  PROVE  Chain(<<x, y, z, w>>) /\ Len(<<x, y, z, w>>) = 4 /\ Last(<<x, y, z, w>>) = w /\ <<x, y, z, w>>[4] = w
<1> DEFINE u == <<x, y, z, w>>
<1>1. Len(u) = 4 /\ DOMAIN u = 1 .. 4 /\ u[1] = x /\ u[2] = y /\ u[3] = z /\ u[4] = w
  OBVIOUS
<1>2. Last(u) = u[4]
  BY <1>1 DEF Last
<1> HIDE DEF u
<1>3. \A i \in 1 .. 4 : u[i] \in Nat \ {0}
  BY <1>1
<1>4. \A i \in 2 .. 4 : u[i - 1] % u[i] = 0
  <2>1. ASSUME NEW i \in 2 .. 4 PROVE u[i - 1] % u[i] = 0
    <3>2. CASE i = 2
      <4>1. i - 1 = 1
        BY <3>2
      <4> QED BY <1>1, <3>2, <4>1
    <3>3. CASE i = 3
      <4>1. i - 1 = 2
        BY <3>3
      <4> QED BY <1>1, <3>3, <4>1
    <3>4. CASE i = 4
      <4>1. i - 1 = 3
        BY <3>4
      <4> QED BY <1>1, <3>4, <4>1
    <3> QED BY <3>2, <3>3, <3>4
  <2> QED BY <2>1
<1> QED BY <1>1, <1>2, <1>3, <1>4 DEF Chain, u

LEMMA UnitChains ==
  ASSUME NEW code \in Months \cup Seconds
  PROVE  /\ Chain(Units(code)) /\ Last(Units(code)) = Units(code)[Len(Units(code))]
         /\ code = "second" => Len(Units(code)) = 1 /\ Last(Units(code)) = 1
<1> DEFINE u == Units(code)
<1>1. CASE code \in {"month", "second"}
  <2>1. u = <<1>>
    BY <1>1 DEF Units
  <2>2. 1 \in Nat \ {0} /\ 12 \in Nat \ {0} /\ 12 % 1 = 0
    OBVIOUS
  <2>3. Chain(<<1>>) /\ Len(<<1>>) = 1 /\ Last(<<1>>) = 1 /\ <<1>>[1] = 1
    BY <2>2, TimeUnits, Chain1
  <2> DEFINE t == <<1>>
  <2> HIDE DEF t
  <2>4. Chain(t) /\ Len(t) = 1 /\ Last(t) = 1 /\ t[1] = 1 /\ u = t
    BY <2>1, <2>3 DEF t
  <2> HIDE DEF u
  <2>5. Chain(u) /\ Last(u) = u[Len(u)] /\ Len(u) = 1 /\ Last(u) = 1
    BY <2>4
  <2> QED BY <1>1, <2>5 DEF u
<1>2. CASE code = "year"
  <2>1. u = <<12>>
    BY <1>2 DEF Units
  <2>2. 1 \in Nat \ {0} /\ 12 \in Nat \ {0} /\ 12 % 1 = 0
    OBVIOUS
  <2>3. Chain(<<12>>) /\ Len(<<12>>) = 1 /\ Last(<<12>>) = 12 /\ <<12>>[1] = 12
    BY <2>2, TimeUnits, Chain1
  <2> DEFINE t == <<12>>
  <2> HIDE DEF t
  <2>4. Chain(t) /\ Len(t) = 1 /\ Last(t) = 12 /\ t[1] = 12 /\ u = t
    BY <2>1, <2>3 DEF t
  <2> HIDE DEF u
  <2>5. Chain(u) /\ Last(u) = u[Len(u)] /\ Len(u) = 1 /\ Last(u) = 12
    BY <2>4
  <2> QED BY <1>2, <2>5 DEF u
<1>3. CASE code = "year_to_month"
  <2>1. u = <<12, 1>>
    BY <1>3 DEF Units
  <2>2. 1 \in Nat \ {0} /\ 12 \in Nat \ {0} /\ 12 % 1 = 0
    OBVIOUS
  <2>3. Chain(<<12, 1>>) /\ Len(<<12, 1>>) = 2 /\ Last(<<12, 1>>) = 1 /\ <<12, 1>>[2] = 1
    BY <2>2, TimeUnits, Chain2
  <2> DEFINE t == <<12, 1>>
  <2> HIDE DEF t
  <2>4. Chain(t) /\ Len(t) = 2 /\ Last(t) = 1 /\ t[2] = 1 /\ u = t
    BY <2>1, <2>3 DEF t
  <2> HIDE DEF u
  <2>5. Chain(u) /\ Last(u) = u[Len(u)] /\ Len(u) = 2 /\ Last(u) = 1
    BY <2>4
  <2> QED BY <1>3, <2>5 DEF u
<1>4. CASE code = "day"
  <2>1. u = <<Day>>
    BY <1>4 DEF Units
  <2>2. 1 \in Nat \ {0} /\ 12 \in Nat \ {0} /\ 12 % 1 = 0
    OBVIOUS
  <2>3. Chain(<<Day>>) /\ Len(<<Day>>) = 1 /\ Last(<<Day>>) = Day /\ <<Day>>[1] = Day
    BY <2>2, TimeUnits, Chain1
  <2> DEFINE t == <<Day>>
  <2> HIDE DEF t
  <2>4. Chain(t) /\ Len(t) = 1 /\ Last(t) = Day /\ t[1] = Day /\ u = t
    BY <2>1, <2>3 DEF t
  <2> HIDE DEF u
  <2>5. Chain(u) /\ Last(u) = u[Len(u)] /\ Len(u) = 1 /\ Last(u) = Day
    BY <2>4
  <2> QED BY <1>4, <2>5 DEF u
<1>5. CASE code = "hour"
  <2>1. u = <<Hour>>
    BY <1>5 DEF Units
  <2>2. 1 \in Nat \ {0} /\ 12 \in Nat \ {0} /\ 12 % 1 = 0
    OBVIOUS
  <2>3. Chain(<<Hour>>) /\ Len(<<Hour>>) = 1 /\ Last(<<Hour>>) = Hour /\ <<Hour>>[1] = Hour
    BY <2>2, TimeUnits, Chain1
  <2> DEFINE t == <<Hour>>
  <2> HIDE DEF t
  <2>4. Chain(t) /\ Len(t) = 1 /\ Last(t) = Hour /\ t[1] = Hour /\ u = t
    BY <2>1, <2>3 DEF t
  <2> HIDE DEF u
  <2>5. Chain(u) /\ Last(u) = u[Len(u)] /\ Len(u) = 1 /\ Last(u) = Hour
    BY <2>4
  <2> QED BY <1>5, <2>5 DEF u
<1>6. CASE code = "minute"
  <2>1. u = <<Minute>>
    BY <1>6 DEF Units
  <2>2. 1 \in Nat \ {0} /\ 12 \in Nat \ {0} /\ 12 % 1 = 0
    OBVIOUS
  <2>3. Chain(<<Minute>>) /\ Len(<<Minute>>) = 1 /\ Last(<<Minute>>) = Minute /\ <<Minute>>[1] = Minute
    BY <2>2, TimeUnits, Chain1
  <2> DEFINE t == <<Minute>>
  <2> HIDE DEF t
  <2>4. Chain(t) /\ Len(t) = 1 /\ Last(t) = Minute /\ t[1] = Minute /\ u = t
    BY <2>1, <2>3 DEF t
  <2> HIDE DEF u
  <2>5. Chain(u) /\ Last(u) = u[Len(u)] /\ Len(u) = 1 /\ Last(u) = Minute
    BY <2>4
  <2> QED BY <1>6, <2>5 DEF u
<1>7. CASE code = "day_to_hour"
  <2>1. u = <<Day, Hour>>
    BY <1>7 DEF Units
  <2>2. 1 \in Nat \ {0} /\ 12 \in Nat \ {0} /\ 12 % 1 = 0
    OBVIOUS
  <2>3. Chain(<<Day, Hour>>) /\ Len(<<Day, Hour>>) = 2 /\ Last(<<Day, Hour>>) = Hour /\ <<Day, Hour>>[2] = Hour
    BY <2>2, TimeUnits, Chain2
  <2> DEFINE t == <<Day, Hour>>
  <2> HIDE DEF t
  <2>4. Chain(t) /\ Len(t) = 2 /\ Last(t) = Hour /\ t[2] = Hour /\ u = t
    BY <2>1, <2>3 DEF t
  <2> HIDE DEF u
  <2>5. Chain(u) /\ Last(u) = u[Len(u)] /\ Len(u) = 2 /\ Last(u) = Hour
    BY <2>4
  <2> QED BY <1>7, <2>5 DEF u
<1>8. CASE code = "day_to_minute"
  <2>1. u = <<Day, Hour, Minute>>
    BY <1>8 DEF Units
  <2>2. 1 \in Nat \ {0} /\ 12 \in Nat \ {0} /\ 12 % 1 = 0
    OBVIOUS
  <2>3. /\ Chain(<<Day, Hour, Minute>>) /\ Len(<<Day, Hour, Minute>>) = 3
        /\ Last(<<Day, Hour, Minute>>) = Minute /\ <<Day, Hour, Minute>>[3] = Minute
    BY <2>2, TimeUnits, Chain3
  <2> DEFINE t == <<Day, Hour, Minute>>
  <2> HIDE DEF t
  <2>4. Chain(t) /\ Len(t) = 3 /\ Last(t) = Minute /\ t[3] = Minute /\ u = t
    BY <2>1, <2>3 DEF t
  <2> HIDE DEF u
  <2>5. Chain(u) /\ Last(u) = u[Len(u)] /\ Len(u) = 3 /\ Last(u) = Minute
    BY <2>4
  <2> QED BY <1>8, <2>5 DEF u
<1>9. CASE code = "day_to_second"
  <2>1. u = <<Day, Hour, Minute, 1>>
    BY <1>9 DEF Units
  <2>2. 1 \in Nat \ {0} /\ 12 \in Nat \ {0} /\ 12 % 1 = 0
    OBVIOUS
  <2>3. /\ Chain(<<Day, Hour, Minute, 1>>) /\ Len(<<Day, Hour, Minute, 1>>) = 4
        /\ Last(<<Day, Hour, Minute, 1>>) = 1 /\ <<Day, Hour, Minute, 1>>[4] = 1
    BY <2>2, TimeUnits, Chain4
  <2> DEFINE t == <<Day, Hour, Minute, 1>>
  <2> HIDE DEF t
  <2>4. Chain(t) /\ Len(t) = 4 /\ Last(t) = 1 /\ t[4] = 1 /\ u = t
    BY <2>1, <2>3 DEF t
  <2> HIDE DEF u
  <2>5. Chain(u) /\ Last(u) = u[Len(u)] /\ Len(u) = 4 /\ Last(u) = 1
    BY <2>4
  <2> QED BY <1>9, <2>5 DEF u
<1>10. CASE code = "hour_to_minute"
  <2>1. u = <<Hour, Minute>>
    BY <1>10 DEF Units
  <2>2. 1 \in Nat \ {0} /\ 12 \in Nat \ {0} /\ 12 % 1 = 0
    OBVIOUS
  <2>3. Chain(<<Hour, Minute>>) /\ Len(<<Hour, Minute>>) = 2 /\ Last(<<Hour, Minute>>) = Minute /\ <<Hour, Minute>>[2] = Minute
    BY <2>2, TimeUnits, Chain2
  <2> DEFINE t == <<Hour, Minute>>
  <2> HIDE DEF t
  <2>4. Chain(t) /\ Len(t) = 2 /\ Last(t) = Minute /\ t[2] = Minute /\ u = t
    BY <2>1, <2>3 DEF t
  <2> HIDE DEF u
  <2>5. Chain(u) /\ Last(u) = u[Len(u)] /\ Len(u) = 2 /\ Last(u) = Minute
    BY <2>4
  <2> QED BY <1>10, <2>5 DEF u
<1>11. CASE code = "hour_to_second"
  <2>1. u = <<Hour, Minute, 1>>
    BY <1>11 DEF Units
  <2>2. 1 \in Nat \ {0} /\ 12 \in Nat \ {0} /\ 12 % 1 = 0
    OBVIOUS
  <2>3. Chain(<<Hour, Minute, 1>>) /\ Len(<<Hour, Minute, 1>>) = 3 /\ Last(<<Hour, Minute, 1>>) = 1 /\ <<Hour, Minute, 1>>[3] = 1
    BY <2>2, TimeUnits, Chain3
  <2> DEFINE t == <<Hour, Minute, 1>>
  <2> HIDE DEF t
  <2>4. Chain(t) /\ Len(t) = 3 /\ Last(t) = 1 /\ t[3] = 1 /\ u = t
    BY <2>1, <2>3 DEF t
  <2> HIDE DEF u
  <2>5. Chain(u) /\ Last(u) = u[Len(u)] /\ Len(u) = 3 /\ Last(u) = 1
    BY <2>4
  <2> QED BY <1>11, <2>5 DEF u
<1>12. CASE code = "minute_to_second"
  <2>1. u = <<Minute, 1>>
    BY <1>12 DEF Units
  <2>2. 1 \in Nat \ {0} /\ 12 \in Nat \ {0} /\ 12 % 1 = 0
    OBVIOUS
  <2>3. Chain(<<Minute, 1>>) /\ Len(<<Minute, 1>>) = 2 /\ Last(<<Minute, 1>>) = 1 /\ <<Minute, 1>>[2] = 1
    BY <2>2, TimeUnits, Chain2
  <2> DEFINE t == <<Minute, 1>>
  <2> HIDE DEF t
  <2>4. Chain(t) /\ Len(t) = 2 /\ Last(t) = 1 /\ t[2] = 1 /\ u = t
    BY <2>1, <2>3 DEF t
  <2> HIDE DEF u
  <2>5. Chain(u) /\ Last(u) = u[Len(u)] /\ Len(u) = 2 /\ Last(u) = 1
    BY <2>4
  <2> QED BY <1>12, <2>5 DEF u
<1> QED BY <1>1, <1>2, <1>3, <1>4, <1>5, <1>6, <1>7, <1>8, <1>9, <1>10, <1>11, <1>12 DEF Months, Seconds

LEMMA FieldsOfIs ==
  ASSUME NEW code \in Months \cup Seconds, NEW n \in Nat
  PROVE  LET whole == IF code = "second" THEN n % Minute ELSE n
         IN  whole \in Nat /\ Printed(Units(code), n, whole, fieldsOf(code, n))
<1> DEFINE u == Units(code)  whole == IF code = "second" THEN n % Minute ELSE n  g == fieldsOf(code, n)
<1>1. Chain(u) /\ (code = "second" => Len(u) = 1)
  BY UnitChains
<1>2. whole \in Nat
  <2>1. n % Minute \in Nat
    BY TimeUnits
  <2> QED BY <2>1
<1>3. Len(u) # 1 => whole = n
  BY <1>1
<1> HIDE DEF u
<1>4. \A i \in DOMAIN u : g[i] = (IF i > 1 THEN n % u[i - 1] ELSE whole) \div u[i]
  BY DEF fieldsOf, u
<1> HIDE DEF g, whole
<1>5. DOMAIN u = 1 .. Len(u) /\ Len(u) \in Nat \ {0}
  BY <1>1 DEF Chain
<1>6. g[1] = whole \div u[1]
  BY <1>4, <1>5
<1>7. ASSUME NEW i \in 2 .. Len(u) PROVE g[i] = (n % u[i - 1]) \div u[i]
  BY <1>4, <1>5
<1>8. Printed(u, n, whole, g)
  BY <1>3, <1>6, <1>7 DEF Printed
<1> QED BY <1>2, <1>8 DEF u, whole, g

(* The printed fields of an interval, of which the last one leaves nothing. *)
LEMMA IntervalSum ==
  ASSUME NEW code \in Months \cup Seconds, NEW n \in Nat, n % Last(Units(code)) = 0
  PROVE  /\ (code = "second" /\ n >= Minute) \/ SumOf(Units(code), fieldsOf(code, n)) = n
         /\ \A i \in DOMAIN Units(code) :
              /\ fieldsOf(code, n)[i] >= 0
              /\ i > 1 => fieldsOf(code, n)[i] < Units(code)[i - 1] \div Units(code)[i]
<1> DEFINE u == Units(code)  g == fieldsOf(code, n)  whole == IF code = "second" THEN n % Minute ELSE n
<1>1. Chain(u) /\ Last(u) = u[Len(u)] /\ (code = "second" => Len(u) = 1 /\ Last(u) = 1)
  BY UnitChains
<1>2. whole \in Nat /\ Printed(u, n, whole, g)
  BY FieldsOfIs
<1>3. (code = "second" /\ n >= Minute) \/ (whole = n /\ whole % Last(u) = 0)
  <2>1. CASE code = "second" /\ n < Minute
    <3>1. n % Minute = n
      <4> DEFINE mi == Minute
      <4>1. mi \in Nat \ {0} /\ n \in 0 .. mi - 1
        BY <2>1, TimeUnits
      <4> HIDE DEF mi
      <4>2. n % mi = n
        BY <4>1, SmallDiv
      <4> QED BY <4>2 DEF mi
    <3> QED BY <2>1, <3>1
  <2>2. CASE code # "second"
    BY <2>2
  <2>3. Minute \in Nat
    BY TimeUnits
  <2> QED BY <2>1, <2>2, <2>3
<1> HIDE DEF u, g, whole
<1>4. /\ SumOf(u, g) = whole - (whole % u[Len(u)])
      /\ \A i \in 1 .. Len(u) : g[i] >= 0 /\ (i > 1 => g[i] < u[i - 1] \div u[i])
  BY <1>1, <1>2, FieldsAddUp
<1>5. DOMAIN u = 1 .. Len(u)
  BY <1>1 DEF Chain
<1>6. whole = n /\ whole % Last(u) = 0 => SumOf(u, g) = n
  BY <1>1, <1>4
<1> QED BY <1>3, <1>4, <1>5, <1>6 DEF u, g

LEMMA SumIsLet ==
  ASSUME NEW u, NEW g
  PROVE  SumOf(u, g) = LET sum[i \in 0 .. Len(u)] == IF i = 0 THEN 0 ELSE sum[i - 1] + u[i] * g[i]
                       IN  sum[Len(u)]
BY DEF SumOf, SumTab

LEMMA IntervalIs ==
  ASSUME NEW code \in Months \cup Seconds, NEW v, NEW got,
         (code = "second" /\ v[1] \notin 1 - Minute .. Minute - 1) \/ v[1] = got[1] * SumOf(Units(code), got[2]),
         \A i \in DOMAIN Units(code) :
           got[2][i] >= 0 /\ (i > 1 => got[2][i] < Units(code)[i - 1] \div Units(code)[i]),
         code \in Seconds /\ Last(Units(code)) = 1 => got[3] >= 0 /\ v[2] = got[1] * got[3]
  PROVE  IntervalMeans(code, v, got)
<1> DEFINE u == Units(code)  g == got[2]
<1>1. SumOf(u, g) = LET sum[i \in 0 .. Len(u)] == IF i = 0 THEN 0 ELSE sum[i - 1] + u[i] * g[i] IN  sum[Len(u)]
  BY SumIsLet
<1> QED BY <1>1, Zenon DEF IntervalMeans

LEMMA NumsFit ==
  ASSUME NEW code \in OfNums, NEW v, ScalarOK(code, v)
  PROVE  /\ code \in Months => v[1] \in Int /\ v = <<v[1]>> /\ v[1] % Last(Units(code)) = 0
         /\ code \in Seconds => /\ v[1] \in Int /\ v[2] \in Int /\ v[1] % Last(Units(code)) = 0
                                /\ v[1] > 0 => v[2] >= 0
                                /\ v[1] < 0 => v[2] <= 0
<1>1. ASSUME code \in Months PROVE v[1] \in Int /\ v = <<v[1]>> /\ v[1] % Last(Units(code)) = 0
  <2>1. Widths(code) = <<LongLen>> /\ ToNums(code, v) = <<v[1]>>
    BY <1>1 DEF Widths, ToNums, Months, Seconds
  <2>2. \A i \in DOMAIN Widths(code) : Fits(Widths(code)[i], ToNums(code, v)[i])
    BY DEF ScalarOK
  <2>3. Fits(LongLen, v[1])
    <3>1. 1 \in DOMAIN <<LongLen>>
      OBVIOUS
    <3> QED BY <2>1, <2>2, <3>1
  <2>4. v[1] % Last(Units(code)) = 0
    BY <1>1 DEF ScalarOK
  <2>5. v = <<v[1]>>
    BY <1>1 DEF ScalarOK, Months, Seconds
  <2> QED BY <2>3, <2>4, <2>5 DEF Fits
<1>2. ASSUME code \in Seconds
      PROVE  /\ v[1] \in Int /\ v[2] \in Int /\ v[1] % Last(Units(code)) = 0
             /\ v[1] > 0 => v[2] >= 0
             /\ v[1] < 0 => v[2] <= 0
  <2>1. Widths(code) = <<LongLen, IntLen>> /\ ToNums(code, v) = <<v[1], v[2]>>
    BY <1>2 DEF Widths, ToNums, Months, Seconds
  <2>2. \A i \in DOMAIN Widths(code) : Fits(Widths(code)[i], ToNums(code, v)[i])
    BY DEF ScalarOK
  <2>3. Fits(LongLen, v[1]) /\ Fits(IntLen, v[2])
    <3>1. 1 \in DOMAIN <<LongLen, IntLen>> /\ 2 \in DOMAIN <<LongLen, IntLen>>
      OBVIOUS
    <3> QED BY <2>1, <2>2, <3>1
  <2>4. v[1] % Last(Units(code)) = 0 /\ (v[1] > 0 => v[2] >= 0) /\ (v[1] < 0 => v[2] <= 0)
    BY <1>2 DEF ScalarOK
  <2> QED BY <2>3, <2>4 DEF Fits
<1> QED BY <1>1, <1>2

(* What the sign and the fields of x printed stand for. *)
Sized(code, x, sign) ==
  /\ sign \in {1, -1} /\ sign * x \in Nat /\ (sign * x) % Last(Units(code)) = 0

LEMMA SizedIs ==
  ASSUME NEW code \in Months \cup Seconds, NEW x \in Int, NEW sign, Sized(code, x, sign)
  PROVE  /\ (code = "second" /\ x \notin 1 - Minute .. Minute - 1)
              \/ x = sign * SumOf(Units(code), fieldsOf(code, sign * x))
         /\ \A i \in DOMAIN Units(code) :
              /\ fieldsOf(code, sign * x)[i] >= 0
              /\ i > 1 => fieldsOf(code, sign * x)[i] < Units(code)[i - 1] \div Units(code)[i]
<1> DEFINE nn == sign * x
<1>1. nn \in Nat /\ nn % Last(Units(code)) = 0 /\ (sign = 1 \/ sign = -1)
  BY DEF Sized
<1>2. sign * nn = x /\ (nn >= Minute => x \notin 1 - Minute .. Minute - 1)
  <2>1. CASE sign = 1
    BY <2>1, TimeUnits
  <2>2. CASE sign = -1
    BY <2>2, TimeUnits
  <2> QED BY <1>1, <2>1, <2>2
<1> HIDE DEF nn
<1>3. /\ (code = "second" /\ nn >= Minute) \/ SumOf(Units(code), fieldsOf(code, nn)) = nn
      /\ \A i \in DOMAIN Units(code) :
           /\ fieldsOf(code, nn)[i] >= 0
           /\ i > 1 => fieldsOf(code, nn)[i] < Units(code)[i - 1] \div Units(code)[i]
  BY <1>1, IntervalSum
<1>4. (code = "second" /\ x \notin 1 - Minute .. Minute - 1) \/ x = sign * SumOf(Units(code), fieldsOf(code, nn))
  BY <1>2, <1>3
<1> QED BY <1>3, <1>4 DEF nn

LEMMA LastUnit ==
  ASSUME NEW code \in Months \cup Seconds
  PROVE  Last(Units(code)) \in Nat \ {0}
<1> DEFINE u == Units(code)
<1>1. Chain(u) /\ Last(u) = u[Len(u)]
  BY UnitChains
<1> HIDE DEF u
<1>2. Len(u) \in 1 .. Len(u) /\ \A i \in 1 .. Len(u) : u[i] \in Nat \ {0}
  BY <1>1 DEF Chain
<1> QED BY <1>1, <1>2 DEF u

LEMMA MonthsMean ==
  ASSUME NEW code \in Months, NEW v, ScalarOK(code, v)
  PROVE  Means(code, v, FromNums(code, ToNums(code, v)))
<1> DEFINE x == v[1]  sign == IF x < 0 THEN -1 ELSE 1  l == Last(Units(code))  got == FromNums(code, ToNums(code, v))
<1>0. code \in OfNums /\ code \in Months \cup Seconds /\ code \notin Seconds /\ code \notin {"all", "char"}
  BY DEF OfNums, Months, Seconds
<1>1. x \in Int /\ v = <<x>> /\ x % l = 0
  BY <1>0, NumsFit
<1>2. l \in Nat \ {0}
  BY <1>0, LastUnit
<1>3. got = <<sign, fieldsOf(code, sign * x)>>
  <2>1. ToNums(code, v) = <<x>>
    BY <1>1 DEF ToNums, Months, Seconds
  <2>2. got = formatYearMonthInterval(code, x)
    BY <2>1 DEF FromNums, Months, Seconds
  <2>3. sign * x = IF x < 0 THEN -x ELSE x
    BY <1>1
  <2> QED BY <2>2, <2>3 DEF formatYearMonthInterval
<1> HIDE DEF got
<1>4. Sized(code, x, sign)
  <2> HIDE DEF x, l
  <2>1. (-x) % l = 0
    BY <1>1, <1>2, NegMod
  <2>2. sign \in {1, -1} /\ sign * x \in Nat /\ (sign * x = x \/ sign * x = -x)
    BY <1>1
  <2> QED BY <1>1, <2>1, <2>2 DEF Sized, l
<1> HIDE DEF x, sign, l
<1>5. /\ (code = "second" /\ x \notin 1 - Minute .. Minute - 1) \/ x = sign * SumOf(Units(code), fieldsOf(code, sign * x))
      /\ \A i \in DOMAIN Units(code) :
              /\ fieldsOf(code, sign * x)[i] >= 0
              /\ i > 1 => fieldsOf(code, sign * x)[i] < Units(code)[i - 1] \div Units(code)[i]
  BY <1>0, <1>1, <1>4, SizedIs
<1>6. got[1] = sign /\ got[2] = fieldsOf(code, sign * x) /\ got # Null
  BY <1>3 DEF Null
<1>7. IntervalMeans(code, v, got)
  BY <1>0, <1>5, <1>6, IntervalIs DEF x
<1>8. v # Null
  BY <1>1 DEF Null
<1> QED BY <1>0, <1>6, <1>7, <1>8 DEF Means, got, Months, Seconds

LEMMA SecondsMean ==
  ASSUME NEW code \in Seconds, NEW v, ScalarOK(code, v)
  PROVE  Means(code, v, FromNums(code, ToNums(code, v)))
<1> DEFINE x == v[1]  y == v[2]  sign == IF x < 0 \/ y < 0 THEN -1 ELSE 1  l == Last(Units(code))
           got == FromNums(code, ToNums(code, v))
<1>0. code \in OfNums /\ code \in Months \cup Seconds /\ code \notin Months /\ code \notin {"all", "char"}
  BY DEF OfNums, Months, Seconds
<1>1. x \in Int /\ y \in Int /\ x % l = 0 /\ (x > 0 => y >= 0) /\ (x < 0 => y <= 0)
  BY <1>0, NumsFit
<1>2. l \in Nat \ {0}
  BY <1>0, LastUnit
<1>3. got = <<sign, fieldsOf(code, sign * x), IF l = 1 THEN sign * y ELSE 0>>
  <2>1. ToNums(code, v) = <<x, y>>
    BY DEF ToNums, Months, Seconds
  <2>2. got = formatDaySecondInterval(code, x, y)
    BY <2>1 DEF FromNums, Months, Seconds
  <2> QED BY <2>2 DEF formatDaySecondInterval
<1> HIDE DEF got
<1>4. Sized(code, x, sign)
  <2> HIDE DEF x, y, l
  <2>1. (-x) % l = 0
    BY <1>1, <1>2, NegMod
  <2>2. sign \in {1, -1} /\ sign * x \in Nat /\ (sign * x = x \/ sign * x = -x)
    BY <1>1
  <2> QED BY <1>1, <2>1, <2>2 DEF Sized, l
<1>4a. sign * y >= 0 /\ y = sign * (sign * y)
  <2> HIDE DEF x, y, l
  <2> QED BY <1>1
<1> HIDE DEF x, y, sign, l
<1>5. /\ (code = "second" /\ x \notin 1 - Minute .. Minute - 1) \/ x = sign * SumOf(Units(code), fieldsOf(code, sign * x))
      /\ \A i \in DOMAIN Units(code) :
              /\ fieldsOf(code, sign * x)[i] >= 0
              /\ i > 1 => fieldsOf(code, sign * x)[i] < Units(code)[i - 1] \div Units(code)[i]
  BY <1>0, <1>1, <1>4, SizedIs
<1>6. got[1] = sign /\ got[2] = fieldsOf(code, sign * x) /\ got # Null /\ (l = 1 => got[3] = sign * y)
  BY <1>3 DEF Null
<1>7. IntervalMeans(code, v, got)
  BY <1>0, <1>4a, <1>5, <1>6, IntervalIs DEF x, y, l
<1>8. v # Null
  BY DEF Null, ScalarOK, Months, Seconds
<1> QED BY <1>0, <1>6, <1>7, <1>8 DEF Means, got, Months, Seconds

Clocks == {"date", "time", "timetz", "ts", "tstz"}

LEMMA ClockNums ==
  ASSUME NEW v, Clock(v)
  PROVE  /\ v = <<v[1], v[2], v[3], v[4]>> /\ v # Null
         /\ v[1] \in Int /\ v[2] \in 0 .. Day - 1 /\ v[3] \in Int /\ v[4] \in Int
<1>1. PICK a \in Int, b \in 0 .. Day - 1, c \in Int, d \in Int : v = <<a, b, c, d>>
  BY DEF Clock
<1> QED BY <1>1 DEF Null

(* The wall clock of a day and a second of it. *)
LEMMA InZoneIs ==
  ASSUME NEW q \in Int, NEW r \in 0 .. Day - 1, NEW nanos, NEW zone \in Int, NEW unix \in Int,
         unix + zone = q * Day + r
  PROVE  InZone(unix, nanos, zone) = <<q, r, nanos, zone>>
<1> DEFINE dd == Day
<1>1. dd \in Nat \ {0} /\ r \in 0 .. dd - 1
  BY TimeUnits
<1> HIDE DEF dd
<1>2. (q * dd + r) \div dd = q /\ (q * dd + r) % dd = r
  BY <1>1, DivMod
<1> QED BY <1>2 DEF InZone, dd

LEMMA DateMeans ==
  ASSUME NEW v, Clock(v)
  PROVE  FromNums("date", ToNums("date", v)) = <<v[1], 0, 0, 0>>
<1> DEFINE day == v[1]  z == 0  x == day * Day
<1>1. day \in Int /\ x \in Int
  BY ClockNums, TimeUnits
<1>2. FromNums("date", ToNums("date", v)) = InZone(x, z, z)
  BY DEF FromNums, ToNums, Months, Seconds, dateSeconds
<1>3. z \in Int /\ z \in 0 .. Day - 1 /\ x + z = day * Day + z
  BY <1>1, TimeUnits
<1> HIDE DEF day, z, x
<1>4. InZone(x, z, z) = <<day, z, z, z>>
  BY <1>1, <1>3, InZoneIs
<1> QED BY <1>2, <1>4 DEF day, z

LEMMA TimeMeans ==
  ASSUME NEW v, Clock(v)
  PROVE  /\ FromNums("time", ToNums("time", v)) = <<0, v[2], v[3], 0>>
         /\ FromNums("timetz", ToNums("timetz", v)) = <<0, v[2], v[3], v[4]>>
<1> DEFINE sod == v[2]  nanos == v[3]  zone == v[4]  z == 0  x == sod - zone
<1>1. sod \in 0 .. Day - 1 /\ sod \in Int /\ zone \in Int
  BY ClockNums, TimeUnits
<1>2. FromNums("time", ToNums("time", v)) = InZone(sod, nanos, z)
  BY DEF FromNums, ToNums, Months, Seconds
<1>3. FromNums("timetz", ToNums("timetz", v)) = InZone(x, nanos, zone)
  BY DEF FromNums, ToNums, Months, Seconds
<1> HIDE DEF sod, nanos, zone
<1>4. z \in Int /\ x \in Int /\ sod + z = z * Day + sod /\ x + zone = z * Day + sod
  BY <1>1, TimeUnits
<1> HIDE DEF z, x
<1>5. InZone(sod, nanos, z) = <<z, sod, nanos, z>>
  BY <1>1, <1>4, InZoneIs
<1>6. InZone(x, nanos, zone) = <<z, sod, nanos, zone>>
  BY <1>1, <1>4, InZoneIs
<1> QED BY <1>2, <1>3, <1>5, <1>6 DEF sod, nanos, zone, z

LEMMA StampMeans ==
  ASSUME NEW v, Clock(v)
  PROVE  /\ FromNums("tstz", ToNums("tstz", v)) = v
         /\ LET got == FromNums("ts", ToNums("ts", v))
            IN  Unix(got) = Unix(v) /\ got[2] \in 0 .. Day - 1 /\ got[3] = v[3] /\ got[4] = 0 /\ got # Null
<1> DEFINE day == v[1]  sod == v[2]  nanos == v[3]  zone == v[4]  z == 0  x == Unix(v)
<1>1. day \in Int /\ sod \in 0 .. Day - 1 /\ sod \in Int /\ zone \in Int /\ v = <<day, sod, nanos, zone>>
  BY ClockNums, TimeUnits
<1>2. FromNums("ts", ToNums("ts", v)) = InZone(x, nanos, z)
  BY DEF FromNums, ToNums, Months, Seconds
<1>3. FromNums("tstz", ToNums("tstz", v)) = InZone(x, nanos, zone)
  BY DEF FromNums, ToNums, Months, Seconds
<1> HIDE DEF day, sod, nanos, zone
<1>4. x = day * Day + sod - zone
  BY <1>1 DEF Unix
<1> DEFINE dd == day * Day
<1>5. dd \in Int
  BY <1>1, TimeUnits
<1>6. x \in Int /\ x + zone = day * Day + sod
  <2> HIDE DEF dd, x
  <2> QED BY <1>1, <1>4, <1>5 DEF dd
<1> HIDE DEF x
<1>7. InZone(x, nanos, zone) = <<day, sod, nanos, zone>>
  BY <1>1, <1>6, InZoneIs
<1> DEFINE got == InZone(x, nanos, z)  q == (x + z) \div Day  r == (x + z) % Day
<1>8. got = <<q, r, nanos, z>>
  BY DEF InZone
<1>9. q \in Int /\ r \in 0 .. Day - 1 /\ x = q * Day + r
  <2> DEFINE da == Day  xz == x + z
  <2>1. da \in Nat \ {0} /\ xz \in Int /\ xz = x
    BY <1>6, TimeUnits
  <2> HIDE DEF da, xz
  <2>2. xz \div da \in Int /\ xz % da \in 0 .. da - 1 /\ xz = (xz \div da) * da + (xz % da)
    BY <2>1, DivIs
  <2> QED BY <2>1, <2>2 DEF da, xz
<1> HIDE DEF got, q, r
<1>10. got[1] = q /\ got[2] = r /\ got[3] = nanos /\ got[4] = z /\ got # Null
  BY <1>8 DEF Null
<1>11. Unix(got) = x
  <2> DEFINE qd == q * Day
  <2>1. qd \in Int /\ x = qd + r
    BY <1>9, TimeUnits
  <2>2. Unix(got) = qd + r - 0
    BY <1>10 DEF Unix
  <2> HIDE DEF qd
  <2>3. qd + r - 0 = qd + r
    BY <1>9, <2>1, TimeUnits
  <2> QED BY <2>1, <2>2, <2>3
<1> QED BY <1>1, <1>2, <1>3, <1>7, <1>9, <1>10, <1>11 DEF got, x, nanos

LEMMA ClockMeans ==
  ASSUME NEW code \in Clocks, NEW v, ScalarOK(code, v)
  PROVE  Means(code, v, FromNums(code, ToNums(code, v)))
<1> DEFINE got == FromNums(code, ToNums(code, v))
<1>1. Clock(v)
  BY DEF ScalarOK, Months, Seconds, Clocks
<1>2. v # Null
  BY <1>1, ClockNums
<1>3. CASE code = "date"
  <2>1. got = <<v[1], 0, 0, 0>>
    BY <1>1, <1>3, DateMeans
  <2> HIDE DEF got
  <2> QED BY <1>2, <1>3, <2>1 DEF Means, Null, Months, Seconds, got
<1>4. CASE code = "time"
  <2>1. got = <<0, v[2], v[3], 0>>
    BY <1>1, <1>4, TimeMeans
  <2> HIDE DEF got
  <2> QED BY <1>2, <1>4, <2>1 DEF Means, Null, Months, Seconds, got
<1>5. CASE code = "timetz"
  <2>1. got = <<0, v[2], v[3], v[4]>>
    BY <1>1, <1>5, TimeMeans
  <2> HIDE DEF got
  <2>2. got # Null
    BY <2>1 DEF Null
  <2>3. Means(code, v, got)
    BY <1>2, <1>5, <2>1, <2>2 DEF Means, Months, Seconds
  <2> QED BY <2>3 DEF got
<1>6. CASE code = "ts"
  <2>1. Unix(got) = Unix(v) /\ got[2] \in 0 .. Day - 1 /\ got[3] = v[3] /\ got[4] = 0 /\ got # Null
    BY <1>1, <1>6, StampMeans
  <2> HIDE DEF got
  <2>2. Means(code, v, got)
    BY <1>2, <1>6, <2>1 DEF Means, Months, Seconds
  <2> QED BY <2>2 DEF got
<1>7. CASE code = "tstz"
  <2>1. got = v
    BY <1>1, <1>7, StampMeans
  <2> HIDE DEF got
  <2> QED BY <1>2, <1>7, <2>1 DEF Means, Months, Seconds, got
<1> QED BY <1>3, <1>4, <1>5, <1>6, <1>7 DEF Clocks

LEMMA GotMeans ==
  ASSUME NEW code \in Scalars, NEW v, v # Null => ScalarOK(code, v)
  PROVE  Means(code, v, Got(code, v))
<1>1. CASE v = Null \/ code = "all"
  BY <1>1 DEF Means, Got
<1>2. CASE v # Null /\ code \in Months
  <2>1. Got(code, v) = FromNums(code, ToNums(code, v))
    BY <1>2 DEF Got, OfNums, Months, Seconds
  <2> QED BY <1>2, <2>1, MonthsMean
<1>3. CASE v # Null /\ code \in Seconds
  <2>1. Got(code, v) = FromNums(code, ToNums(code, v))
    BY <1>3 DEF Got, OfNums, Months, Seconds
  <2> QED BY <1>3, <2>1, SecondsMean
<1>4. CASE v # Null /\ code \in Clocks
  <2>1. Got(code, v) = FromNums(code, ToNums(code, v))
    BY <1>4 DEF Got, OfNums, Months, Seconds, Clocks
  <2> QED BY <1>4, <2>1, ClockMeans
<1>5. CASE v # Null /\ code \in {"small", "int", "big", "lob"}
  <2>1. Got(code, v) = FromNums(code, ToNums(code, v))
    BY <1>5 DEF Got, OfNums
  <2>2. v = <<v[1]>>
    BY <1>5 DEF ScalarOK, Seconds, Months
  <2>3. FromNums(code, ToNums(code, v)) = v
    BY <1>5, <2>2 DEF FromNums, ToNums, Seconds, Months
  <2> QED BY <1>5, <2>1, <2>3 DEF Means, Seconds, Months
<1>6. CASE v # Null /\ code = "char"
  <2>1. Got(code, v) = <<GoText(v[1])>>
    BY <1>6 DEF Got
  <2>2. <<GoText(v[1])>> # Null
    BY DEF Null
  <2> QED BY <1>6, <2>1, <2>2 DEF Means, Seconds, Months
<1>7. CASE v # Null /\ code \in {"bool", "dec", "bin", "bit"}
  <2>1. Got(code, v) = v
    BY <1>7 DEF Got, OfNums, Seconds, Months
  <2> QED BY <1>7, <2>1 DEF Means, Seconds, Months
<1> QED BY <1>1, <1>2, <1>3, <1>4, <1>5, <1>6, <1>7 DEF Scalars, Clocks

-----------------------------------------------------------------------------
(***************************************************************************)
(* What is decoded is what was sent.                                       *)
(***************************************************************************)
LEMMA ElementsArrive ==
  ASSUME NEW t, t.code = "array", NEW v, v # Null, ValueOK(t, v), KnownValue(t, v)
  PROVE  ValueArrives(t, v, GotValue(t, v))
<1> DEFINE e == v[1]  base == t.base  g == GotAll(base, e)
<1>1. IsSeq(e) /\ \A i \in DOMAIN e : e[i] # Null => ScalarOK(base, e[i])
  BY DEF ValueOK
<1>2. Len(e) \in Nat /\ DOMAIN e = 1 .. Len(e)
  BY <1>1, SeqIsTuple
<1>3. \A i \in 1 .. Len(e) : Known(base, e[i])
  BY DEF KnownValue
<1>4. GotValue(t, v) = <<g>>
  BY DEF GotValue
<1>5. Tuple(g, Len(e)) /\ \A i \in 1 .. Len(e) : g[i] = Got(base, e[i])
  BY DEF GotAll, Tuple
<1> HIDE DEF g
<1>6. Len(g) = Len(e)
  BY <1>2, <1>5, TupleLen
<1>7. ASSUME NEW i \in 1 .. Len(e) PROVE Means(base, e[i], g[i])
  <2>1. g[i] = Got(base, e[i])
    BY <1>5
  <2> DEFINE x == e[i]  b == base
  <2>2. (x # Null => ScalarOK(b, x)) /\ Known(b, x)
    BY <1>1, <1>2, <1>3
  <2> HIDE DEF x, b
  <2>3. CASE x = Null
    <3>1. Means(b, x, Got(b, x))
      BY <2>3 DEF Means, Got
    <3> QED BY <2>1, <3>1 DEF x, b
  <2>4. CASE x # Null
    <3>1. b \in Scalars
      BY <2>2, <2>4 DEF Known
    <3>2. Means(b, x, Got(b, x))
      BY <2>2, <3>1, GotMeans
    <3> QED BY <2>1, <3>2 DEF x, b
  <2> QED BY <2>3, <2>4
<1>8. <<g>>[1] = g
  OBVIOUS
<1> QED BY <1>2, <1>4, <1>6, <1>7, <1>8 DEF ValueArrives

LEMMA GotValueArrives ==
  ASSUME NEW t, GoodType(t), NEW v, ValueOK(t, v), KnownValue(t, v)
  PROVE  ValueArrives(t, v, GotValue(t, v))
<1>1. CASE v = Null
  BY <1>1 DEF ValueArrives, GotValue, Means, Got
<1>2. CASE v # Null /\ t.code = "array"
  BY <1>2, ElementsArrive
<1>3. CASE v # Null /\ t.code # "array"
  <2>1. t.code \in Scalars /\ ScalarOK(t.code, v)
    BY <1>3 DEF KnownValue, ValueOK
  <2>2. Means(t.code, v, Got(t.code, v))
    BY <2>1, GotMeans
  <2> QED BY <1>3, <2>2 DEF ValueArrives, GotValue
<1> QED BY <1>1, <1>2, <1>3

LEMMA GotRowsArrive ==
  ASSUME NEW types, NEW rows, RowSetOK(types, rows), KnownRows(types, rows)
  PROVE  RowsArrive(types, rows, GotRows(types, rows))
<1> DEFINE g == GotRows(types, rows)
<1>1. /\ Len(rows) \in Nat /\ DOMAIN rows = 1 .. Len(rows) /\ DOMAIN types = 1 .. Len(types)
  BY SeqIsTuple DEF RowSetOK, GoodTypes
<1>2. Tuple(g, Len(rows)) /\ \A i \in 1 .. Len(rows) : g[i] = GotRow(types, rows[i])
  BY DEF GotRows, Tuple
<1> HIDE DEF g
<1>3. Len(g) = Len(rows)
  BY <1>1, <1>2, TupleLen
<1>4. ASSUME NEW i \in 1 .. Len(rows), NEW j \in 1 .. Len(types)
      PROVE  ValueArrives(types[j], rows[i][j], g[i][j])
  <2>1. g[i][j] = GotValue(types[j], rows[i][j])
    BY <1>2 DEF GotRow
  <2> DEFINE t == types[j]  x == rows[i][j]
  <2>2. GoodType(t) /\ ValueOK(t, x) /\ KnownValue(t, x)
    BY DEF RowSetOK, RowOK, GoodTypes, KnownRows, KnownRow
  <2> HIDE DEF t, x
  <2>3. ValueArrives(t, x, GotValue(t, x))
    BY <2>2, GotValueArrives
  <2> QED BY <2>1, <2>3 DEF t, x
<1> QED BY <1>1, <1>3, <1>4 DEF RowsArrive, g

LEMMA GotFieldArrives ==
  ASSUME NEW types, GoodTypes(types), NEW f, FieldOK(types, f), KnownField(types, f)
  PROVE  FieldArrives(f[1], types, f[2], GotField(types, f))
<1>1. CASE f[1] = "simple"
  <2> DEFINE rows == f[2]
  <2>1. RowsOK(types, rows) /\ KnownRows(types, rows)
    BY <1>1 DEF FieldOK, KnownField, HasRows, RowsOf
  <2> HIDE DEF rows
  <2>2. RowsArrive(types, rows, GotRows(types, rows))
    BY <2>1, RowsAreOK, GotRowsArrive
  <2> QED BY <1>1, <2>2 DEF FieldArrives, GotField, rows
<1>2. CASE f[1] = "rows"
  <2> DEFINE rows == f[2][2]  head == f[2][1]
  <2>1. RowsOK(types, rows) /\ KnownRows(types, rows)
    BY <1>2 DEF FieldOK, KnownField, HasRows, RowsOf
  <2>2. GotField(types, f) = <<head, GotRows(types, rows)>>
    BY <1>2 DEF GotField
  <2>3. FieldArrives(f[1], types, f[2], <<head, GotRows(types, rows)>>) = RowsArrive(types, rows, GotRows(types, rows))
    BY <1>2 DEF FieldArrives, RowsArrive
  <2> HIDE DEF rows
  <2>4. RowsArrive(types, rows, GotRows(types, rows))
    BY <2>1, RowsAreOK, GotRowsArrive
  <2> QED BY <2>2, <2>3, <2>4
<1>3. CASE f[1] \notin {"simple", "rows"}
  <2>1. f[1] \in {"u8", "short", "int", "long", "str", "meta"}
    BY <1>3 DEF FieldOK
  <2> QED BY <2>1 DEF FieldArrives, GotField
<1> QED BY <1>1, <1>2, <1>3

(* The decoded fields y of a frame are what was sent. *)
Arrived(fs, y) ==
  /\ Len(y) = Len(fs)
  /\ \A j \in DOMAIN fs : FieldArrives(fs[j][1], RowTypes(fs), fs[j][2], y[j])

LEMMA FrameArrives ==
  ASSUME NEW f, FrameOK(f), FrameKnown(f)
  PROVE  Arrived(f.fields, GotFields(f.fields))
<1> DEFINE fs == f.fields  y == GotFields(fs)
<1>1. FieldsOK(fs) /\ KnownFields(fs)
  BY FrameFields DEF FrameKnown
<1> HIDE DEF fs
<1>2. GoodTypes(RowTypes(fs)) /\ Len(fs) \in Nat /\ DOMAIN fs = 1 .. Len(fs)
  BY <1>1, TypesGood, KindsIs DEF FieldsOK
<1>3. Tuple(y, Len(fs)) /\ \A j \in 1 .. Len(fs) : y[j] = GotField(RowTypes(fs), fs[j])
  BY DEF GotFields, Tuple
<1> HIDE DEF y
<1>4. Len(y) = Len(fs)
  BY <1>2, <1>3, TupleLen
<1>5. ASSUME NEW j \in 1 .. Len(fs) PROVE FieldArrives(fs[j][1], RowTypes(fs), fs[j][2], y[j])
  <2> DEFINE x == fs[j]
  <2>1. FieldOK(RowTypes(fs), x) /\ KnownField(RowTypes(fs), x)
    BY <1>1 DEF FieldsOK, KnownFields
  <2> HIDE DEF x
  <2>2. FieldArrives(x[1], RowTypes(fs), x[2], GotField(RowTypes(fs), x))
    BY <1>2, <2>1, GotFieldArrives
  <2> QED BY <1>3, <2>2 DEF x
<1> QED BY <1>2, <1>4, <1>5 DEF Arrived, fs, y

-----------------------------------------------------------------------------
(***************************************************************************)
(* Frames, and what a stream that is cut leaves of them.                   *)
(***************************************************************************)
LEMMA AppendIs ==
  ASSUME NEW r, IsSeq(r), NEW x
  PROVE  /\ IsSeq(Append(r, x)) /\ Len(Append(r, x)) = Len(r) + 1
         /\ Append(r, x)[Len(r) + 1] = x /\ \A i \in 1 .. Len(r) : Append(r, x)[i] = r[i]
<1> DEFINE S == {r[i] : i \in 1 .. Len(r)} \cup {x}
<1>1. Len(r) \in Nat /\ r = [i \in 1 .. Len(r) |-> r[i]]
  BY DEF IsSeq
<1>2. \A i \in 1 .. Len(r) : r[i] \in S
  OBVIOUS
<1>3. x \in S
  OBVIOUS
<1> HIDE DEF S
<1>4. r \in Seq(S)
  BY <1>1, <1>2, IsSequence
<1> DEFINE t == Append(r, x)
<1>5. t \in Seq(S) /\ Len(t) = Len(r) + 1 /\ t[Len(r) + 1] = x /\ \A i \in 1 .. Len(r) : t[i] = r[i]
  BY <1>3, <1>4
<1> HIDE DEF t
<1>6. Len(t) \in Nat /\ t = [i \in 1 .. Len(t) |-> t[i]]
  BY <1>5
<1>7. IsSeq(t)
  BY <1>6 DEF IsSeq
<1> QED BY <1>5, <1>7 DEF t

LEMMA JoinIndex ==
  ASSUME NEW a \in Bytes, NEW b \in Bytes
  PROVE  /\ a \o b \in Bytes /\ Len(a \o b) = Len(a) + Len(b)
         /\ \A i \in 1 .. Len(a) : (a \o b)[i] = a[i]
         /\ \A i \in 1 .. Len(b) : (a \o b)[Len(a) + i] = b[i]
BY DEF Bytes

LEMMA SameBytes ==
  ASSUME NEW a \in Bytes, NEW b \in Bytes, Len(a) = Len(b), \A i \in 1 .. Len(a) : a[i] = b[i]
  PROVE  a = b
BY DEF Bytes

(* The same bytes cut at two places, and what is left after the first of   *)
(* them when the other one is beyond it.                                   *)
Joins(xs, xl, yf, yt) == xs \o xl = yf \o yt /\ Len(xs) >= Len(yf)
After(xs, yf) == SubSeq(xs, Len(yf) + 1, Len(xs))

LEMMA TwoCuts ==
  ASSUME NEW xs \in Bytes, NEW xl \in Bytes, NEW yf \in Bytes, NEW yt \in Bytes, Joins(xs, xl, yf, yt)
  PROVE  /\ After(xs, yf) \in Bytes /\ After(xs, yf) \o xl = yt
         /\ xs = yf \o After(xs, yf) /\ Len(After(xs, yf)) = Len(xs) - Len(yf)
<1> USE DEF Joins
<1> DEFINE r == SubSeq(xs, Len(yf) + 1, Len(xs))
<1>0. Len(xs) \in Nat /\ Len(yf) \in Nat /\ Len(yt) \in Nat /\ Len(xl) \in Nat
  BY DEF Bytes
<1>1. r \in Bytes /\ Len(r) = Len(xs) - Len(yf) /\ \A i \in 1 .. Len(xs) - Len(yf) : r[i] = xs[Len(yf) + i]
  BY <1>0 DEF Bytes
<1> HIDE DEF r
<1>2. /\ Len(xs \o xl) = Len(xs) + Len(xl) /\ Len(yf \o yt) = Len(yf) + Len(yt)
      /\ \A i \in 1 .. Len(xs) : (xs \o xl)[i] = xs[i]
      /\ \A i \in 1 .. Len(xl) : (xs \o xl)[Len(xs) + i] = xl[i]
      /\ \A i \in 1 .. Len(yf) : (yf \o yt)[i] = yf[i]
      /\ \A i \in 1 .. Len(yt) : (yf \o yt)[Len(yf) + i] = yt[i]
  <2>1. /\ Len(xs \o xl) = Len(xs) + Len(xl)
        /\ \A i \in 1 .. Len(xs) : (xs \o xl)[i] = xs[i]
        /\ \A i \in 1 .. Len(xl) : (xs \o xl)[Len(xs) + i] = xl[i]
    BY JoinIndex
  <2>2. /\ Len(yf \o yt) = Len(yf) + Len(yt)
        /\ \A i \in 1 .. Len(yf) : (yf \o yt)[i] = yf[i]
        /\ \A i \in 1 .. Len(yt) : (yf \o yt)[Len(yf) + i] = yt[i]
    BY JoinIndex
  <2> QED BY <2>1, <2>2
<1>3. Len(yt) = Len(xs) - Len(yf) + Len(xl)
  BY <1>0, <1>2
<1>4. yf \o r = xs
  <2> DEFINE fr == yf \o r
  <2>1. fr \in Bytes /\ Len(fr) = Len(xs) /\ (\A i \in 1 .. Len(yf) : fr[i] = yf[i])
        /\ \A i \in 1 .. Len(r) : fr[Len(yf) + i] = r[i]
    BY <1>0, <1>1 DEF Bytes
  <2> HIDE DEF fr
  <2>2. ASSUME NEW i \in 1 .. Len(xs) PROVE fr[i] = xs[i]
    <3>1. CASE i <= Len(yf)
      <4>1. i \in 1 .. Len(yf)
        BY <1>0, <3>1
      <4>2. (yf \o yt)[i] = yf[i] /\ (xs \o xl)[i] = xs[i] /\ fr[i] = yf[i]
        BY <1>2, <2>1, <4>1
      <4> QED BY <4>2
    <3>2. CASE i > Len(yf)
      <4> DEFINE j == i - Len(yf)
      <4>1. j \in 1 .. Len(xs) - Len(yf) /\ j \in 1 .. Len(r) /\ Len(yf) + j = i
        BY <1>0, <1>1, <3>2
      <4> HIDE DEF j
      <4>2. r[j] = xs[Len(yf) + j] /\ fr[Len(yf) + j] = r[j]
        BY <1>1, <2>1, <4>1
      <4> QED BY <4>1, <4>2
    <3> QED BY <1>0, <3>1, <3>2
  <2>3. fr = xs
    BY <2>1, <2>2, SameBytes
  <2> QED BY <2>3 DEF fr
<1>5. r \o xl = yt
  <2> DEFINE rl == r \o xl
  <2>1. rl \in Bytes /\ Len(rl) = Len(yt) /\ (\A i \in 1 .. Len(r) : rl[i] = r[i])
        /\ \A i \in 1 .. Len(xl) : rl[Len(r) + i] = xl[i]
    <3>1. rl \in Bytes /\ Len(rl) = Len(r) + Len(xl) /\ (\A i \in 1 .. Len(r) : rl[i] = r[i])
          /\ \A i \in 1 .. Len(xl) : rl[Len(r) + i] = xl[i]
      BY <1>1, JoinIndex
    <3> HIDE DEF rl
    <3> QED BY <1>0, <1>1, <1>3, <3>1
  <2> HIDE DEF rl
  <2>2. ASSUME NEW i \in 1 .. Len(yt) PROVE rl[i] = yt[i]
    <3>0. (yf \o yt)[Len(yf) + i] = yt[i]
      BY <1>2
    <3>1. CASE i <= Len(r)
      <4>1. i \in 1 .. Len(r) /\ i \in 1 .. Len(xs) - Len(yf) /\ Len(yf) + i \in 1 .. Len(xs)
        BY <1>0, <1>1, <3>1
      <4>2. rl[i] = r[i] /\ r[i] = xs[Len(yf) + i] /\ (xs \o xl)[Len(yf) + i] = xs[Len(yf) + i]
        BY <1>1, <1>2, <2>1, <4>1
      <4> QED BY <3>0, <4>2
    <3>2. CASE i > Len(r)
      <4> DEFINE j == i - Len(r)
      <4>1. j \in 1 .. Len(xl) /\ Len(r) + j = i /\ Len(xs) + j = Len(yf) + i
        BY <1>0, <1>1, <1>3, <3>2
      <4> HIDE DEF j
      <4>2. rl[Len(r) + j] = xl[j] /\ (xs \o xl)[Len(xs) + j] = xl[j]
        BY <1>2, <2>1, <4>1
      <4> QED BY <3>0, <4>1, <4>2
    <3> QED BY <1>0, <1>1, <3>1, <3>2
  <2>3. rl = yt
    BY <2>1, <2>2, SameBytes
  <2> QED BY <2>3 DEF rl
<1> QED BY <1>1, <1>4, <1>5 DEF r, After

LEMMA FrameBytes ==
  ASSUME NEW mode \in 1 .. 255, NEW p \in Bytes, Fits(IntLen, IntLen + Len(p))
  PROVE  /\ WriteFrame(mode, p) \in Bytes
         /\ Len(WriteFrame(mode, p)) = 1 + IntLen + Len(p)
         /\ WriteFrame(mode, p)[1] = mode
         /\ SubSeq(WriteFrame(mode, p), 2, IntLen + 1) = PutNum(IntLen, IntLen + Len(p))
         /\ SubSeq(WriteFrame(mode, p), IntLen + 2, Len(WriteFrame(mode, p))) = p
<1> DEFINE x == IntLen + Len(p)  l == PutNum(IntLen, x)  b == WriteFrame(mode, p)  il == IntLen
<1>1. l \in Bytes /\ Len(l) = il
  BY Lengths, PutNumFacts DEF Fits, Bytes
<1>2. b = (<<mode>> \o l) \o p
  BY DEF WriteFrame
<1>3. <<mode>> \in Bytes /\ mode \in Byte /\ Len(<<mode>>) = 1 /\ <<mode>>[1] = mode
  <2>1. mode \in Byte
    BY DEF Byte
  <2> QED BY <2>1, OneByte
<1>4. il \in Nat \ {0} /\ Len(p) \in Nat
  BY Lengths DEF Bytes
<1> DEFINE c == <<mode>>  cl == c \o l
<1> HIDE DEF c, l, b, il
<1>5. cl \in Bytes /\ Len(cl) = 1 + il /\ cl[1] = mode /\ \A i \in 1 .. il : cl[1 + i] = l[i]
  BY <1>1, <1>3, <1>4 DEF Bytes, c
<1>6. b = cl \o p
  BY <1>2 DEF c
<1> HIDE DEF cl
<1>7. b \in Bytes /\ Len(b) = 1 + il + Len(p) /\ \A i \in 1 .. 1 + il : b[i] = cl[i]
  <2>1. b \in Bytes /\ Len(b) = Len(cl) + Len(p) /\ \A i \in 1 .. Len(cl) : b[i] = cl[i]
    BY <1>5, <1>6, JoinIndex
  <2> QED BY <1>4, <1>5, <2>1
<1>8. b[1] = mode
  BY <1>4, <1>5, <1>7
<1>9. SubSeq(b, Len(cl) + 1, Len(b)) = p
  <2>1. SubSeq(cl \o p, Len(cl) + 1, Len(cl \o p)) = p
    BY <1>5, Halves DEF Bytes
  <2> QED BY <1>6, <2>1
<1>10. SubSeq(b, il + 2, Len(b)) = p
  <2>1. Len(cl) + 1 = il + 2
    BY <1>4, <1>5
  <2> QED BY <1>9, <2>1
<1>11. SubSeq(b, 2, il + 1) = l
  <2> DEFINE z == SubSeq(b, 2, il + 1)
  <2>1. z \in Bytes /\ Len(z) = il /\ \A i \in 1 .. il : z[i] = b[i + 1]
    BY <1>4, <1>7 DEF Bytes
  <2> HIDE DEF z
  <2>2. ASSUME NEW i \in 1 .. il PROVE z[i] = l[i]
    <3>1. z[i] = b[i + 1] /\ i + 1 = 1 + i /\ 1 + i \in 1 .. 1 + il
      BY <1>4, <2>1
    <3>2. b[1 + i] = cl[1 + i] /\ cl[1 + i] = l[i]
      BY <1>5, <1>7, <3>1
    <3> QED BY <3>1, <3>2
  <2>3. z = l
    BY <1>1, <2>1, <2>2 DEF Bytes
  <2> QED BY <2>3 DEF z
<1> QED BY <1>7, <1>8, <1>10, <1>11 DEF b, il, l

LEMMA FrontOf ==
  ASSUME NEW a \in Bytes, NEW b \in Bytes, NEW i \in Nat \ {0}, NEW j \in Nat, j <= Len(a)
  PROVE  SubSeq(a \o b, i, j) = SubSeq(a, i, j)
<1> DEFINE ab == a \o b
<1>1. ab \in Bytes /\ Len(ab) = Len(a) + Len(b) /\ Len(a) \in Nat /\ Len(b) \in Nat
      /\ \A k \in 1 .. Len(a) : ab[k] = a[k]
  BY JoinIndex DEF Bytes
<1> HIDE DEF ab
<1>2. ab \in Seq(Byte) /\ a \in Seq(Byte)
  BY <1>1 DEF Bytes
<1> DEFINE x == SubSeq(ab, i, j)  y == SubSeq(a, i, j)
<1>3. CASE i <= j
  <2> DEFINE n == j - i + 1
  <2>1. n \in Nat /\ \A k \in 1 .. n : i + k - 1 \in 1 .. Len(a)
    BY <1>1, <1>3
  <2>2. x \in Seq(Byte) /\ Len(x) = n /\ \A k \in 1 .. n : x[k] = ab[i + k - 1]
    BY <1>1, <1>2, <1>3
  <2>3. y \in Seq(Byte) /\ Len(y) = n /\ \A k \in 1 .. n : y[k] = a[i + k - 1]
    BY <1>1, <1>2, <1>3
  <2> HIDE DEF x, y, n
  <2>4. ASSUME NEW k \in 1 .. n PROVE x[k] = y[k]
    BY <1>1, <2>1, <2>2, <2>3
  <2>5. x = y
    BY <2>2, <2>3, <2>4, SameBytes DEF Bytes
  <2> QED BY <2>5 DEF x, y, ab
<1>4. CASE i > j
  <2>1. x = <<>> /\ y = <<>>
    BY <1>1, <1>2, <1>4
  <2> QED BY <2>1 DEF ab
<1> QED BY <1>3, <1>4

FrameRead(mode, p, r) == [err |-> FALSE, mode |-> mode, payload |-> p, rest |-> r]

LEMMA ReadWhole ==
  ASSUME NEW mode \in 1 .. 255, NEW p \in Bytes, Fits(IntLen, IntLen + Len(p)), NEW r \in Bytes
  PROVE  ReadFrame(WriteFrame(mode, p) \o r) = FrameRead(mode, p, r)
<1> DEFINE f == WriteFrame(mode, p)  s == f \o r  x == IntLen + Len(p)  il == IntLen
<1>1. /\ f \in Bytes /\ Len(f) = 1 + il + Len(p) /\ f[1] = mode
      /\ SubSeq(f, 2, il + 1) = PutNum(il, x) /\ SubSeq(f, il + 2, Len(f)) = p
  BY FrameBytes
<1>2. GetNum(PutNum(il, x)) = x
  BY Lengths, GetPut
<1>3. il \in Nat \ {0} /\ Len(p) \in Nat /\ Len(r) \in Nat /\ x = il + Len(p) /\ x \in Nat
  BY Lengths DEF Bytes
<1> HIDE DEF f, il, x
<1>4. s \in Bytes /\ Len(s) = Len(f) + Len(r) /\ \A i \in 1 .. Len(f) : s[i] = f[i]
  BY <1>1, JoinIndex
<1>5. SubSeq(s, 2, il + 1) = PutNum(il, x)
  <2> DEFINE jj == il + 1
  <2>1. jj \in Nat /\ jj <= Len(f)
    BY <1>1, <1>3
  <2> HIDE DEF jj
  <2>2. SubSeq(f \o r, 2, jj) = SubSeq(f, 2, jj)
    BY <1>1, <2>1, FrontOf
  <2> QED BY <1>1, <2>2 DEF jj
<1>6. SubSeq(s, il + 2, 1 + x) = p
  <2> DEFINE jj == Len(f)  ii == il + 2
  <2>1. jj \in Nat /\ ii \in Nat \ {0} /\ 1 + x = jj
    BY <1>1, <1>3
  <2> HIDE DEF jj, ii
  <2>2. jj <= Len(f)
    BY <2>1 DEF jj
  <2>3. SubSeq(f \o r, ii, jj) = SubSeq(f, ii, jj)
    BY <1>1, <2>1, <2>2, FrontOf
  <2> QED BY <1>1, <2>1, <2>3 DEF jj, ii
<1>7. SubSeq(s, 2 + x, Len(s)) = r
  <2>1. SubSeq(f \o r, Len(f) + 1, Len(f \o r)) = r
    <3>1. f \in Seq(Byte) /\ r \in Seq(Byte)
      BY <1>1 DEF Bytes
    <3> QED BY <3>1, Halves
  <2>2. Len(f) + 1 = 2 + x
    BY <1>1, <1>3
  <2> QED BY <2>1, <2>2
<1>8. s # <<>> /\ s[1] = mode /\ mode # 0 /\ ~(Len(s) < il + 1)
  BY <1>1, <1>3, <1>4
<1>9. ~(x < il) /\ ~(Len(s) < 1 + x)
  BY <1>1, <1>3, <1>4
<1> HIDE DEF s
<1>10. ReadFrame(s) = split(s, x)
  BY <1>2, <1>5, <1>8 DEF ReadFrame, il
<1>11. split(s, x) = [err |-> FALSE, mode |-> s[1], payload |-> SubSeq(s, il + 2, 1 + x), rest |-> SubSeq(s, 2 + x, Len(s))]
  BY <1>9 DEF split, il
<1>12. ReadFrame(s) = FrameRead(mode, p, r)
  BY <1>6, <1>7, <1>8, <1>10, <1>11 DEF FrameRead
<1> QED BY <1>12 DEF s, f

LEMMA ReadCut ==
  ASSUME NEW mode \in 1 .. 255, NEW p \in Bytes, Fits(IntLen, IntLen + Len(p)), NEW t \in Bytes,
         NEW s \in Bytes, NEW lost \in Bytes, s \o lost = WriteFrame(mode, p) \o t, Len(s) < Len(WriteFrame(mode, p))
  PROVE  ReadFrame(s) = [err |-> TRUE]
<1> DEFINE f == WriteFrame(mode, p)  x == IntLen + Len(p)  il == IntLen  r == After(f, s)
<1>1. /\ f \in Bytes /\ Len(f) = 1 + il + Len(p) /\ f[1] = mode
      /\ SubSeq(f, 2, il + 1) = PutNum(il, x)
  BY FrameBytes
<1>2. GetNum(PutNum(il, x)) = x
  BY Lengths, GetPut
<1>3. il \in Nat \ {0} /\ Len(p) \in Nat /\ x = il + Len(p) /\ Len(s) \in Nat
  BY Lengths DEF Bytes
<1>4. r \in Bytes /\ f = s \o r
  <2>1. Joins(f, t, s, lost)
    BY <1>1, <1>3 DEF Joins
  <2> HIDE DEF f
  <2> QED BY <1>1, <2>1, TwoCuts, SMTT(30)
<1>5. Len(s) < Len(f) /\ mode # 0
  OBVIOUS
<1> HIDE DEF f, il, x, r
<1>6. CASE s = <<>>
  BY <1>6 DEF ReadFrame
<1>7. CASE s # <<>>
  <2>1. Len(s) >= 1 /\ s[1] = mode
    <3>1. Len(s) >= 1
      BY <1>3, <1>7 DEF Bytes
    <3>2. (s \o r)[1] = s[1]
      BY <1>3, <1>4, <3>1, JoinIndex
    <3> QED BY <1>1, <1>4, <3>1, <3>2
  <2>2. CASE Len(s) < il + 1
    BY <1>5, <1>7, <2>1, <2>2 DEF ReadFrame, il
  <2>3. CASE Len(s) >= il + 1
    <3> DEFINE jj == il + 1
    <3>1. jj \in Nat /\ jj <= Len(s)
      BY <1>3, <2>3
    <3> HIDE DEF jj
    <3>2. SubSeq(s \o r, 2, jj) = SubSeq(s, 2, jj)
      BY <1>4, <3>1, FrontOf
    <3>3. SubSeq(s, 2, il + 1) = PutNum(il, x)
      BY <1>1, <1>4, <3>2 DEF jj
    <3>4. Len(s) < 1 + x /\ ~(Len(s) < il + 1)
      BY <1>1, <1>3, <1>5, <2>3
    <3>5. ReadFrame(s) = split(s, x)
      BY <1>2, <1>5, <1>7, <2>1, <3>3, <3>4 DEF ReadFrame, il
    <3> QED BY <3>4, <3>5 DEF split
  <2> QED BY <1>3, <2>2, <2>3
<1> QED BY <1>6, <1>7

LEMMA ReadNone ==
  ASSUME NEW t \in Bytes, NEW s \in Bytes, NEW lost \in Bytes, s \o lost = << 0 >> \o t, s # <<>>
  PROVE  /\ ReadFrame(s) = [err |-> FALSE, mode |-> 0, rest |-> Tail(s)]
         /\ Tail(s) \in Bytes /\ Tail(s) \o lost = t /\ Len(Tail(s)) = Len(s) - 1 /\ Len(s) >= 1
<1> DEFINE z == <<0>>
<1>0. Len(s) \in Nat /\ Len(s) >= 1 /\ Tail(s) = SubSeq(s, 2, Len(s))
  BY DEF Bytes
<1>1. z \in Bytes /\ Len(z) = 1 /\ z[1] = 0
  <2>1. 0 \in Byte
    BY DEF Byte
  <2> QED BY <2>1, OneByte
<1>2. s \o lost = z \o t
  OBVIOUS
<1> HIDE DEF z
<1>3. After(s, z) \in Bytes /\ After(s, z) \o lost = t /\ Len(After(s, z)) = Len(s) - Len(z)
  <2>1. Joins(s, lost, z, t)
    BY <1>0, <1>1, <1>2 DEF Joins
  <2> QED BY <1>1, <1>2, <2>1, TwoCuts
<1>4. After(s, z) = SubSeq(s, 2, Len(s))
  BY <1>1 DEF After
<1>5. s[1] = 0
  <2>1. (s \o lost)[1] = s[1]
    BY <1>0, JoinIndex
  <2>2. (z \o t)[1] = z[1]
    BY <1>1, JoinIndex
  <2> QED BY <1>1, <1>2, <2>1, <2>2
<1>6. ReadFrame(s) = [err |-> FALSE, mode |-> 0, rest |-> Tail(s)]
  BY <1>5 DEF ReadFrame
<1> QED BY <1>0, <1>1, <1>3, <1>4, <1>6

-----------------------------------------------------------------------------
(***************************************************************************)
(* What the server sends, and what of it is left after each frame.         *)
(***************************************************************************)
LEMMA NextResponseBytes == NextResponse \in Bytes /\ Len(NextResponse) \in Nat
<1> DEFINE p == PutNum(IntLen, 7)  x == IntLen + Len(p)  l == PutNum(IntLen, x)
<1>1. p \in Bytes /\ Len(p) = IntLen
  BY Lengths, PutNumFacts DEF Bytes
<1>2. l \in Bytes
  BY <1>1, Lengths, PutNumFacts DEF Bytes
<1>3. <<1>> \in Bytes /\ <<0>> \in Bytes
  <2>1. 0 \in Byte /\ 1 \in Byte
    BY DEF Byte
  <2> QED BY <2>1, OneByte
<1>4. NextResponse = ((<<1>> \o l) \o p) \o <<0>>
  BY DEF NextResponse, WriteFrame
<1> DEFINE one == <<1>>  z == <<0>>
<1> HIDE DEF p, l, one, z
<1>5. ((one \o l) \o p) \o z \in Bytes
  <2>1. one \o l \in Bytes
    BY <1>2, <1>3 DEF Bytes, one
  <2>2. (one \o l) \o p \in Bytes
    BY <1>1, <2>1 DEF Bytes
  <2> QED BY <1>3, <2>2 DEF Bytes, z
<1>6. NextResponse \in Bytes
  BY <1>4, <1>5 DEF one, z
<1> QED BY <1>6 DEF Bytes

SentBytes(f) == WriteFrame(f.mode, Payload(f))
FrameParts(frames) == [i \in 1 .. Len(frames) |-> SentBytes(frames[i])]
EndOfSent == <<0>> \o NextResponse
Tails(frames) == CHOOSE w : Written(FrameParts(frames), Len(frames), EndOfSent, w)

LEMMA SentFrames ==
  ASSUME NEW frames \in Transmissions
  PROVE  /\ IsSeq(frames) /\ Len(frames) \in Nat \ {0} /\ DOMAIN frames = 1 .. Len(frames)
         /\ \A i \in 1 .. Len(frames) : FrameOK(frames[i])
<1>1. IsSeq(frames) /\ frames # <<>> /\ \A i \in DOMAIN frames : FrameOK(frames[i])
  BY ServerSends
<1>2. Len(frames) \in Nat /\ Tuple(frames, Len(frames)) /\ DOMAIN frames = 1 .. Len(frames)
  BY <1>1, SeqIsTuple
<1>3. Len(frames) # 0
  <2> DEFINE n == Len(frames)
  <2> HIDE DEF n
  <2>1. n = 0 => frames = <<>>
    BY <1>2, TupleLen DEF n
  <2> QED BY <1>1, <2>1 DEF n
<1> QED BY <1>1, <1>2, <1>3

LEMMA SentIsBytes ==
  ASSUME NEW f, FrameOK(f)
  PROVE  /\ f.mode \in 1 .. 255 /\ Payload(f) \in Bytes /\ Fits(IntLen, IntLen + Len(Payload(f)))
         /\ SentBytes(f) \in Bytes
<1> DEFINE mode == f.mode  p == Payload(f)
<1>1. mode \in 1 .. 255 /\ p \in Bytes /\ Fits(IntLen, IntLen + Len(p))
  BY FramePayload DEF FrameOK
<1> HIDE DEF mode, p
<1>2. WriteFrame(mode, p) \in Bytes
  BY <1>1, FrameBytes
<1> QED BY <1>1, <1>2 DEF SentBytes, mode, p

LEMMA TailsAre ==
  ASSUME NEW frames \in Transmissions
  PROVE  LET n == Len(frames)  w == Tails(frames)
         IN  /\ Encode(frames) \in Bytes /\ Len(Encode(frames)) \in Nat
             /\ w[0] = Encode(frames) \o NextResponse /\ w[n] = EndOfSent
             /\ \A i \in 0 .. n : w[i] \in Bytes /\ Len(w[i]) >= 1 + Len(NextResponse)
             /\ \A i \in 1 .. n : w[i - 1] = SentBytes(frames[i]) \o w[i]
<1> DEFINE n == Len(frames)  w == Tails(frames)  parts == FrameParts(frames)  z == <<0>>
<1>1. n \in Nat \ {0} /\ DOMAIN frames = 1 .. n /\ \A i \in 1 .. n : SentBytes(frames[i]) \in Bytes
  BY SentFrames, SentIsBytes
<1>2. Tuple(parts, n) /\ \A i \in 1 .. n : parts[i] = SentBytes(frames[i])
  BY DEF FrameParts, Tuple
<1>3. z \in Bytes /\ Len(z) = 1
  <2>1. 0 \in Byte
    BY DEF Byte
  <2> QED BY <2>1, OneByte
<1>4. EndOfSent \in Bytes /\ Len(EndOfSent) = 1 + Len(NextResponse)
  <2>1. EndOfSent = z \o NextResponse
    BY DEF EndOfSent
  <2> HIDE DEF z
  <2>2. z \o NextResponse \in Bytes /\ Len(z \o NextResponse) = Len(z) + Len(NextResponse)
    BY <1>3, NextResponseBytes, JoinIndex
  <2> QED BY <1>3, <2>1, <2>2
<1>5. Encode(frames) = FlattenSeq(parts) \o z
  BY <1>1 DEF Encode, Flat, FrameParts, SentBytes
<1>6. Tails(frames) = CHOOSE v : Written(parts, n, EndOfSent, v)
  BY DEF Tails
<1> HIDE DEF parts, w, z
<1>7. ByteParts(parts, n)
  BY <1>1, <1>2 DEF ByteParts
<1>8. FlattenSeq(parts) \in Bytes /\ \E v : Written(parts, n, EndOfSent, v)
  BY <1>1, <1>4, <1>7, WrittenIs
<1>9. Written(parts, n, EndOfSent, w)
  BY <1>6, <1>8 DEF w
<1>10. Encode(frames) \in Bytes /\ Len(Encode(frames)) \in Nat
  <2>1. FlattenSeq(parts) \o z \in Bytes
    BY <1>3, <1>8, JoinIndex
  <2> QED BY <1>5, <2>1 DEF Bytes
<1>11. w[0] = Encode(frames) \o NextResponse
  <2> DEFINE a == FlattenSeq(parts)  c == NextResponse
  <2>1. a \in Bytes /\ z \in Bytes /\ c \in Bytes
    BY <1>3, <1>8, NextResponseBytes
  <2>2. w[0] = a \o (z \o c)
    BY <1>9 DEF Written, EndOfSent, z
  <2> HIDE DEF a, c
  <2>3. a \o (z \o c) = (a \o z) \o c
    BY <2>1 DEF Bytes
  <2> QED BY <1>5, <2>2, <2>3 DEF a, c
<1>12. /\ \A i \in 0 .. n : w[i] \in Bytes
       /\ \A i \in 1 .. n : w[i - 1] = SentBytes(frames[i]) \o w[i]
  BY <1>2, <1>9 DEF Written
<1>13. w[n] = EndOfSent
  BY <1>9 DEF Written
<1>14. \A i \in 0 .. n : Len(w[i]) >= 1 + Len(NextResponse)
  <2> DEFINE l == 1 + Len(NextResponse)  S == {k \in 0 .. n : Len(w[n - k]) >= l}
  <2>1. l \in Nat
    BY NextResponseBytes
  <2>2. 0 \in S
    <3>1. n - 0 = n /\ 0 \in 0 .. n
      BY <1>1
    <3>2. Len(w[n]) >= l
      BY <1>4, <1>13, <2>1
    <3> QED BY <3>1, <3>2
  <2> HIDE DEF l
  <2>3. ASSUME NEW k \in 0 .. n - 1, k \in S PROVE k + 1 \in S
    <3> DEFINE i == n - k
    <3>1. i \in 1 .. n /\ n - (k + 1) = i - 1 /\ i \in 0 .. n /\ k + 1 \in 0 .. n
      BY <1>1
    <3>2. Len(w[i]) >= l
      BY <2>3
    <3> HIDE DEF i
    <3> DEFINE sb == SentBytes(frames[i])  rest == w[i]
    <3>3. w[i - 1] = sb \o rest /\ sb \in Bytes /\ rest \in Bytes
      BY <1>1, <1>12, <3>1
    <3> HIDE DEF sb, rest
    <3>4. Len(w[i - 1]) = Len(sb) + Len(rest) /\ Len(sb) \in Nat /\ Len(rest) \in Nat
      BY <3>3, JoinIndex DEF Bytes
    <3>5. Len(w[i - 1]) >= l
      BY <2>1, <3>2, <3>4 DEF rest
    <3> QED BY <3>1, <3>5
  <2>4. ASSUME NEW i \in 0 .. n PROVE Len(w[i]) >= l
    <3> DEFINE k == n - i
    <3>1. k \in Nat /\ k \in 0 .. n /\ n - k = i /\ \A m \in 0 .. k - 1 : m \in 0 .. n - 1
      BY <1>1
    <3> HIDE DEF S, k
    <3>2. \A m \in 0 .. k - 1 : m \in S => m + 1 \in S
      BY <2>3, <3>1
    <3>3. k \in S
      BY <2>2, <3>1, <3>2, Induct
    <3> QED BY <3>1, <3>3 DEF S
  <2> QED BY <2>4 DEF l
<1> QED BY <1>10, <1>11, <1>12, <1>13, <1>14 DEF w

-----------------------------------------------------------------------------
(***************************************************************************)
(* The invariant of receive.                                               *)
(***************************************************************************)
SentInv ==
  /\ sent \in Transmissions /\ size = Len(Encode(sent))
  /\ kept \in 0 .. size + Len(NextResponse)
  /\ stream \in Bytes /\ Len(stream) <= kept
  /\ pc \in {"receive", "done", "failed", "scanned"}

(* The results are those of the first frames. *)
Decoded(frames, rs) ==
  /\ IsSeq(rs) /\ Len(rs) <= Len(frames)
  /\ \A i \in 1 .. Len(rs) : FrameKnown(frames[i]) /\ rs[i] = GotFields(frames[i].fields)

Completes(s, lost, t) == s \o lost = t

(* The stream is what is left after them, up to where it is cut. *)
Left(frames, rs, s, lostBytes) ==
  \E lost \in Bytes : Completes(s, lost, Tails(frames)[Len(rs)]) /\ Len(lost) = lostBytes

ReceiveInv ==
  /\ SentInv /\ Decoded(sent, results)
  /\ pc = "receive" => Left(sent, results, stream, size + Len(NextResponse) - kept)
  /\ pc \in {"done", "scanned"} => Len(results) = Len(sent) /\ Len(stream) = kept - size
  /\ pc = "failed" => kept < size \/ Unknown(sent)

LEMMA ReceiveInit == Init => ReceiveInv
<1> SUFFICES ASSUME Init PROVE ReceiveInv
  OBVIOUS
<1> DEFINE b == Encode(sent)  all == b \o NextResponse  lost == SubSeq(all, kept + 1, Len(all))
<1>1. sent \in Transmissions /\ size = Len(b) /\ kept \in 0 .. size + Len(NextResponse) /\ stream = SubSeq(all, 1, kept)
  BY DEF Init
<1>2. b \in Bytes /\ size \in Nat /\ Tails(sent)[0] = all
  BY <1>1, TailsAre
<1> HIDE DEF b
<1>3. all \in Bytes /\ Len(all) = size + Len(NextResponse) /\ Len(NextResponse) \in Nat
  BY <1>1, <1>2, NextResponseBytes, JoinIndex
<1> HIDE DEF all
<1>4. kept \in Nat /\ kept <= Len(all) /\ Len(all) \in Nat
  BY <1>1, <1>2, <1>3
<1>5. stream \in Bytes /\ Len(stream) = kept /\ lost \in Bytes /\ Len(lost) = Len(all) - kept
  BY <1>1, <1>3, <1>4 DEF Bytes
<1>5a. lost \in Bytes /\ Len(lost) = size + Len(NextResponse) - kept
  <2> HIDE DEF lost
  <2> QED BY <1>2, <1>3, <1>4, <1>5
<1>6. stream \o lost = all
  <2>1. \A i \in 1 .. kept : stream[i] = all[i]
    BY <1>1, <1>3, <1>4 DEF Bytes
  <2>2. \A i \in 1 .. Len(all) - kept : lost[i] = all[kept + i]
    BY <1>3, <1>4 DEF Bytes
  <2> HIDE DEF lost
  <2> DEFINE sl == stream \o lost
  <2>3. sl \in Bytes /\ Len(sl) = Len(stream) + Len(lost) /\ (\A i \in 1 .. Len(stream) : sl[i] = stream[i])
        /\ \A i \in 1 .. Len(lost) : sl[Len(stream) + i] = lost[i]
    BY <1>5, JoinIndex
  <2> HIDE DEF sl
  <2>4. Len(sl) = Len(all)
    BY <1>4, <1>5, <2>3
  <2>5. ASSUME NEW i \in 1 .. Len(sl) PROVE sl[i] = all[i]
    <3>1. CASE i <= kept
      <4>1. i \in 1 .. kept
        BY <1>4, <2>4, <3>1
      <4> QED BY <1>5, <2>1, <2>3, <4>1
    <3>2. CASE i > kept
      <4> DEFINE j == i - kept
      <4>1. j \in 1 .. Len(all) - kept /\ kept + j = i
        BY <1>4, <2>4, <3>2
      <4> HIDE DEF j
      <4> QED BY <1>5, <2>2, <2>3, <4>1
    <3> QED BY <1>4, <2>4, <3>1, <3>2
  <2>6. sl = all
    BY <1>3, <2>3, <2>4, <2>5, SameBytes
  <2> QED BY <2>6 DEF sl
<1>7. results = <<>> /\ pc = "receive"
  BY DEF Init
<1>8. IsSeq(results) /\ Len(results) = 0
  BY <1>7 DEF IsSeq
<1>9. Len(sent) \in Nat
  BY <1>1, SentFrames
<1>10. Decoded(sent, results)
  BY <1>8, <1>9 DEF Decoded
<1>11. SentInv
  BY <1>1, <1>4, <1>5, <1>7 DEF SentInv, b
<1> HIDE DEF lost
<1>12. Left(sent, results, stream, size + Len(NextResponse) - kept)
  <2>1. Completes(stream, lost, Tails(sent)[Len(results)])
    BY <1>2, <1>6, <1>8 DEF Completes
  <2>2. lost \in Bytes /\ Len(lost) = size + Len(NextResponse) - kept
    BY <1>5a
  <2> QED BY <2>1, <2>2 DEF Left
<1> QED BY <1>7, <1>10, <1>11, <1>12 DEF ReceiveInv

(* A frame that has arrived whole, or only in part. *)
LEMMA NextFrame ==
  ASSUME NEW frames \in Transmissions, NEW k \in Nat, k < Len(frames), NEW s \in Bytes, NEW lost \in Bytes,
         Completes(s, lost, Tails(frames)[k])
  PROVE  LET f == frames[k + 1]
         IN  \/ /\ ReadFrame(s) = [err |-> TRUE] /\ Len(lost) > Len(NextResponse)
             \/ /\ ReadFrame(s) = FrameRead(f.mode, Payload(f), After(s, SentBytes(f)))
                /\ After(s, SentBytes(f)) \in Bytes /\ Len(After(s, SentBytes(f))) <= Len(s)
                /\ Completes(After(s, SentBytes(f)), lost, Tails(frames)[k + 1])
<1> DEFINE f == frames[k + 1]  mode == f.mode  p == Payload(f)  b == SentBytes(f)  t == Tails(frames)[k + 1]
<1>0. Len(frames) \in Nat /\ k + 1 \in 1 .. Len(frames) /\ k + 1 \in 0 .. Len(frames) /\ (k + 1) - 1 = k
  BY SentFrames
<1>1. FrameOK(f)
  BY <1>0, SentFrames
<1>2. mode \in 1 .. 255 /\ p \in Bytes /\ Fits(IntLen, IntLen + Len(p)) /\ b \in Bytes /\ b = WriteFrame(mode, p)
  BY <1>1, SentIsBytes DEF SentBytes
<1>3. t \in Bytes /\ Len(t) >= 1 + Len(NextResponse) /\ Tails(frames)[k] = b \o t
  BY <1>0, TailsAre
<1>4. s \o lost = b \o t /\ Len(NextResponse) \in Nat
  BY <1>3, NextResponseBytes DEF Completes
<1> HIDE DEF f, mode, p, b, t
<1>5. CASE Len(s) < Len(b)
  <2>1. ReadFrame(s) = [err |-> TRUE]
    <3>1. s \o lost = WriteFrame(mode, p) \o t /\ Len(s) < Len(WriteFrame(mode, p))
      BY <1>2, <1>4, <1>5
    <3> QED BY <1>2, <1>3, <3>1, ReadCut
  <2>2. Len(s \o lost) = Len(s) + Len(lost) /\ Len(b \o t) = Len(b) + Len(t)
    BY <1>2, <1>3, JoinIndex
  <2>3. Len(s) \in Nat /\ Len(lost) \in Nat /\ Len(b) \in Nat /\ Len(t) \in Nat
    BY <1>2, <1>3 DEF Bytes
  <2>4. Len(lost) > Len(NextResponse)
    BY <1>3, <1>4, <1>5, <2>2, <2>3
  <2> QED BY <2>1, <2>4
<1>6. CASE Len(s) >= Len(b)
  <2> DEFINE r == After(s, b)
  <2>1. Joins(s, lost, b, t)
    BY <1>4, <1>6 DEF Joins
  <2>2. r \in Bytes /\ r \o lost = t /\ s = b \o r /\ Len(r) = Len(s) - Len(b)
    <3>1. b \in Bytes /\ t \in Bytes
      BY <1>2, <1>3
    <3> QED BY <2>1, <3>1, TwoCuts
  <2> HIDE DEF r
  <2>3. ReadFrame(b \o r) = FrameRead(mode, p, r)
    BY <1>2, <2>2, ReadWhole
  <2>4. Len(r) <= Len(s)
    BY <1>2, <2>2 DEF Bytes
  <2> QED BY <2>2, <2>3, <2>4 DEF r, b, t, mode, p, f, Completes
<1>7. Len(s) \in Nat /\ Len(b) \in Nat
  BY <1>2 DEF Bytes
<1> QED BY <1>5, <1>6, <1>7

LEMMA CutIsShort ==
  ASSUME SentInv, NEW n \in Nat, n = size + Len(NextResponse) - kept, n > Len(NextResponse)
  PROVE  kept < size
<1>1. size \in Nat /\ Len(NextResponse) \in Nat
  BY TailsAre, NextResponseBytes DEF SentInv
<1>2. kept \in Nat
  BY <1>1 DEF SentInv
<1> QED BY <1>1, <1>2

LEMMA NotNone ==
  ASSUME NEW y, FrameOK(y)
  PROVE  y.mode # 0
<1> DEFINE x == y.mode
<1>1. x \in 1 .. 255
  BY DEF FrameOK
<1> HIDE DEF x
<1>2. x # 0
  BY <1>1
<1> QED BY <1>2 DEF x

(* One frame more is decoded, or its decoding fails. *)
LEMMA FrameStep ==
  ASSUME ReceiveInv, pc = "receive", Len(results) < Len(sent), receive(ReadFrame(stream)),
         UNCHANGED <<sent, size, kept, scanned>>
  PROVE  ReceiveInv'
<1> DEFINE k == Len(results)  f == sent[k + 1]  r == After(stream, SentBytes(f))  m == size + Len(NextResponse) - kept
<1>1. SentInv /\ Decoded(sent, results) /\ Left(sent, results, stream, m)
  BY DEF ReceiveInv
<1>2. sent \in Transmissions /\ stream \in Bytes /\ Len(stream) <= kept
  BY <1>1 DEF SentInv
<1>3. IsSeq(results) /\ k \in Nat /\ k < Len(sent)
  BY <1>1 DEF Decoded, IsSeq
<1>4. PICK lost \in Bytes : Completes(stream, lost, Tails(sent)[k]) /\ Len(lost) = m
  BY <1>1 DEF Left
<1> HIDE DEF k, m
<1>5. \/ ReadFrame(stream) = [err |-> TRUE] /\ Len(lost) > Len(NextResponse)
      \/ /\ ReadFrame(stream) = FrameRead(f.mode, Payload(f), r)
         /\ r \in Bytes /\ Len(r) <= Len(stream)
         /\ Completes(r, lost, Tails(sent)[k + 1])
  BY <1>2, <1>3, <1>4, NextFrame
<1>6. Len(sent) \in Nat /\ k + 1 \in 1 .. Len(sent) /\ FrameOK(f) /\ k + 1 \in DOMAIN sent
  BY <1>2, <1>3, SentFrames
<1>7. sent' = sent /\ size' = size /\ kept' = kept
  OBVIOUS
<1> HIDE DEF f, r
<1>8. CASE ReadFrame(stream) = [err |-> TRUE] /\ Len(lost) > Len(NextResponse)
  <2>1. pc' = "failed" /\ stream' = stream /\ results' = results
    BY <1>8 DEF receive
  <2>2. m \in Nat /\ m > Len(NextResponse)
    BY <1>4, <1>8 DEF Bytes
  <2>3. kept < size
    BY <1>1, <2>2, CutIsShort DEF m
  <2>4. SentInv'
    BY <1>1, <1>7, <2>1 DEF SentInv, NextResponse, WriteFrame
  <2>5. Decoded(sent, results)'
    BY <1>1, <1>7, <2>1
  <2> QED BY <1>7, <2>1, <2>3, <2>4, <2>5 DEF ReceiveInv
<1>9. CASE /\ ReadFrame(stream) = FrameRead(f.mode, Payload(f), r)
           /\ r \in Bytes /\ Len(r) <= Len(stream)
           /\ Completes(r, lost, Tails(sent)[k + 1])
  <2> DEFINE q == FrameRead(f.mode, Payload(f), r)  d == DecodeResult(f.mode, Payload(f))
  <2>1. q.err = FALSE /\ q.mode = f.mode /\ q.payload = Payload(f) /\ q.rest = r
    BY DEF FrameRead
  <2>2. f.mode # 0
    BY <1>6, NotNone
  <2>3. stream' = r /\ decoded(d)
    <3> HIDE DEF q
    <3>1. receive(q)
      BY <1>9 DEF q
    <3> QED BY <2>1, <2>2, <3>1 DEF receive
  <2>4. r \in Bytes /\ Len(r) <= kept
    <3>1. Len(r) \in Nat /\ Len(stream) \in Nat /\ kept \in Int
      <4>1. size \in Nat /\ Len(NextResponse) \in Nat
        BY <1>1, TailsAre, NextResponseBytes DEF SentInv
      <4> QED BY <1>1, <1>2, <1>9, <4>1 DEF SentInv, Bytes
    <3> QED BY <1>2, <1>9, <3>1
  <2> HIDE DEF d
  <2>5. CASE FrameKnown(f)
    <3> DEFINE y == GotFields(f.fields)
    <3>1. PICK mm : d = In(<<>>, y, mm)
      BY <1>6, <2>5, FrameDecodes DEF d
    <3>2. ~d.err /\ d.val = y
      BY <3>1, Input
    <3> HIDE DEF y
    <3>3. results' = Append(results, y) /\ pc' = pc
      BY <2>3, <3>2 DEF decoded
    <3>4. /\ IsSeq(results') /\ Len(results') = k + 1
          /\ results'[k + 1] = y /\ \A i \in 1 .. k : results'[i] = results[i]
      BY <1>3, <3>3, AppendIs DEF k
    <3>5. SentInv'
      BY <1>1, <1>7, <2>3, <2>4, <3>3 DEF SentInv, NextResponse, WriteFrame
    <3>6. ASSUME NEW i \in 1 .. k + 1 PROVE FrameKnown(sent[i]) /\ results'[i] = GotFields(sent[i].fields)
      <4>1. CASE i = k + 1
        BY <2>5, <3>4, <4>1 DEF y, f
      <4>2. CASE i # k + 1
        <5>1. i \in 1 .. k
          BY <1>3, <4>2
        <5> QED BY <1>1, <3>4, <5>1 DEF Decoded, k
      <4> QED BY <4>1, <4>2
    <3>7. Decoded(sent, results)'
      <4>1. k + 1 <= Len(sent)
        BY <1>6
      <4> QED BY <1>7, <3>4, <3>6, <4>1 DEF Decoded
    <3>8. Left(sent, results, stream, size + Len(NextResponse) - kept)'
      <4>1. Left(sent, results', r, m)
        BY <1>4, <1>9, <3>4 DEF Left
      <4> QED BY <1>7, <2>3, <4>1 DEF m, Left, NextResponse, WriteFrame
    <3>9. pc' = "receive"
      BY <3>3
    <3> QED BY <3>5, <3>7, <3>8, <3>9 DEF ReceiveInv
  <2>6. CASE ~FrameKnown(f)
    <3>1. d.err = TRUE
      BY <1>6, <2>6, FrameFails DEF d
    <3>2. results' = results /\ pc' = "failed"
      BY <2>3, <3>1 DEF decoded
    <3>3. Unknown(sent)
      BY <1>6, <2>6, WhyUnknown DEF f
    <3>4. SentInv'
      BY <1>1, <1>7, <2>3, <2>4, <3>2 DEF SentInv, NextResponse, WriteFrame
    <3>5. Decoded(sent, results)'
      BY <1>1, <1>7, <3>2
    <3>6. Unknown(sent)'
      BY <1>7, <3>3
    <3> QED BY <3>2, <3>4, <3>5, <3>6 DEF ReceiveInv
  <2> QED BY <2>5, <2>6
<1> QED BY <1>5, <1>8, <1>9

(* The terminator. *)
LEMMA NoneStep ==
  ASSUME ReceiveInv, pc = "receive", Len(results) = Len(sent), receive(ReadFrame(stream)),
         UNCHANGED <<sent, size, kept, scanned>>
  PROVE  ReceiveInv'
<1> DEFINE m == size + Len(NextResponse) - kept
<1>1. SentInv /\ Decoded(sent, results) /\ Left(sent, results, stream, m)
  BY DEF ReceiveInv
<1>2. sent \in Transmissions /\ stream \in Bytes /\ Len(stream) <= kept
  BY <1>1 DEF SentInv
<1>3. PICK lost \in Bytes : Completes(stream, lost, Tails(sent)[Len(results)]) /\ Len(lost) = m
  BY <1>1 DEF Left
<1>4. size \in Nat /\ Len(NextResponse) \in Nat /\ NextResponse \in Bytes /\ kept \in Nat
  BY <1>1, TailsAre, NextResponseBytes DEF SentInv
<1>5. stream \o lost = <<0>> \o NextResponse
  BY <1>2, <1>3, TailsAre DEF Completes, EndOfSent
<1>6. sent' = sent /\ size' = size /\ kept' = kept
  OBVIOUS
<1>7. CASE stream = <<>>
  <2>1. ReadFrame(stream) = [err |-> TRUE]
    BY <1>7 DEF ReadFrame
  <2>2. pc' = "failed" /\ stream' = stream /\ results' = results
    BY <2>1 DEF receive
  <2>3. Len(lost) = 1 + Len(NextResponse)
    <3> DEFINE z == <<0>>
    <3>1. z \in Bytes /\ Len(z) = 1
      <4>1. 0 \in Byte
        BY DEF Byte
      <4> QED BY <4>1, OneByte
    <3> HIDE DEF z
    <3>2. <<>> \o lost = z \o NextResponse
      BY <1>5, <1>7 DEF z
    <3>3. <<>> \o lost = lost
      BY NoneBefore DEF Bytes
    <3>4. Len(z \o NextResponse) = Len(z) + Len(NextResponse)
      BY <1>4, <3>1, JoinIndex
    <3> QED BY <3>1, <3>2, <3>3, <3>4
  <2>4. m \in Nat /\ m > Len(NextResponse)
    BY <1>3, <1>4, <2>3 DEF Bytes
  <2>5. kept < size
    <3> HIDE DEF m
    <3> QED BY <1>1, <2>4, CutIsShort DEF m
  <2>6. SentInv'
    BY <1>1, <1>6, <2>2 DEF SentInv, NextResponse, WriteFrame
  <2>7. Decoded(sent, results)'
    BY <1>1, <1>6, <2>2
  <2> QED BY <1>6, <2>2, <2>5, <2>6, <2>7 DEF ReceiveInv
<1>8. CASE stream # <<>>
  <2> DEFINE r == Tail(stream)
  <2>1. /\ ReadFrame(stream) = [err |-> FALSE, mode |-> 0, rest |-> r]
        /\ r \in Bytes /\ r \o lost = NextResponse /\ Len(r) = Len(stream) - 1 /\ Len(stream) >= 1
    BY <1>2, <1>4, <1>5, <1>8, ReadNone
  <2> HIDE DEF r
  <2>2. stream' = r /\ results' = results /\ pc' = IF results = <<>> THEN "failed" ELSE "done"
    BY <2>1 DEF receive
  <2>3. results # <<>>
    <3>1. Len(results) # 0
      BY <1>2, SentFrames
    <3> QED BY <3>1
  <2>4. Len(r) + Len(lost) = Len(NextResponse) /\ Len(r) \in Nat /\ Len(lost) \in Nat /\ Len(stream) \in Nat
    <3>1. r \in Bytes /\ lost \in Bytes /\ stream \in Bytes
      BY <1>2, <1>3, <1>4, <2>1
    <3>2. Len(r \o lost) = Len(r) + Len(lost)
      BY <3>1, JoinIndex
    <3>3. Len(r) \in Nat /\ Len(lost) \in Nat /\ Len(stream) \in Nat
      BY <3>1 DEF Bytes
    <3> QED BY <2>1, <3>2, <3>3
  <2>5. Len(r) = kept - size /\ Len(r) <= kept
    BY <1>3, <1>4, <2>4
  <2>6. pc' = "done"
    BY <2>2, <2>3
  <2>7. SentInv'
    BY <1>1, <1>6, <2>1, <2>2, <2>5, <2>6 DEF SentInv, NextResponse, WriteFrame
  <2>8. Decoded(sent, results)'
    BY <1>1, <1>6, <2>2
  <2>9. Len(results') = Len(sent') /\ Len(stream') = kept' - size'
    BY <1>6, <2>2, <2>5
  <2> QED BY <2>6, <2>7, <2>8, <2>9 DEF ReceiveInv
<1> QED BY <1>7, <1>8

LEMMA ReceiveStep ==
  ReceiveInv /\ [Next]_vars => ReceiveInv'
<1> SUFFICES ASSUME ReceiveInv, [Next]_vars PROVE ReceiveInv'
  OBVIOUS
<1>1. CASE Receive
  <2>1. Len(results) \in Nat /\ Len(results) <= Len(sent) /\ Len(sent) \in Nat
    BY SentFrames DEF ReceiveInv, SentInv, Decoded, IsSeq
  <2>2. Len(results) < Len(sent) \/ Len(results) = Len(sent)
    BY <2>1
  <2> QED BY <1>1, <2>2, FrameStep, NoneStep DEF Receive
<1>2. CASE Scan
  <2>1. pc = "done" /\ pc' = "scanned" /\ UNCHANGED <<sent, size, kept, stream, results>>
    BY <1>2 DEF Scan
  <2>2. SentInv'
    BY <2>1 DEF ReceiveInv, SentInv, NextResponse, WriteFrame
  <2>3. Decoded(sent, results)'
    BY <2>1 DEF ReceiveInv
  <2> QED BY <2>1, <2>2, <2>3 DEF ReceiveInv
<1>3. CASE UNCHANGED vars
  BY <1>3 DEF vars, ReceiveInv, SentInv, Decoded, Left, NextResponse, WriteFrame
<1> QED BY <1>1, <1>2, <1>3 DEF Next

(* The invariant implies the properties. *)
LEMMA ReceiveTypes == ReceiveInv => TypeOK
<1> SUFFICES ASSUME ReceiveInv PROVE TypeOK
  OBVIOUS
<1>1. size \in Nat
  BY TailsAre DEF ReceiveInv, SentInv
<1> QED BY <1>1 DEF ReceiveInv, SentInv, Decoded, TypeOK, Bytes, Byte

LEMMA ReceiveDecodes == ReceiveInv => DecodesWhatWasSent
<1> SUFFICES ASSUME ReceiveInv PROVE DecodesWhatWasSent
  OBVIOUS
<1>1. sent \in Transmissions
  BY DEF ReceiveInv, SentInv
<1>2. DOMAIN sent = 1 .. Len(sent)
  BY <1>1, SentFrames
<1>3. ASSUME pc \in {"done", "scanned"}, NEW i \in 1 .. Len(sent)
      PROVE  Arrived(sent[i].fields, results[i])
  <2>1. FrameOK(sent[i])
    BY <1>1, SentFrames
  <2>2. FrameKnown(sent[i]) /\ results[i] = GotFields(sent[i].fields)
    BY <1>3 DEF ReceiveInv, Decoded
  <2> QED BY <2>1, <2>2, FrameArrives
<1> QED BY <1>2, <1>3 DEF ReceiveInv, DecodesWhatWasSent, Arrived

-----------------------------------------------------------------------------
(***************************************************************************)
(* The theorems about receive.                                             *)
(***************************************************************************)
(* What receive keeps stays in its type for every transmission the server  *)
(* may send and every point where the stream ends: it never reads past the *)
(* bytes that arrived, and never has more results than there are frames.   *)
THEOREM WireTypes == Spec => []TypeOK
<1>1. Init => ReceiveInv
  BY ReceiveInit
<1>2. ReceiveInv /\ [Next]_vars => ReceiveInv'
  BY ReceiveStep
<1>3. ReceiveInv => TypeOK
  BY ReceiveTypes
<1> QED BY <1>1, <1>2, <1>3, PTL DEF Spec

(* When conn.receive returns without an error, DecodeResult has given for  *)
(* every frame the fields, the metadata, the rows and the values that the  *)
(* server wrote, each as its Go value, and has left the next response on   *)
(* the stream untouched.  It fails only when the stream was cut inside the *)
(* response or the response has a type the driver does not know.           *)
THEOREM WireDecodes == Spec => []DecodesWhatWasSent
<1>1. Init => ReceiveInv
  BY ReceiveInit
<1>2. ReceiveInv /\ [Next]_vars => ReceiveInv'
  BY ReceiveStep
<1>3. ReceiveInv => DecodesWhatWasSent
  BY ReceiveDecodes
<1> QED BY <1>1, <1>2, <1>3, PTL DEF Spec

-----------------------------------------------------------------------------
(***************************************************************************)
(* The text of an array.                                                   *)
(***************************************************************************)
LEMMA TextParts ==
  ASSUME NEW S, NEW n \in Nat, NEW parts, Tuple(parts, n), \A i \in 1 .. n : parts[i] \in Seq(S)
  PROVE  FlattenSeq(parts) \in Seq(S) /\ \E p : Placed(FlattenSeq(parts), p, parts, n)
<1>1. Parts(parts, S, n)
  <2>1. Len(parts) = n
    BY TupleLen
  <2>2. n = 0 => parts = <<>>
    BY DEF Tuple
  <2> QED BY <2>1, <2>2 DEF Parts
<1> DEFINE b == FlattenSeq(parts)
<1>2. b \in Seq(S) /\ \E w : Rests(w, S, parts, n, <<>>) /\ w[0] = b \o <<>>
  <2>1. <<>> \in Seq(S)
    OBVIOUS
  <2> QED BY <1>1, <2>1, FlattenRests
<1> HIDE DEF b
<1>3. PICK w : Rests(w, S, parts, n, <<>>) /\ w[0] = b \o <<>>
  BY <1>2
<1>4. w[0] = b
  BY <1>2, <1>3, NoneBefore
<1>5. Splits(b, S, parts, n, w)
  BY <1>2, <1>3, <1>4 DEF Splits, Rests
<1>6. \E p : Placed(b, p, parts, n)
  BY <1>5, PlacedAt
<1> QED BY <1>2, <1>6 DEF b

(* A walk upwards from lo: from j to d[j], to the first position of C. *)
HopTable(t, lo, hi, C, d) == t = [j \in lo .. hi |-> IF j \in C THEN j ELSE t[d[j]]]

Climbs(lo, hi, C, d) ==
  lo \in Int /\ hi \in Int /\ lo <= hi /\ \A j \in lo .. hi : j \notin C => d[j] \in j + 1 .. hi

LEMMA HopTableAt ==
  ASSUME NEW t, NEW lo, NEW hi, NEW C, NEW d, HopTable(t, lo, hi, C, d), NEW j \in lo .. hi
  PROVE  t[j] = IF j \in C THEN j ELSE t[d[j]]
<1> DEFINE g == [i \in lo .. hi |-> IF i \in C THEN i ELSE t[d[i]]]
<1>1. t = g
  BY DEF HopTable
<1>2. g[j] = IF j \in C THEN j ELSE t[d[j]]
  OBVIOUS
<1> HIDE DEF g
<1> QED BY <1>1, <1>2

LEMMA HopTableExists ==
  ASSUME NEW lo, NEW hi, NEW C, NEW d, Climbs(lo, hi, C, d)
  PROVE  \E t : HopTable(t, lo, hi, C, d)
<1> DEFINE ok(u, i) == u[i] = IF i \in C THEN i ELSE u[d[i]]
           n == hi - lo + 1
           S == {m \in 0 .. n : \E u : \A i \in lo .. hi : i > hi - m => ok(u, i)}
<1>0. lo \in Int /\ hi \in Int /\ lo <= hi /\ n \in Nat
  BY DEF Climbs
<1>1. 0 \in S
  <2>1. \A i \in lo .. hi : i > hi - 0 => ok(<<>>, i)
    BY <1>0
  <2> HIDE DEF ok
  <2> QED BY <1>0, <2>1
<1>2. ASSUME NEW m \in 0 .. n - 1, m \in S PROVE m + 1 \in S
  <2>1. PICK u : \A i \in lo .. hi : i > hi - m => ok(u, i)
    BY <1>2
  <2> DEFINE k == hi - m
             x == IF k \in C THEN k ELSE u[d[k]]
             z == [i \in lo .. hi |-> IF i = k THEN x ELSE u[i]]
  <2>2. k \in lo .. hi /\ m + 1 \in 0 .. n /\ \A i \in lo .. hi : i > hi - (m + 1) => i = k \/ i > k
    BY <1>0
  <2>3. z[k] = x /\ \A i \in lo .. hi : i # k => z[i] = u[i]
    BY <2>2
  <2> HIDE DEF z
  <2>4. ASSUME NEW i \in lo .. hi, i >= k PROVE ok(z, i)
    <3>1. i \notin C => d[i] \in lo .. hi /\ d[i] # k
      BY <1>0, <2>2, <2>4 DEF Climbs
    <3>2. i \notin C => z[d[i]] = u[d[i]]
      BY <2>3, <3>1
    <3>3. CASE i = k
      BY <2>2, <2>3, <3>2, <3>3
    <3>4. CASE i # k
      <4>1. ok(u, i) /\ z[i] = u[i]
        BY <1>0, <2>1, <2>2, <2>3, <2>4, <3>4
      <4> QED BY <3>2, <4>1
    <3> QED BY <3>3, <3>4
  <2>5. \A i \in lo .. hi : i > hi - (m + 1) => ok(z, i)
    BY <1>0, <2>2, <2>4
  <2> HIDE DEF ok, k, x
  <2> QED BY <2>2, <2>5
<1>3. n \in S
  <2> HIDE DEF S, n
  <2> QED BY <1>0, <1>1, <1>2, Induct
<1>4. PICK u : \A i \in lo .. hi : ok(u, i)
  <2>1. \E u : \A i \in lo .. hi : i > hi - n => ok(u, i)
    BY <1>3
  <2>2. \A i \in lo .. hi : i > hi - n
    BY <1>0
  <2> HIDE DEF ok, n
  <2> QED BY <2>1, <2>2
<1> DEFINE t == [i \in lo .. hi |-> u[i]]
<1>5. ASSUME NEW i \in lo .. hi PROVE t[i] = IF i \in C THEN i ELSE t[d[i]]
  <2>1. i \notin C => d[i] \in lo .. hi
    BY <1>0 DEF Climbs
  <2>2. t[i] = u[i] /\ (i \notin C => t[d[i]] = u[d[i]])
    BY <2>1
  <2> HIDE DEF t
  <2> QED BY <1>4, <2>2
<1>6. t = [i \in lo .. hi |-> t[i]]
  OBVIOUS
<1> HIDE DEF t
<1> DEFINE g == [i \in lo .. hi |-> IF i \in C THEN i ELSE t[d[i]]]
<1>7. t = g
  BY <1>5, <1>6, Zenon
<1>8. HopTable(t, lo, hi, C, d)
  BY <1>7 DEF HopTable
<1> QED BY <1>8

(* A walk stays between where it starts and the end. *)
LEMMA HopRange ==
  ASSUME NEW lo, NEW hi, NEW C, NEW d, Climbs(lo, hi, C, d), hi \in C,
         NEW t, HopTable(t, lo, hi, C, d)
  PROVE  \A j \in lo .. hi : t[j] \in j .. hi
<1> DEFINE n == hi - lo
           S == {m \in 0 .. n : \A i \in lo .. hi : i >= hi - m => t[i] \in i .. hi}
<1>0. lo \in Int /\ hi \in Int /\ lo <= hi /\ n \in Nat
  BY DEF Climbs
<1>1. 0 \in S
  <2>1. t[hi] = hi
    BY <1>0, HopTableAt
  <2> QED BY <1>0, <2>1
<1>2. ASSUME NEW m \in 0 .. n - 1, m \in S PROVE m + 1 \in S
  <2>1. ASSUME NEW i \in lo .. hi, i >= hi - (m + 1) PROVE t[i] \in i .. hi
    <3>1. t[i] = IF i \in C THEN i ELSE t[d[i]]
      BY HopTableAt
    <3>2. CASE i \in C
      BY <1>0, <3>1, <3>2
    <3>3. CASE i \notin C
      <4> DEFINE x == d[i]
      <4>1. x \in i + 1 .. hi
        BY <3>3 DEF Climbs
      <4> HIDE DEF x
      <4>2. x \in lo .. hi /\ x >= hi - m
        BY <1>0, <2>1, <4>1
      <4>3. t[x] \in x .. hi
        BY <1>2, <4>2
      <4>4. t[i] = t[x]
        BY <3>1, <3>3 DEF x
      <4> QED BY <1>0, <4>1, <4>3, <4>4
    <3> QED BY <3>2, <3>3
  <2> QED BY <1>0, <2>1
<1>3. n \in S
  <2> HIDE DEF S, n
  <2> QED BY <1>0, <1>1, <1>2, Induct
<1> QED BY <1>0, <1>3

(* A walk that visits the positions p ends at the last of them. *)
Visits(p, k, lo, hi, C, d) ==
  /\ p[0] = lo /\ p[k] \in C /\ p[k] \in lo .. hi
  /\ \A j \in 1 .. k : p[j - 1] \in lo .. hi /\ p[j - 1] \notin C /\ d[p[j - 1]] = p[j]

LEMMA HopPath ==
  ASSUME NEW lo, NEW hi, NEW C, NEW d, NEW t, HopTable(t, lo, hi, C, d),
         NEW k \in Nat, NEW p, Visits(p, k, lo, hi, C, d)
  PROVE  t[lo] = p[k]
<1> DEFINE S == {m \in 0 .. k : t[p[k - m]] = p[k]}
<1>1. 0 \in S
  <2>1. k - 0 = k /\ t[p[k]] = p[k]
    BY HopTableAt DEF Visits
  <2> QED BY <2>1
<1>2. ASSUME NEW m \in 0 .. k - 1, m \in S PROVE m + 1 \in S
  <2> DEFINE j == k - m  x == p[j - 1]
  <2>1. j \in 1 .. k /\ k - (m + 1) = j - 1 /\ m + 1 \in 0 .. k
    OBVIOUS
  <2>2. t[p[j]] = p[k]
    BY <1>2
  <2> HIDE DEF j
  <2>3. x \in lo .. hi /\ x \notin C /\ d[x] = p[j]
    BY <2>1 DEF Visits
  <2> HIDE DEF x
  <2>4. t[x] = p[k]
    BY <2>2, <2>3, HopTableAt
  <2> QED BY <2>1, <2>4 DEF x
<1>3. k \in S
  <2> HIDE DEF S
  <2> QED BY <1>1, <1>2, Induct
<1>4. k - k = 0 /\ p[0] = lo
  BY DEF Visits
<1> QED BY <1>3, <1>4

-----------------------------------------------------------------------------
(***************************************************************************)
(* Quoted elements.                                                        *)
(***************************************************************************)
Stops(s) == {j \in 1 .. Len(s) + 2 : j > Len(s) \/ s[j] = Quote}
Jumps(s) == [j \in 1 .. Len(s) + 2 |-> IF s[j] = Backslash THEN j + 2 ELSE j + 1]

LEMMA JumpsClimb ==
  ASSUME NEW s, Len(s) \in Nat, NEW i \in 1 .. Len(s) + 2
  PROVE  Climbs(i, Len(s) + 2, Stops(s), Jumps(s)) /\ Len(s) + 2 \in Stops(s)
<1> DEFINE n == Len(s)
<1>1. n \in Nat
  OBVIOUS
<1>2. \A j \in 1 .. n + 2 : Jumps(s)[j] = IF s[j] = Backslash THEN j + 2 ELSE j + 1
  BY DEF Jumps
<1>3. \A j \in 1 .. n + 2 : j \in Stops(s) <=> (j > n \/ s[j] = Quote)
  BY DEF Stops
<1> HIDE DEF n
<1>4. ASSUME NEW j \in i .. n + 2, j \notin Stops(s) PROVE Jumps(s)[j] \in j + 1 .. n + 2
  <2>1. j \in 1 .. n + 2 /\ j <= n
    BY <1>1, <1>3, <1>4 DEF n
  <2> QED BY <1>1, <1>2, <2>1
<1>5. i \in Int /\ n + 2 \in Int /\ i <= n + 2 /\ n + 2 \in Stops(s)
  BY <1>1, <1>3 DEF n
<1> QED BY <1>4, <1>5 DEF Climbs, n

LEMMA ClosingIs ==
  ASSUME NEW s, Len(s) \in Nat, NEW i \in 1 .. Len(s) + 2
  PROVE  \E t : HopTable(t, i, Len(s) + 2, Stops(s), Jumps(s)) /\ ClosingQuote(s, i) = t[i]
<1> DEFINE n == Len(s)
           Q(t) == t = [j \in i .. n + 2 |-> IF j > n \/ s[j] = Quote THEN j
                                             ELSE t[IF s[j] = Backslash THEN j + 2 ELSE j + 1]]
           any == CHOOSE t : Q(t)
<1>1. ClosingQuote(s, i) = any[i]
  BY DEF ClosingQuote
<1>2. \A j \in i .. n + 2 : Jumps(s)[j] = IF s[j] = Backslash THEN j + 2 ELSE j + 1
  BY DEF Jumps
<1>3. \A j \in i .. n + 2 : j \in Stops(s) <=> (j > n \/ s[j] = Quote)
  BY DEF Stops
<1>4. ASSUME NEW t PROVE Q(t) <=> HopTable(t, i, n + 2, Stops(s), Jumps(s))
  <2> DEFINE f == [j \in i .. n + 2 |-> IF j > n \/ s[j] = Quote THEN j
                                        ELSE t[IF s[j] = Backslash THEN j + 2 ELSE j + 1]]
             g == [j \in i .. n + 2 |-> IF j \in Stops(s) THEN j ELSE t[Jumps(s)[j]]]
  <2>1. f = g
    <3> HIDE DEF n
    <3> QED BY <1>2, <1>3
  <2>2. HopTable(t, i, n + 2, Stops(s), Jumps(s)) <=> t = g
    BY DEF HopTable
  <2>3. Q(t) <=> t = f
    OBVIOUS
  <2> HIDE DEF f, g, Q
  <2> QED BY <2>1, <2>2, <2>3
<1>5. \E t : HopTable(t, i, n + 2, Stops(s), Jumps(s))
  <2>1. Climbs(i, n + 2, Stops(s), Jumps(s))
    BY JumpsClimb
  <2> DEFINE hi == n + 2
  <2> HIDE DEF n, hi
  <2>2. \E t : HopTable(t, i, hi, Stops(s), Jumps(s))
    BY <2>1, HopTableExists DEF hi
  <2> QED BY <2>2 DEF hi
<1>6. HopTable(any, i, n + 2, Stops(s), Jumps(s))
  <2> HIDE DEF Q
  <2>1. Q(any)
    BY <1>4, <1>5
  <2> HIDE DEF any
  <2> QED BY <1>4, <2>1
<1> HIDE DEF any
<1> QED BY <1>1, <1>6

LEMMA ClosingRange ==
  ASSUME NEW s, Len(s) \in Nat, NEW i \in 1 .. Len(s) + 2
  PROVE  ClosingQuote(s, i) \in i .. Len(s) + 2
<1> DEFINE hi == Len(s) + 2
<1>1. PICK t : HopTable(t, i, hi, Stops(s), Jumps(s)) /\ ClosingQuote(s, i) = t[i]
  BY ClosingIs
<1>2. Climbs(i, hi, Stops(s), Jumps(s)) /\ hi \in Stops(s) /\ i \in i .. hi
  BY JumpsClimb
<1> HIDE DEF hi
<1>3. t[i] \in i .. hi
  BY <1>1, <1>2, HopRange
<1> QED BY <1>1, <1>3 DEF hi

LEMMA ClosingPath ==
  ASSUME NEW s, Len(s) \in Nat, NEW i \in 1 .. Len(s) + 2, NEW k \in Nat, NEW p,
         Visits(p, k, i, Len(s) + 2, Stops(s), Jumps(s))
  PROVE  ClosingQuote(s, i) = p[k]
<1> DEFINE hi == Len(s) + 2
<1>1. PICK t : HopTable(t, i, hi, Stops(s), Jumps(s)) /\ ClosingQuote(s, i) = t[i]
  BY ClosingIs
<1>2. Visits(p, k, i, hi, Stops(s), Jumps(s))
  OBVIOUS
<1> HIDE DEF hi
<1>3. t[i] = p[k]
  BY <1>1, <1>2, HopPath
<1> QED BY <1>1, <1>3

Escaped(c) == IF c \in {Quote, Backslash} THEN <<Backslash, c>> ELSE <<c>>
Escapes(s) == [i \in 1 .. Len(s) |-> Escaped(s[i])]
Body(s)    == FlattenSeq(Escapes(s))

LEMMA BodyPlaced ==
  ASSUME NEW s \in Seq(Int)
  PROVE  Body(s) \in Seq(Int) /\ \E p : Placed(Body(s), p, Escapes(s), Len(s))
<1>1. Len(s) \in Nat /\ \A i \in 1 .. Len(s) : s[i] \in Int
  OBVIOUS
<1>2. \A c \in Int : Escaped(c) \in Seq(Int)
  BY DEF Escaped, Backslash
<1>3. Tuple(Escapes(s), Len(s)) /\ \A i \in 1 .. Len(s) : Escapes(s)[i] \in Seq(Int)
  BY <1>1, <1>2 DEF Tuple, Escapes
<1> QED BY <1>1, <1>3, TextParts DEF Body

LEMMA QuotedIs ==
  ASSUME NEW s \in Seq(Int)
  PROVE  Quoted(s) = <<Quote>> \o Body(s) \o <<Quote>>
<1>1. DOMAIN s = 1 .. Len(s)
  OBVIOUS
<1> QED BY <1>1 DEF Quoted, Body, Escapes, Escaped

LEMMA EscapedAt ==
  ASSUME NEW b, Len(b) \in Nat, NEW i \in Nat \ {0}, NEW c \in Int, Holds(b, i, Escaped(c))
  PROVE  /\ i <= Len(b) /\ b[i] # Quote
         /\ c = IF b[i] = Backslash THEN b[i + 1] ELSE b[i]
         /\ Len(Escaped(c)) = IF b[i] = Backslash THEN 2 ELSE 1
<1>1. i - 1 + 1 = i /\ i - 1 + 2 = i + 1
  OBVIOUS
<1>2. CASE c \in {Quote, Backslash}
  <2> DEFINE a == <<Backslash, c>>
  <2>1. Len(a) = 2 /\ a[1] = Backslash /\ a[2] = c /\ Escaped(c) = a
    BY <1>2 DEF Escaped
  <2> HIDE DEF a
  <2>2. i + 1 <= Len(b) /\ b[i - 1 + 1] = a[1] /\ b[i - 1 + 2] = a[2]
    <3>1. i + Len(a) - 1 <= Len(b) /\ \A j \in 1 .. Len(a) : b[i - 1 + j] = a[j]
      BY <2>1 DEF Holds
    <3> QED BY <2>1, <3>1
  <2> QED BY <1>1, <2>1, <2>2 DEF Quote, Backslash
<1>3. CASE c \notin {Quote, Backslash}
  <2> DEFINE a == <<c>>
  <2>1. Len(a) = 1 /\ a[1] = c /\ Escaped(c) = a
    BY <1>3 DEF Escaped
  <2> HIDE DEF a
  <2>2. i <= Len(b) /\ b[i - 1 + 1] = a[1]
    <3>1. i + Len(a) - 1 <= Len(b) /\ \A j \in 1 .. Len(a) : b[i - 1 + j] = a[j]
      BY <2>1 DEF Holds
    <3> QED BY <2>1, <3>1
  <2> QED BY <1>1, <1>3, <2>1, <2>2
<1> QED BY <1>2, <1>3

(* The character at i of a quoted text, and where the next one is. *)
Char(b, i) == IF b[i] = Backslash THEN b[i + 1] ELSE b[i]
Skip(b, i) == IF b[i] = Backslash THEN i + 2 ELSE i + 1

LEMMA UnquotedPath ==
  ASSUME NEW b, Len(b) \in Nat, NEW y, NEW p, NEW k \in Nat, Tuple(y, k), p[0] = 1, p[k] = Len(b) + 1,
         \A j \in 1 .. k : /\ p[j - 1] \in 1 .. Len(b) /\ Char(b, p[j - 1]) = y[j]
                           /\ Skip(b, p[j - 1]) = p[j]
  PROVE  Unquoted(b) = y
<1> DEFINE n == Len(b)
           c == [i \in 1 .. n + 2 |-> Char(b, i)]
           d == [i \in 1 .. n + 2 |-> Skip(b, i)]
           Q(t) == t = [i \in 1 .. n + 2 |->
                          IF i > n THEN <<>>
                          ELSE <<IF b[i] = Backslash THEN b[i + 1] ELSE b[i]>>
                                 \o t[IF b[i] = Backslash THEN i + 2 ELSE i + 1]]
           any == CHOOSE t : Q(t)
<1>1. n \in Nat
  OBVIOUS
<1>2. Unquoted(b) = any[1]
  BY DEF Unquoted, ScanFrom
<1>3. \A i \in 1 .. n + 2 : /\ c[i] = IF b[i] = Backslash THEN b[i + 1] ELSE b[i]
                            /\ d[i] = IF b[i] = Backslash THEN i + 2 ELSE i + 1
  BY DEF Char, Skip
<1>4. Leads(d, n)
  <2>1. ASSUME NEW i \in 1 .. n PROVE d[i] \in i + 1 .. n + 2
    <3>1. i \in 1 .. n + 2
      BY <1>1
    <3> HIDE DEF d
    <3> QED BY <1>1, <1>3, <3>1
  <2> HIDE DEF d
  <2> QED BY <2>1 DEF Leads
<1>5. ASSUME NEW t PROVE Q(t) <=> ScanTable(t, n, c, d)
  <2> DEFINE f == [i \in 1 .. n + 2 |->
                     IF i > n THEN <<>>
                     ELSE <<IF b[i] = Backslash THEN b[i + 1] ELSE b[i]>>
                            \o t[IF b[i] = Backslash THEN i + 2 ELSE i + 1]]
             g == [i \in 1 .. n + 2 |-> IF i > n THEN <<>> ELSE <<c[i]>> \o t[d[i]]]
  <2>1. f = g
    <3> HIDE DEF c, d
    <3> QED BY <1>3
  <2> HIDE DEF c, d
  <2>2. ScanTable(t, n, c, d) <=> t = g
    BY DEF ScanTable
  <2>3. Q(t) <=> t = f
    OBVIOUS
  <2> HIDE DEF f, g, Q
  <2> QED BY <2>1, <2>2, <2>3
<1>6. ScanTable(any, n, c, d)
  <2> HIDE DEF c, d, Q
  <2>1. \E t : ScanTable(t, n, c, d)
    BY <1>1, <1>4, ScanTableExists
  <2>2. \E t : Q(t)
    BY <1>5, <2>1
  <2>3. Q(any)
    BY <2>2
  <2> HIDE DEF any
  <2> QED BY <1>5, <2>3
<1>7. Path(p, c, d, y, n, k)
  <2>1. ASSUME NEW j \in 1 .. k
        PROVE  p[j - 1] \in 1 .. n /\ c[p[j - 1]] = y[j] /\ d[p[j - 1]] = p[j]
    <3>1. p[j - 1] \in 1 .. n /\ Char(b, p[j - 1]) = y[j] /\ Skip(b, p[j - 1]) = p[j]
      OBVIOUS
    <3>2. p[j - 1] \in 1 .. n + 2
      BY <1>1, <3>1
    <3>3. \A i \in 1 .. n + 2 : c[i] = Char(b, i) /\ d[i] = Skip(b, i)
      OBVIOUS
    <3> HIDE DEF c, d
    <3> QED BY <3>1, <3>2, <3>3
  <2>2. p[k] \in n + 1 .. n + 2
    BY <1>1
  <2> HIDE DEF c, d
  <2> QED BY <2>1, <2>2 DEF Path
<1> HIDE DEF c, d, any
<1> QED BY <1>1, <1>2, <1>6, <1>7, ScanPath

LEMMA UnquotedBody ==
  ASSUME NEW s \in Seq(Int)
  PROVE  Unquoted(Body(s)) = s
<1> DEFINE b == Body(s)  k == Len(s)
<1>1. b \in Seq(Int) /\ k \in Nat /\ Tuple(s, k) /\ \A j \in 1 .. k : s[j] \in Int
  <2>1. s = [j \in 1 .. Len(s) |-> s[j]]
    OBVIOUS
  <2> QED BY <2>1, BodyPlaced DEF Tuple
<1>2. PICK p : Placed(b, p, Escapes(s), k)
  BY BodyPlaced
<1>3. \A j \in 1 .. k : Escapes(s)[j] = Escaped(s[j])
  BY DEF Escapes
<1> HIDE DEF b, k
<1>4. Len(b) \in Nat
  BY <1>1
<1>5. ASSUME NEW j \in 1 .. k
      PROVE  p[j - 1] \in 1 .. Len(b) /\ Char(b, p[j - 1]) = s[j] /\ Skip(b, p[j - 1]) = p[j]
  <2> DEFINE i == p[j - 1]  c == s[j]
  <2>1. i \in Nat \ {0} /\ i + Len(Escaped(c)) = p[j] /\ Holds(b, i, Escaped(c)) /\ c \in Int
    BY <1>1, <1>2, <1>3 DEF Placed
  <2> HIDE DEF i, c
  <2>2. /\ i <= Len(b) /\ c = IF b[i] = Backslash THEN b[i + 1] ELSE b[i]
        /\ Len(Escaped(c)) = IF b[i] = Backslash THEN 2 ELSE 1
    BY <1>4, <2>1, EscapedAt
  <2>3. Char(b, i) = c
    BY <2>2 DEF Char
  <2>4. Skip(b, i) = i + Len(Escaped(c))
    BY <2>2 DEF Skip
  <2>5. i \in 1 .. Len(b)
    BY <1>4, <2>1, <2>2
  <2> QED BY <2>1, <2>3, <2>4, <2>5 DEF i, c
<1>6. p[0] = 1 /\ p[k] = Len(b) + 1
  BY <1>2 DEF Placed
<1> QED BY <1>1, <1>4, <1>5, <1>6, UnquotedPath DEF b

LEMMA HoldsWithin ==
  ASSUME NEW b, NEW i \in Nat \ {0}, NEW a, NEW j \in Nat \ {0}, NEW c, Len(a) \in Nat,
         Len(b) \in Nat, Len(c) \in Nat, Holds(b, i, a), Holds(a, j, c)
  PROVE  Holds(b, i - 1 + j, c)
<1>1. i + Len(a) - 1 <= Len(b) /\ \A m \in 1 .. Len(a) : b[i - 1 + m] = a[m]
  BY DEF Holds
<1>2. j + Len(c) - 1 <= Len(a) /\ \A m \in 1 .. Len(c) : a[j - 1 + m] = c[m]
  BY DEF Holds
<1>3. ASSUME NEW m \in 1 .. Len(c) PROVE b[(i - 1 + j) - 1 + m] = c[m]
  <2> DEFINE x == j - 1 + m
  <2>1. x \in 1 .. Len(a) /\ (i - 1 + j) - 1 + m = i - 1 + x
    BY <1>2
  <2>2. a[x] = c[m]
    BY <1>2
  <2> HIDE DEF x
  <2>3. b[i - 1 + x] = a[x]
    BY <1>1, <2>1
  <2> QED BY <2>1, <2>2, <2>3
<1>4. (i - 1 + j) + Len(c) - 1 <= Len(b)
  BY <1>1, <1>2
<1> QED BY <1>3, <1>4 DEF Holds

(* The quote behind a quoted text is the one that ends it. *)
LEMMA ClosingBody ==
  ASSUME NEW s \in Seq(Int), NEW x, Len(x) \in Nat, NEW i \in Nat \ {0}, Holds(x, i, Body(s)),
         i + Len(Body(s)) <= Len(x), x[i + Len(Body(s))] = Quote
  PROVE  ClosingQuote(x, i) = i + Len(Body(s))
<1> DEFINE b == Body(s)  k == Len(s)  hi == Len(x) + 2  l == Len(b)
<1>1. b \in Seq(Int) /\ k \in Nat /\ \A j \in 1 .. k : s[j] \in Int
  BY BodyPlaced
<1>2. PICK p : Placed(b, p, Escapes(s), k)
  BY BodyPlaced
<1>3. \A j \in 1 .. k : Escapes(s)[j] = Escaped(s[j])
  BY DEF Escapes
<1>4. Holds(x, i, b) /\ i + l <= Len(x) /\ x[i + l] = Quote
  OBVIOUS
<1>a. \A c \in Int : Len(Escaped(c)) \in Nat
  BY DEF Escaped
<1> HIDE DEF b, k
<1>5. l \in Nat
  BY <1>1
<1> HIDE DEF l, hi
<1> DEFINE r == [j \in 0 .. k |-> i - 1 + p[j]]
<1>6. \A j \in 0 .. k : r[j] = i - 1 + p[j]
  OBVIOUS
<1> HIDE DEF r
<1>7. r[0] = i /\ r[k] = i + l
  <2>1. p[0] = 1 /\ p[k] = l + 1
    BY <1>2 DEF Placed, l
  <2>2. 0 \in 0 .. k /\ k \in 0 .. k
    BY <1>1
  <2>3. r[0] = i - 1 + p[0] /\ r[k] = i - 1 + p[k]
    BY <1>6, <2>2
  <2> QED BY <1>5, <2>1, <2>3
<1>8. \A j \in 1 .. Len(x) + 2 : /\ j \in Stops(x) <=> (j > Len(x) \/ x[j] = Quote)
                                 /\ Jumps(x)[j] = Skip(x, j)
  BY DEF Stops, Jumps, Skip
<1>9. ASSUME NEW j \in 1 .. k
      PROVE  r[j - 1] \in i .. hi /\ r[j - 1] \notin Stops(x) /\ Jumps(x)[r[j - 1]] = r[j]
  <2> DEFINE q == p[j - 1]  c == s[j]  o == r[j - 1]
  <2>0. j \in 0 .. k /\ j - 1 \in 0 .. k
    BY <1>1
  <2>1. q \in Nat \ {0} /\ q + Len(Escaped(c)) = p[j] /\ Holds(b, q, Escaped(c)) /\ c \in Int
    BY <1>1, <1>2, <1>3 DEF Placed
  <2>2. o = i - 1 + q /\ r[j] = i - 1 + p[j]
    BY <1>6, <2>0
  <2> HIDE DEF q, c, o
  <2>3. Len(Escaped(c)) \in Nat /\ Len(b) \in Nat
    BY <1>a, <1>5, <2>1 DEF l
  <2>4. Holds(x, o, Escaped(c))
    BY <1>4, <2>1, <2>2, <2>3, HoldsWithin
  <2>5. o \in Nat \ {0} /\ o >= i
    BY <2>1, <2>2
  <2>6. /\ o <= Len(x) /\ x[o] # Quote
        /\ Len(Escaped(c)) = IF x[o] = Backslash THEN 2 ELSE 1
    BY <2>1, <2>4, <2>5, EscapedAt
  <2>7. Skip(x, o) = o + Len(Escaped(c))
    BY <2>6 DEF Skip
  <2>8. o \in 1 .. Len(x) + 2 /\ o \in i .. hi /\ ~(o > Len(x))
    BY <2>5, <2>6 DEF hi
  <2>9. o \notin Stops(x) /\ Jumps(x)[o] = Skip(x, o)
    BY <1>8, <2>6, <2>8
  <2>10. r[j] = o + Len(Escaped(c))
    <3>1. p[j] = q + Len(Escaped(c))
      BY <2>1
    <3> QED BY <2>1, <2>2, <2>3, <3>1
  <2> QED BY <2>7, <2>8, <2>9, <2>10 DEF o
<1>10. r[k] \in Stops(x) /\ r[k] \in i .. hi /\ i \in 1 .. Len(x) + 2
  <2> DEFINE o == i + l
  <2>1. o \in 1 .. Len(x) + 2 /\ o \in i .. hi /\ i \in 1 .. Len(x) + 2
    BY <1>4, <1>5 DEF hi
  <2>2. x[o] = Quote
    BY <1>4
  <2> HIDE DEF o
  <2>3. o \in Stops(x)
    BY <1>8, <2>1, <2>2
  <2> QED BY <1>7, <2>1, <2>3 DEF o
<1>11. Visits(r, k, i, hi, Stops(x), Jumps(x))
  BY <1>7, <1>9, <1>10 DEF Visits
<1>12. ClosingQuote(x, i) = r[k]
  BY <1>1, <1>10, <1>11, ClosingPath DEF hi
<1> QED BY <1>7, <1>12 DEF l, b

-----------------------------------------------------------------------------
(***************************************************************************)
(* Integers in decimal.                                                    *)
(***************************************************************************)
Digit == {d \in Nat : 48 <= d /\ d <= 57}

(* A table of the values of the first digits. *)
Adds(t, s, v) ==
  t[0] = 0 /\ t[Len(s)] = v /\ \A i \in 1 .. Len(s) : t[i] = 10 * t[i - 1] + s[i] - Zero

Numeral(s, v) == s \in Seq(Digit) /\ Len(s) >= 1 /\ \E t : Adds(t, s, v)

LEMMA NumeralOne ==
  ASSUME NEW k \in Nat, k < 10
  PROVE  Numeral(<<Zero + k>>, k)
<1> DEFINE s == <<Zero + k>>  t == [i \in 0 .. 1 |-> IF i = 0 THEN 0 ELSE k]
<1>1. s \in Seq(Digit) /\ Len(s) = 1 /\ s[1] = Zero + k
  BY DEF Digit, Zero
<1>2. t[0] = 0 /\ t[1] = k
  OBVIOUS
<1> HIDE DEF s, t
<1>3. ASSUME NEW i \in 1 .. Len(s) PROVE t[i] = 10 * t[i - 1] + s[i] - Zero
  <2>1. i = 1 /\ i - 1 = 0
    BY <1>1
  <2> QED BY <1>1, <1>2, <2>1 DEF Zero
<1>4. Adds(t, s, k)
  BY <1>1, <1>2, <1>3 DEF Adds
<1> QED BY <1>1, <1>4 DEF Numeral, s

LEMMA NumeralMore ==
  ASSUME NEW s, NEW v \in Int, Numeral(s, v), NEW d \in Nat, d < 10
  PROVE  Numeral(s \o <<Zero + d>>, 10 * v + d)
<1> DEFINE n == Len(s)  z == s \o <<Zero + d>>  w == 10 * v + d
<1>1. PICK t : Adds(t, s, v)
  BY DEF Numeral
<1>2. s \in Seq(Digit) /\ n \in Nat /\ n >= 1
  BY DEF Numeral
<1>3. /\ z \in Seq(Digit) /\ Len(z) = n + 1 /\ z[n + 1] = Zero + d
      /\ \A i \in 1 .. n : z[i] = s[i]
  <2>1. Zero + d \in Digit
    BY DEF Digit, Zero
  <2> QED BY <1>2, <2>1
<1>4. t[0] = 0 /\ t[n] = v /\ \A i \in 1 .. n : t[i] = 10 * t[i - 1] + s[i] - Zero
  BY <1>1 DEF Adds
<1> DEFINE u == [i \in 0 .. n + 1 |-> IF i = n + 1 THEN w ELSE t[i]]
<1>5. u[n + 1] = w /\ \A i \in 0 .. n : u[i] = t[i]
  BY <1>2
<1> HIDE DEF u, z, w, n
<1>6. ASSUME NEW i \in 1 .. Len(z) PROVE u[i] = 10 * u[i - 1] + z[i] - Zero
  <2>1. CASE i = n + 1
    <3>1. i - 1 = n /\ n \in 0 .. n
      BY <1>2, <2>1
    <3>2. u[i - 1] = v /\ u[i] = w /\ z[i] = Zero + d
      BY <1>3, <1>4, <1>5, <2>1, <3>1
    <3>3. w = 10 * v + (Zero + d) - Zero
      BY DEF w, Zero
    <3> QED BY <3>2, <3>3
  <2>2. CASE i # n + 1
    <3>1. i \in 1 .. n /\ i \in 0 .. n /\ i - 1 \in 0 .. n
      BY <1>2, <1>3, <2>2
    <3>2. u[i] = t[i] /\ u[i - 1] = t[i - 1] /\ z[i] = s[i]
      BY <1>3, <1>5, <3>1
    <3>3. t[i] = 10 * t[i - 1] + s[i] - Zero
      BY <1>4, <3>1
    <3> QED BY <3>2, <3>3
  <2> QED BY <2>1, <2>2
<1>7. u[0] = 0 /\ u[Len(z)] = w /\ Len(z) >= 1
  BY <1>2, <1>3, <1>4, <1>5
<1>8. Adds(u, z, w)
  BY <1>6, <1>7 DEF Adds
<1>9. Numeral(z, w)
  BY <1>3, <1>7, <1>8 DEF Numeral
<1> QED BY <1>9 DEF z, w

DigitTable(t, n) ==
  t = [k \in 0 .. n |-> IF k < 10 THEN <<Zero + k>> ELSE t[k \div 10] \o <<Zero + (k % 10)>>]

LEMMA DigitTableAt ==
  ASSUME NEW t, NEW n \in Nat, DigitTable(t, n), NEW k \in 0 .. n
  PROVE  t[k] = IF k < 10 THEN <<Zero + k>> ELSE t[k \div 10] \o <<Zero + (k % 10)>>
<1> DEFINE g == [j \in 0 .. n |-> IF j < 10 THEN <<Zero + j>> ELSE t[j \div 10] \o <<Zero + (j % 10)>>]
<1>1. t = g
  BY DEF DigitTable
<1>2. g[k] = IF k < 10 THEN <<Zero + k>> ELSE t[k \div 10] \o <<Zero + (k % 10)>>
  OBVIOUS
<1> HIDE DEF g
<1> QED BY <1>1, <1>2

LEMMA Tenth ==
  ASSUME NEW k \in Nat
  PROVE  /\ k = 10 * (k \div 10) + (k % 10) /\ k % 10 \in Nat /\ k % 10 < 10
         /\ k \div 10 \in Nat /\ (k >= 10 => k \div 10 <= k - 1)
OBVIOUS

LEMMA DigitTableExists ==
  ASSUME NEW n \in Nat
  PROVE  \E t : DigitTable(t, n)
<1> DEFINE S == {m \in Nat : \E t : DigitTable(t, m)}
<1>1. 0 \in S
  <2> DEFINE t == [k \in 0 .. 0 |-> <<Zero + k>>]
  <2>1. DigitTable(t, 0)
    BY DEF DigitTable
  <2> QED BY <2>1
<1>2. ASSUME NEW m \in 0 .. n - 1, m \in S PROVE m + 1 \in S
  <2>1. PICK t : DigitTable(t, m)
    BY <1>2
  <2> DEFINE Entry(u, k) == IF k < 10 THEN <<Zero + k>> ELSE u[k \div 10] \o <<Zero + (k % 10)>>
             last == Entry(t, m + 1)
             u == [k \in 0 .. m + 1 |-> IF k <= m THEN t[k] ELSE last]
  <2>2. m \in Nat /\ m + 1 \in Nat
    OBVIOUS
  <2>3. u[m + 1] = last /\ \A k \in 0 .. m : u[k] = t[k]
    BY <2>2
  <2>4. u = [k \in 0 .. m + 1 |-> u[k]]
    OBVIOUS
  <2> HIDE DEF u, last
  <2>5. ASSUME NEW k \in 0 .. m + 1 PROVE u[k] = Entry(u, k)
    <3>1. k >= 10 => k \div 10 \in 0 .. m
      BY <2>2, Tenth
    <3>2. k >= 10 => u[k \div 10] = t[k \div 10]
      BY <2>3, <3>1
    <3>3. Entry(u, k) = Entry(t, k)
      BY <3>2
    <3>4. CASE k = m + 1
      <4> HIDE DEF Entry
      <4> QED BY <2>3, <3>3, <3>4 DEF last
    <3>5. CASE k # m + 1
      <4>1. k \in 0 .. m
        BY <2>2, <3>5
      <4>2. t[k] = Entry(t, k)
        BY <2>1, <2>2, <4>1, DigitTableAt
      <4> HIDE DEF Entry
      <4> QED BY <2>3, <3>3, <4>1, <4>2
    <3> QED BY <3>4, <3>5
  <2>6. u = [k \in 0 .. m + 1 |-> Entry(u, k)]
    <3> HIDE DEF Entry
    <3> QED BY <2>4, <2>5, Zenon
  <2>7. DigitTable(u, m + 1)
    BY <2>6 DEF DigitTable
  <2> QED BY <2>2, <2>7
<1>3. n \in S
  <2> HIDE DEF S
  <2> QED BY <1>1, <1>2, Induct
<1> QED BY <1>3

LEMMA DigitsNumeral ==
  ASSUME NEW n \in Nat
  PROVE  Numeral(Digits(n), n)
<1> DEFINE t == CHOOSE x : DigitTable(x, n)
           S == {m \in 0 .. n : \A k \in 0 .. m : Numeral(t[k], k)}
<1>1. DigitTable(t, n) /\ Digits(n) = t[n]
  <2>1. \E x : DigitTable(x, n)
    BY DigitTableExists
  <2>2. Digits(n) = t[n]
    BY DEF Digits, DigitTable
  <2> QED BY <2>1, <2>2
<1> HIDE DEF t
<1>2. 0 \in S
  <2> DEFINE k == 0
  <2>1. k \in 0 .. n /\ k \in Nat /\ k < 10
    OBVIOUS
  <2> HIDE DEF k
  <2>2. t[k] = <<Zero + k>>
    BY <1>1, <2>1, DigitTableAt
  <2>3. Numeral(t[k], k)
    BY <2>1, <2>2, NumeralOne
  <2> QED BY <2>3 DEF k
<1>3. ASSUME NEW m \in 0 .. n - 1, m \in S PROVE m + 1 \in S
  <2> DEFINE k == m + 1
  <2>0. k \in Nat /\ k \in 0 .. n
    OBVIOUS
  <2>1. Numeral(t[k], k)
    <3> HIDE DEF k
    <3>1. t[k] = IF k < 10 THEN <<Zero + k>> ELSE t[k \div 10] \o <<Zero + (k % 10)>>
      BY <1>1, <2>0, DigitTableAt
    <3>2. CASE k < 10
      BY <2>0, <3>1, <3>2, NumeralOne
    <3>3. CASE ~(k < 10)
      <4> DEFINE x == k \div 10  d == k % 10
      <4>1. x \in Nat /\ d \in Nat /\ d < 10 /\ k = 10 * x + d /\ x <= k - 1
        BY <2>0, <3>3, Tenth
      <4> HIDE DEF x, d
      <4>2. x \in 0 .. m /\ x \in Int
        BY <4>1 DEF k
      <4>3. Numeral(t[x], x)
        BY <1>3, <4>2
      <4>4. t[k] = t[x] \o <<Zero + d>>
        BY <3>1, <3>3 DEF x, d
      <4> DEFINE y == t[x]
      <4> HIDE DEF y
      <4>5. Numeral(y \o <<Zero + d>>, 10 * x + d)
        BY <4>1, <4>2, <4>3, NumeralMore DEF y
      <4> QED BY <4>1, <4>4, <4>5 DEF y
    <3> QED BY <3>2, <3>3
  <2>2. \A j \in 0 .. k : j \in 0 .. m \/ j = k
    OBVIOUS
  <2> HIDE DEF k
  <2>3. k \in S
    BY <1>3, <2>0, <2>1, <2>2
  <2> QED BY <2>3 DEF k
<1>4. n \in S
  <2> HIDE DEF S
  <2> QED BY <1>2, <1>3, Induct
<1> QED BY <1>1, <1>4

ValueTable(t, s, f) ==
  t = [i \in f - 1 .. Len(s) |-> IF i < f THEN 0 ELSE 10 * t[i - 1] + s[i] - Zero]

(* The values of the digits from f on. *)
AddsFrom(u, s, f) ==
  /\ f \in Nat \ {0} /\ Len(s) \in Nat /\ f <= Len(s) /\ u[f - 1] = 0
  /\ \A i \in f .. Len(s) : u[i] = 10 * u[i - 1] + s[i] - Zero

LEMMA ValueTableAt ==
  ASSUME NEW t, NEW s, NEW f, ValueTable(t, s, f), NEW i \in f - 1 .. Len(s)
  PROVE  t[i] = IF i < f THEN 0 ELSE 10 * t[i - 1] + s[i] - Zero
<1> DEFINE g == [j \in f - 1 .. Len(s) |-> IF j < f THEN 0 ELSE 10 * t[j - 1] + s[j] - Zero]
<1>1. t = g
  BY DEF ValueTable
<1>2. g[i] = IF i < f THEN 0 ELSE 10 * t[i - 1] + s[i] - Zero
  OBVIOUS
<1> HIDE DEF g
<1> QED BY <1>1, <1>2

LEMMA ValueIs ==
  ASSUME NEW s, NEW f, NEW u, AddsFrom(u, s, f)
  PROVE  (CHOOSE t : ValueTable(t, s, f))[Len(s)] = u[Len(s)]
<1> DEFINE n == Len(s)  any == CHOOSE t : ValueTable(t, s, f)
           z == [i \in f - 1 .. n |-> u[i]]
<1>1. f \in Nat /\ f >= 1 /\ n \in Nat /\ f <= n /\ u[f - 1] = 0
  BY DEF AddsFrom
<1>2. \A i \in f .. n : u[i] = 10 * u[i - 1] + s[i] - Zero
  BY DEF AddsFrom
<1>3. (\A i \in f - 1 .. n : z[i] = u[i]) /\ z = [i \in f - 1 .. n |-> z[i]]
  OBVIOUS
<1> HIDE DEF z
<1>4. ASSUME NEW i \in f - 1 .. n PROVE z[i] = IF i < f THEN 0 ELSE 10 * z[i - 1] + s[i] - Zero
  <2>1. CASE i < f
    <3>1. i = f - 1
      BY <1>1, <2>1
    <3> QED BY <1>1, <1>3, <2>1, <3>1
  <2>2. CASE ~(i < f)
    <3>1. i \in f .. n /\ i - 1 \in f - 1 .. n
      BY <1>1, <2>2
    <3> QED BY <1>2, <1>3, <2>2, <3>1
  <2> QED BY <2>1, <2>2
<1>5. z = [i \in f - 1 .. n |-> IF i < f THEN 0 ELSE 10 * z[i - 1] + s[i] - Zero]
  BY <1>3, <1>4, Zenon
<1>6. ValueTable(z, s, f)
  BY <1>5 DEF ValueTable
<1>7. ValueTable(any, s, f)
  BY <1>6
<1> HIDE DEF any
<1>8. \A i \in f - 1 .. n : any[i] = IF i < f THEN 0 ELSE 10 * any[i - 1] + s[i] - Zero
  BY <1>7, ValueTableAt
<1> HIDE DEF n
<1> DEFINE k == n - f + 1  lo == f - 1
           S == {m \in 0 .. k : any[lo + m] = u[lo + m]}
<1>9. 0 \in S
  <2>1. lo + 0 = f - 1 /\ f - 1 \in f - 1 .. n /\ f - 1 < f /\ k \in Nat
    BY <1>1
  <2>2. any[f - 1] = 0
    BY <1>8, <2>1
  <2> QED BY <1>1, <2>1, <2>2
<1>10. ASSUME NEW m \in 0 .. k - 1, m \in S PROVE m + 1 \in S
  <2> DEFINE i == lo + (m + 1)
  <2>1. i \in f .. n /\ i \in f - 1 .. n /\ ~(i < f) /\ i - 1 = lo + m /\ m + 1 \in 0 .. k
    BY <1>1
  <2> HIDE DEF i, lo
  <2>2. any[i - 1] = u[i - 1]
    BY <1>10, <2>1
  <2>3. any[i] = u[i]
    BY <1>2, <1>8, <2>1, <2>2
  <2> QED BY <2>1, <2>3 DEF i
<1>11. k \in S
  <2>1. k \in Nat
    BY <1>1
  <2> HIDE DEF S, k
  <2> QED BY <1>9, <1>10, <2>1, Induct
<1>12. lo + k = n
  BY <1>1
<1>13. any[n] = u[n]
  <2> HIDE DEF lo, k
  <2> QED BY <1>11, <1>12
<1> QED BY <1>13 DEF any, n

LEMMA ParseIntIs ==
  ASSUME NEW s
  PROVE  /\ s[1] # Minus => ParseInt(s) = (CHOOSE t : ValueTable(t, s, 1))[Len(s)]
         /\ s[1] = Minus => ParseInt(s) = -((CHOOSE t : ValueTable(t, s, 2))[Len(s)])
<1> DEFINE f == IF s[1] = Minus THEN 2 ELSE 1
<1>1. ParseInt(s) = IF f = 2 THEN -((CHOOSE t : ValueTable(t, s, f))[Len(s)])
                    ELSE (CHOOSE t : ValueTable(t, s, f))[Len(s)]
  BY DEF ParseInt, ValueTable
<1>2. (s[1] # Minus => f = 1) /\ (s[1] = Minus => f = 2)
  OBVIOUS
<1> DEFINE V(x) == (CHOOSE t : ValueTable(t, s, x))[Len(s)]
<1>3. ParseInt(s) = IF f = 2 THEN -V(f) ELSE V(f)
  BY <1>1
<1> HIDE DEF f, V
<1>4. (s[1] # Minus => ParseInt(s) = V(1)) /\ (s[1] = Minus => ParseInt(s) = -V(2))
  BY <1>2, <1>3
<1> QED BY <1>4 DEF V

LEMMA ParseDigits ==
  ASSUME NEW s, NEW v, Numeral(s, v)
  PROVE  ParseInt(s) = v
<1>1. PICK t : Adds(t, s, v)
  BY DEF Numeral
<1>2. s \in Seq(Digit) /\ Len(s) \in Nat /\ Len(s) >= 1
  BY DEF Numeral
<1>3. s[1] # Minus
  <2>1. s[1] \in Digit
    BY <1>2
  <2> QED BY <2>1 DEF Digit, Minus
<1>4. AddsFrom(t, s, 1)
  <2>1. 1 - 1 = 0 /\ 1 \in Nat \ {0} /\ 1 <= Len(s)
    BY <1>2
  <2> QED BY <1>1, <1>2, <2>1 DEF Adds, AddsFrom
<1>5. t[Len(s)] = v
  BY <1>1 DEF Adds
<1>6. (CHOOSE x : ValueTable(x, s, 1))[Len(s)] = t[Len(s)]
  BY <1>4, ValueIs
<1> QED BY <1>3, <1>5, <1>6, ParseIntIs

LEMMA ParseMinus ==
  ASSUME NEW s, NEW v, Numeral(s, v)
  PROVE  ParseInt(<<Minus>> \o s) = -v
<1> DEFINE z == <<Minus>> \o s  n == Len(s)
<1>1. PICK t : Adds(t, s, v)
  BY DEF Numeral
<1>2. s \in Seq(Digit) /\ n \in Nat /\ n >= 1
  BY DEF Numeral
<1>3. Len(z) = n + 1 /\ z[1] = Minus /\ \A i \in 1 .. n : z[i + 1] = s[i]
  <2>1. s \in Seq(Int) /\ <<Minus>> \in Seq(Int)
    BY <1>2 DEF Digit, Minus
  <2> QED BY <2>1
<1>4. t[0] = 0 /\ t[n] = v /\ \A i \in 1 .. n : t[i] = 10 * t[i - 1] + s[i] - Zero
  BY <1>1 DEF Adds
<1> DEFINE u == [i \in 1 .. n + 1 |-> t[i - 1]]
<1>5. \A i \in 1 .. n + 1 : u[i] = t[i - 1]
  OBVIOUS
<1> HIDE DEF z, n, u
<1>6. ASSUME NEW i \in 2 .. Len(z) PROVE u[i] = 10 * u[i - 1] + z[i] - Zero
  <2> DEFINE j == i - 1
  <2>1. j \in 1 .. n /\ i \in 1 .. n + 1 /\ j \in 1 .. n + 1 /\ j + 1 = i /\ i - 1 = j
    BY <1>2, <1>3
  <2> HIDE DEF j
  <2>2. u[i] = t[j] /\ u[j] = t[j - 1] /\ z[i] = s[j]
    BY <1>3, <1>5, <2>1
  <2>3. t[j] = 10 * t[j - 1] + s[j] - Zero
    BY <1>4, <2>1
  <2> QED BY <2>1, <2>2, <2>3
<1>7. u[2 - 1] = 0 /\ u[Len(z)] = v /\ Len(z) \in Nat /\ 2 <= Len(z)
  <2>1. 2 - 1 = 1 /\ 1 - 1 = 0 /\ (n + 1) - 1 = n /\ 1 \in 1 .. n + 1 /\ n + 1 \in 1 .. n + 1
    BY <1>2
  <2> QED BY <1>2, <1>3, <1>4, <1>5, <2>1
<1>8. AddsFrom(u, z, 2)
  BY <1>6, <1>7 DEF AddsFrom
<1>9. (CHOOSE x : ValueTable(x, z, 2))[Len(z)] = u[Len(z)]
  BY <1>8, ValueIs
<1>10. ParseInt(z) = -v
  BY <1>3, <1>7, <1>9, ParseIntIs
<1> QED BY <1>10 DEF z

(* Characters that neither separate, open nor close elements, nor are NULL. *)
Bare(s) ==
  s \in Seq(Int) /\ \A i \in 1 .. Len(s) : s[i] \notin {Comma, Quote, NullToken}

LEMMA FormatIntParses ==
  ASSUME NEW n \in Int
  PROVE  ParseInt(FormatInt(n)) = n /\ Bare(FormatInt(n)) /\ Len(FormatInt(n)) >= 1
<1>0. ASSUME NEW s \in Seq(Digit) PROVE \A i \in 1 .. Len(s) : s[i] \in Int /\ s[i] \notin {Comma, Quote, NullToken}
  <2>1. \A x \in Digit : x \in Int /\ x \notin {Comma, Quote, NullToken}
    BY DEF Digit, Comma, Quote, NullToken
  <2> QED BY <2>1
<1>1. CASE n < 0
  <2> DEFINE m == -n  s == Digits(m)  z == <<Minus>> \o s
  <2>1. m \in Nat /\ -m = n
    BY <1>1
  <2>2. FormatInt(n) = z
    BY <1>1 DEF FormatInt
  <2> HIDE DEF m
  <2>3. Numeral(s, m)
    BY <2>1, DigitsNumeral
  <2> HIDE DEF s
  <2>4. ParseInt(z) = -m
    BY <2>3, ParseMinus
  <2>5. s \in Seq(Digit)
    BY <2>3 DEF Numeral
  <2>6. s \in Seq(Int) /\ <<Minus>> \in Seq(Int)
    BY <1>0, <2>5 DEF Minus
  <2>7. z \in Seq(Int) /\ Len(z) = Len(s) + 1 /\ Len(s) \in Nat /\ z[1] = Minus /\ \A i \in 2 .. Len(z) : z[i] = s[i - 1]
    BY <2>6
  <2> HIDE DEF z
  <2>8. ASSUME NEW i \in 1 .. Len(z) PROVE z[i] \notin {Comma, Quote, NullToken}
    <3>1. CASE i = 1
      BY <2>7, <3>1 DEF Minus, Comma, Quote, NullToken
    <3>2. CASE i # 1
      <4>1. i \in 2 .. Len(z) /\ i - 1 \in 1 .. Len(s)
        BY <2>7, <3>2
      <4> QED BY <1>0, <2>5, <2>7, <4>1
    <3> QED BY <3>1, <3>2
  <2>9. Bare(z) /\ Len(z) >= 1
    BY <2>7, <2>8 DEF Bare
  <2> QED BY <2>1, <2>2, <2>4, <2>9
<1>2. CASE ~(n < 0)
  <2> DEFINE s == Digits(n)
  <2>1. n \in Nat /\ FormatInt(n) = s
    BY <1>2 DEF FormatInt
  <2>2. Numeral(s, n)
    BY <2>1, DigitsNumeral
  <2> HIDE DEF s
  <2>3. ParseInt(s) = n
    BY <2>2, ParseDigits
  <2>4. s \in Seq(Digit) /\ Len(s) >= 1
    BY <2>2 DEF Numeral
  <2>5. Bare(s)
    BY <1>0, <2>4 DEF Bare
  <2> QED BY <2>1, <2>3, <2>4, <2>5
<1> QED BY <1>1, <1>2

-----------------------------------------------------------------------------
(***************************************************************************)
(* Bytes in hexadecimal.                                                   *)
(***************************************************************************)
Nibble(c) == IF c >= A THEN c - A + 10 ELSE c - Zero

LEMMA HexDigitIs ==
  ASSUME NEW d \in Nat, d < 16
  PROVE  /\ HexDigit(d) \in Int /\ Nibble(HexDigit(d)) = d
         /\ HexDigit(d) \notin {Comma, Quote, NullToken}
<1>1. CASE d < 10
  BY <1>1 DEF HexDigit, Nibble, Zero, A, Comma, Quote, NullToken
<1>2. CASE ~(d < 10)
  BY <1>2 DEF HexDigit, Nibble, Zero, A, Comma, Quote, NullToken
<1> QED BY <1>1, <1>2

LEMMA Nibbles ==
  ASSUME NEW x \in Byte
  PROVE  /\ x \div 16 \in Nat /\ x \div 16 < 16 /\ x % 16 \in Nat /\ x % 16 < 16
         /\ x = 16 * (x \div 16) + (x % 16)
<1>1. x \in Nat /\ x < 256
  BY DEF Byte
<1> QED BY <1>1

HexPair(x)  == <<HexDigit(x \div 16), HexDigit(x % 16)>>
HexPairs(b) == [i \in 1 .. Len(b) |-> HexPair(b[i])]

HexOf(s, b) ==
  /\ s \in Seq(Int) /\ Len(s) = 2 * Len(b)
  /\ \A i \in 1 .. Len(b) : s[2 * i - 1] = HexDigit(b[i] \div 16) /\ s[2 * i] = HexDigit(b[i] % 16)

LEMMA HexIs ==
  ASSUME NEW b \in Bytes
  PROVE  HexOf(Hex(b), b)
<1> DEFINE n == Len(b)  s == Hex(b)  parts == HexPairs(b)
<1>1. n \in Nat /\ DOMAIN b = 1 .. n /\ \A i \in 1 .. n : b[i] \in Byte
  BY DEF Bytes
<1>2. s = FlattenSeq(parts)
  BY <1>1 DEF Hex, HexPairs, HexPair
<1>3. ASSUME NEW x \in Byte PROVE HexPair(x) \in Seq(Int) /\ Len(HexPair(x)) = 2
  <2>1. HexDigit(x \div 16) \in Int /\ HexDigit(x % 16) \in Int
    BY Nibbles, HexDigitIs
  <2> QED BY <2>1 DEF HexPair
<1>4. Tuple(parts, n) /\ \A i \in 1 .. n : parts[i] = HexPair(b[i])
  BY DEF Tuple, HexPairs
<1> HIDE DEF parts, n, s
<1>5. \A i \in 1 .. n : parts[i] \in Seq(Int) /\ Len(parts[i]) = 2
  BY <1>1, <1>3, <1>4
<1>6. s \in Seq(Int) /\ \E p : Placed(s, p, parts, n)
  BY <1>1, <1>2, <1>4, <1>5, TextParts
<1>7. PICK p : Placed(s, p, parts, n)
  BY <1>6
<1>8. ASSUME NEW k \in 0 .. n PROVE p[k] = 2 * k + 1
  <2> DEFINE S == {j \in 0 .. n : p[j] = 2 * j + 1}
  <2>1. 0 \in S
    BY <1>1, <1>7 DEF Placed
  <2>2. ASSUME NEW m \in 0 .. k - 1, m \in S PROVE m + 1 \in S
    <3> DEFINE j == m + 1
    <3>1. j \in 1 .. n /\ j - 1 = m
      BY <1>1
    <3> HIDE DEF j
    <3>2. p[j - 1] + Len(parts[j]) = p[j] /\ Len(parts[j]) = 2
      BY <1>5, <1>7, <3>1 DEF Placed
    <3>3. p[m] = 2 * m + 1 /\ m \in Nat
      BY <2>2
    <3>4. p[j] = 2 * j + 1
      BY <3>1, <3>2, <3>3 DEF j
    <3> QED BY <1>1, <3>1, <3>4 DEF j
  <2>3. k \in S
    <3>1. k \in Nat
      OBVIOUS
    <3> HIDE DEF S
    <3> QED BY <2>1, <2>2, <3>1, Induct
  <2> QED BY <2>3
<1>9. Len(s) = 2 * n
  <2>1. p[n] = Len(s) + 1 /\ n \in 0 .. n /\ Len(s) \in Nat
    BY <1>1, <1>6, <1>7 DEF Placed
  <2>2. p[n] = 2 * n + 1
    BY <1>8, <2>1
  <2> QED BY <1>1, <2>1, <2>2
<1>10. ASSUME NEW i \in 1 .. n
       PROVE  s[2 * i - 1] = HexDigit(b[i] \div 16) /\ s[2 * i] = HexDigit(b[i] % 16)
  <2> DEFINE a == HexPair(b[i])
  <2>1. a[1] = HexDigit(b[i] \div 16) /\ a[2] = HexDigit(b[i] % 16)
    BY DEF HexPair
  <2>2. Len(a) = 2 /\ parts[i] = a
    BY <1>1, <1>3, <1>4
  <2> HIDE DEF a
  <2>3. p[i - 1] = 2 * (i - 1) + 1
    <3> DEFINE k == i - 1
    <3>1. k \in 0 .. n
      BY <1>1
    <3> HIDE DEF k
    <3>2. p[k] = 2 * k + 1
      BY <1>8, <3>1
    <3> QED BY <3>2 DEF k
  <2> DEFINE q == p[i - 1]
  <2>4. Holds(s, q, a)
    BY <1>7, <2>2 DEF Placed
  <2>5. q = 2 * i - 1
    BY <1>1, <2>3
  <2> HIDE DEF q
  <2>6. \A j \in 1 .. Len(a) : s[q - 1 + j] = a[j]
    BY <2>4 DEF Holds
  <2>7. s[q - 1 + 1] = a[1] /\ s[q - 1 + 2] = a[2]
    BY <2>2, <2>6
  <2>8. q - 1 + 1 = 2 * i - 1 /\ q - 1 + 2 = 2 * i
    BY <1>1, <2>5
  <2> QED BY <2>1, <2>7, <2>8
<1> QED BY <1>6, <1>9, <1>10 DEF HexOf, s, n

LEMMA ParseHexIs ==
  ASSUME NEW s
  PROVE  ParseHex(s) = [i \in 1 .. Len(s) \div 2 |-> 16 * Nibble(s[2 * i - 1]) + Nibble(s[2 * i])]
BY DEF ParseHex, Nibble

LEMMA OddEven ==
  ASSUME NEW n \in Nat, NEW m \in Nat, m >= 1, m <= 2 * n
  PROVE  (m + 1) \div 2 \in 1 .. n /\ (m = 2 * ((m + 1) \div 2) - 1 \/ m = 2 * ((m + 1) \div 2))
<1> DEFINE k == m + 1  i == k \div 2
<1>1. k \in Nat /\ k = m + 1
  OBVIOUS
<1> HIDE DEF k
<1>2. i \in Nat /\ (k = 2 * i \/ k = 2 * i + 1)
  BY <1>1
<1> HIDE DEF i
<1>3. i \in 1 .. n /\ (m = 2 * i - 1 \/ m = 2 * i)
  BY <1>1, <1>2
<1> QED BY <1>3 DEF i, k

LEMMA HexParses ==
  ASSUME NEW b \in Bytes
  PROVE  ParseHex(Hex(b)) = b /\ Bare(Hex(b)) /\ Len(Hex(b)) = 2 * Len(b)
<1> DEFINE n == Len(b)  s == Hex(b)
<1>1. n \in Nat /\ b = [i \in 1 .. n |-> b[i]] /\ \A i \in 1 .. n : b[i] \in Byte
  BY DEF Bytes
<1>2. /\ s \in Seq(Int) /\ Len(s) = 2 * n
      /\ \A i \in 1 .. n : s[2 * i - 1] = HexDigit(b[i] \div 16) /\ s[2 * i] = HexDigit(b[i] % 16)
  BY HexIs DEF HexOf
<1> HIDE DEF s, n
<1>3. ASSUME NEW i \in 1 .. n
      PROVE  /\ 16 * Nibble(s[2 * i - 1]) + Nibble(s[2 * i]) = b[i]
             /\ s[2 * i - 1] \notin {Comma, Quote, NullToken}
             /\ s[2 * i] \notin {Comma, Quote, NullToken}
  <2> DEFINE x == b[i]  h == x \div 16  l == x % 16
  <2>1. x \in Byte /\ s[2 * i - 1] = HexDigit(h) /\ s[2 * i] = HexDigit(l)
    BY <1>1, <1>2
  <2>2. h \in Nat /\ h < 16 /\ l \in Nat /\ l < 16 /\ x = 16 * h + l
    BY <2>1, Nibbles
  <2> HIDE DEF x, h, l
  <2>3. Nibble(HexDigit(h)) = h /\ Nibble(HexDigit(l)) = l
    BY <2>2, HexDigitIs
  <2>4. HexDigit(h) \notin {Comma, Quote, NullToken} /\ HexDigit(l) \notin {Comma, Quote, NullToken}
    BY <2>2, HexDigitIs
  <2>5. 16 * Nibble(s[2 * i - 1]) + Nibble(s[2 * i]) = x
    BY <2>1, <2>2, <2>3
  <2> QED BY <2>1, <2>4, <2>5 DEF x
<1>4. ParseHex(s) = b
  <2>1. Len(s) \div 2 = n
    BY <1>1, <1>2
  <2>2. [i \in 1 .. n |-> 16 * Nibble(s[2 * i - 1]) + Nibble(s[2 * i])] = [i \in 1 .. n |-> b[i]]
    BY <1>3
  <2>3. ParseHex(s) = [i \in 1 .. n |-> 16 * Nibble(s[2 * i - 1]) + Nibble(s[2 * i])]
    BY <2>1, ParseHexIs
  <2> QED BY <1>1, <2>2, <2>3, Zenon
<1>5. ASSUME NEW m \in 1 .. Len(s) PROVE s[m] \notin {Comma, Quote, NullToken}
  <2> DEFINE i == (m + 1) \div 2
  <2>1. i \in 1 .. n /\ (m = 2 * i - 1 \/ m = 2 * i)
    <3>1. m \in Nat /\ m >= 1 /\ m <= 2 * n
      BY <1>1, <1>2
    <3> QED BY <1>1, <3>1, OddEven
  <2> HIDE DEF i
  <2> QED BY <1>3, <2>1
<1>6. Bare(s)
  BY <1>2, <1>5 DEF Bare
<1> QED BY <1>2, <1>4, <1>6 DEF s, n

-----------------------------------------------------------------------------
(***************************************************************************)
(* Elements of a text.                                                     *)
(***************************************************************************)
(* e is the first comma from i on, or the end of the text. *)
Ends(s, i, e) ==
  /\ e \in Nat /\ i <= e /\ \A j \in i .. e - 1 : s[j] # Comma
  /\ \/ e = Len(s) + 1
     \/ e <= Len(s) /\ s[e] = Comma

LEMMA NextCommaIs ==
  ASSUME NEW s, Len(s) \in Nat, NEW i \in Nat \ {0}, NEW e, Ends(s, i, e)
  PROVE  NextComma(s, i) = e
<1> DEFINE n == Len(s)  C == {j \in i .. n : s[j] = Comma}
<1>1. n \in Nat /\ e \in Nat /\ i <= e /\ \A j \in i .. e - 1 : s[j] # Comma
  BY DEF Ends
<1>2. NextComma(s, i) = IF C = {} THEN n + 1 ELSE CHOOSE j \in C : \A k \in C : j <= k
  BY DEF NextComma
<1>3. \A j \in C : j \in i .. n /\ s[j] = Comma
  OBVIOUS
<1>4. CASE e = n + 1
  <2>1. C = {}
    BY <1>1, <1>3, <1>4
  <2> QED BY <1>2, <1>4, <2>1
<1>5. CASE e <= n /\ s[e] = Comma
  <2>1. e \in C /\ \A k \in C : e <= k
    <3>1. e \in C
      BY <1>1, <1>5
    <3>2. ASSUME NEW k \in C PROVE e <= k
      <4>1. k \in i .. n /\ s[k] = Comma
        BY <1>3
      <4> QED BY <1>1, <4>1
    <3> QED BY <3>1, <3>2
  <2>2. ASSUME NEW j \in C, \A k \in C : j <= k PROVE j = e
    <3>1. j \in Nat /\ j <= e /\ e <= j
      BY <1>1, <1>3, <2>1, <2>2
    <3> QED BY <1>1, <3>1
  <2> HIDE DEF C
  <2>3. (CHOOSE j \in C : \A k \in C : j <= k) = e
    BY <2>1, <2>2
  <2> QED BY <1>2, <2>1, <2>3
<1> QED BY <1>4, <1>5 DEF Ends

LEMMA NextCommaRange ==
  ASSUME NEW s, Len(s) \in Nat, NEW i \in Nat \ {0}
  PROVE  /\ NextComma(s, i) \in Nat /\ NextComma(s, i) <= Len(s) + 1
         /\ NextComma(s, i) = Len(s) + 1 \/ i <= NextComma(s, i)
<1> DEFINE n == Len(s)  C == {j \in i .. n : s[j] = Comma}  first == CHOOSE j \in C : \A k \in C : j <= k
<1>2. NextComma(s, i) = IF C = {} THEN n + 1 ELSE first
  BY DEF NextComma
<1>3. C \in SUBSET Nat /\ \A j \in C : j \in i .. n
  OBVIOUS
<1> HIDE DEF C
<1>4. CASE C = {}
  BY <1>2, <1>4
<1>5. CASE C # {}
  <2>1. \E j \in C : \A k \in C : j <= k
    BY <1>3, <1>5, LeastNat
  <2>2. first \in C
    BY <2>1
  <2> HIDE DEF first
  <2>3. first \in i .. n /\ NextComma(s, i) = first
    BY <1>2, <1>3, <1>5, <2>2
  <2> QED BY <2>3
<1> QED BY <1>4, <1>5

LEMMA AfterRange ==
  ASSUME NEW s, Len(s) \in Nat, NEW i \in 1 .. Len(s)
  PROVE  elementAfter(s, i) \in i + 1 .. Len(s) + 2
<1> DEFINE n == Len(s)  c == ClosingQuote(s, i + 1)  j == IF s[i] = Quote THEN c + 1 ELSE i  e == NextComma(s, j)
<1>1. n \in Nat /\ i \in Nat /\ 1 <= i /\ i <= n
  OBVIOUS
<1>2. c \in i + 1 .. n + 2
  <2>1. i + 1 \in 1 .. Len(s) + 2
    BY <1>1
  <2> DEFINE k == i + 1
  <2> HIDE DEF k
  <2>2. ClosingQuote(s, k) \in k .. Len(s) + 2
    BY <2>1, ClosingRange DEF k
  <2> QED BY <2>2 DEF k
<1> HIDE DEF c
<1>3. j \in Nat \ {0} /\ i <= j
  BY <1>1, <1>2
<1>4. elementAfter(s, i) = e + 1
  BY DEF elementAfter, c
<1> HIDE DEF j
<1>5. e \in Nat /\ e <= n + 1 /\ (e = n + 1 \/ j <= e)
  BY <1>3, NextCommaRange
<1> HIDE DEF e
<1> QED BY <1>1, <1>3, <1>4, <1>5

(* The part x of a text at i is followed by a comma or by nothing. *)
EndsAt(s, i, x) ==
  /\ i \in Nat \ {0} /\ Len(x) \in Nat /\ Holds(s, i, x)
  /\ \/ i + Len(x) = Len(s) + 1
     \/ i + Len(x) <= Len(s) /\ s[i + Len(x)] = Comma

Element(raw, quoted) == [raw |-> raw, quoted |-> quoted]

(* The element at i is e, the next one is at j. *)
Scans(s, i, e, j) == elementAt(s, i) = e /\ elementAfter(s, i) = j

LEMMA HoldsSubSeq ==
  ASSUME NEW S, NEW s \in Seq(S), NEW x \in Seq(S), NEW i \in Nat \ {0}, Holds(s, i, x)
  PROVE  SubSeq(s, i, i + Len(x) - 1) = x
<1> DEFINE l == Len(x)  u == SubSeq(s, i, i + l - 1)
<1>1. l \in Nat /\ Len(s) \in Nat /\ i + l - 1 <= Len(s) /\ \A m \in 1 .. l : s[i - 1 + m] = x[m]
  BY DEF Holds
<1>2. u \in Seq(S) /\ Len(u) = l
  BY <1>1
<1>3. ASSUME NEW m \in 1 .. l PROVE u[m] = x[m]
  <2>1. u[m] = s[i + m - 1] /\ i + m - 1 = i - 1 + m
    BY <1>1
  <2> QED BY <1>1, <2>1
<1> HIDE DEF u
<1>4. u = x
  BY <1>2, <1>3
<1> QED BY <1>4 DEF u, l

Plain(x) == x \in Seq(Int) /\ \A i \in 1 .. Len(x) : x[i] \notin {Comma, Quote}

LEMMA PlainElement ==
  ASSUME NEW s \in Seq(Int), NEW i, NEW x, EndsAt(s, i, x), Plain(x), i <= Len(s)
  PROVE  Scans(s, i, Element(x, FALSE), i + Len(x) + 1)
<1> DEFINE l == Len(x)  e == i + l
<1>1. /\ l \in Nat /\ i \in Nat \ {0} /\ Len(s) \in Nat /\ x \in Seq(Int) /\ Holds(s, i, x)
      /\ \A m \in 1 .. l : x[m] \notin {Comma, Quote}
  BY DEF EndsAt, Plain
<1>2. \A m \in 1 .. l : s[i - 1 + m] = x[m]
  BY DEF EndsAt, Holds
<1>3. e = Len(s) + 1 \/ (e <= Len(s) /\ s[e] = Comma)
  BY DEF EndsAt
<1>4. SubSeq(s, i, i + l - 1) = x
  BY <1>1, HoldsSubSeq
<1> HIDE DEF l
<1>5. ASSUME NEW j \in i .. e - 1 PROVE s[j] \notin {Comma, Quote}
  <2> DEFINE m == j - i + 1
  <2>1. m \in 1 .. l /\ i - 1 + m = j
    BY <1>1
  <2> HIDE DEF m
  <2> QED BY <1>1, <1>2, <2>1
<1>6. s[i] # Quote
  <2>1. CASE l = 0
    <3>1. e = i
      BY <1>1, <2>1
    <3> QED BY <1>1, <1>3, <3>1 DEF Comma, Quote
  <2>2. CASE l # 0
    <3>1. i \in i .. e - 1
      BY <1>1, <2>2
    <3> QED BY <1>5, <3>1
  <2> QED BY <2>1, <2>2
<1>7. e \in Nat /\ i <= e /\ e - 1 = i + l - 1
  BY <1>1
<1> HIDE DEF e
<1>8. Ends(s, i, e)
  BY <1>3, <1>5, <1>7 DEF Ends
<1>9. NextComma(s, i) = e
  BY <1>1, <1>8, NextCommaIs
<1>10. elementAt(s, i) = Element(x, FALSE)
  <2>1. elementAt(s, i) = [raw |-> SubSeq(s, i, e - 1), quoted |-> FALSE]
    BY <1>6, <1>9 DEF elementAt
  <2>2. SubSeq(s, i, e - 1) = x
    BY <1>4, <1>7
  <2> QED BY <2>1, <2>2 DEF Element
<1>11. elementAfter(s, i) = e + 1
  BY <1>6, <1>9 DEF elementAfter
<1> QED BY <1>10, <1>11 DEF Scans, e, l

Text == Seq(Int)

LEMMA JoinedText ==
  ASSUME NEW a \in Text, NEW b \in Text
  PROVE  /\ a \o b \in Text /\ Len(a \o b) = Len(a) + Len(b) /\ Len(a) \in Nat /\ Len(b) \in Nat
         /\ \A i \in 1 .. Len(a) : (a \o b)[i] = a[i]
         /\ \A i \in 1 .. Len(b) : (a \o b)[Len(a) + i] = b[i]
BY DEF Text

(* A text between two characters. *)
LEMMA Wrapped ==
  ASSUME NEW y \in Text, NEW c \in Int, NEW d \in Int
  PROVE  LET x == <<c>> \o y \o <<d>>
         IN  /\ x \in Text /\ Len(x) = Len(y) + 2 /\ x[1] = c /\ x[Len(y) + 2] = d
             /\ Holds(x, 2, y)
<1> DEFINE q == <<c>>  r == <<d>>  a == q \o y  x == a \o r
<1>1. q \in Text /\ Len(q) = 1 /\ q[1] = c /\ r \in Text /\ Len(r) = 1 /\ r[1] = d
  BY DEF Text
<1> HIDE DEF q, r
<1>2. /\ a \in Text /\ Len(a) = Len(q) + Len(y) /\ Len(y) \in Nat
      /\ \A m \in 1 .. Len(q) : a[m] = q[m]
      /\ \A m \in 1 .. Len(y) : a[Len(q) + m] = y[m]
  <2>1. q \in Text /\ y \in Text
    BY <1>1
  <2> QED BY <2>1, JoinedText
<1> HIDE DEF a
<1>3. /\ Len(a) = Len(y) + 1 /\ a[1] = c
      /\ \A m \in 1 .. Len(y) : a[m + 1] = y[m]
  <2>1. \A m \in 1 .. Len(y) : 1 + m = m + 1
    OBVIOUS
  <2>2. a[1] = q[1]
    BY <1>1, <1>2
  <2> QED BY <1>1, <1>2, <2>1, <2>2
<1>4. /\ x \in Text /\ Len(x) = Len(a) + 1 /\ x[Len(a) + 1] = d
      /\ \A m \in 1 .. Len(a) : x[m] = a[m]
  <2>1. /\ x \in Text /\ Len(x) = Len(a) + Len(r)
        /\ \A m \in 1 .. Len(a) : x[m] = a[m]
        /\ \A m \in 1 .. Len(r) : x[Len(a) + m] = r[m]
    <3>1. a \in Text /\ r \in Text
      BY <1>1, <1>2
    <3> QED BY <3>1, JoinedText
  <2> HIDE DEF x
  <2> QED BY <1>1, <2>1
<1> HIDE DEF x
<1>5. ASSUME NEW m \in 1 .. Len(y) PROVE x[2 - 1 + m] = y[m]
  <2>1. 2 - 1 + m = m + 1 /\ m + 1 \in 1 .. Len(a)
    BY <1>2, <1>3
  <2>2. x[m + 1] = a[m + 1]
    BY <1>4, <2>1
  <2> QED BY <1>3, <2>1, <2>2
<1>6. 2 + Len(y) - 1 <= Len(x) /\ 1 \in 1 .. Len(a) /\ Len(a) + 1 = Len(y) + 2
  BY <1>2, <1>3, <1>4
<1>7. Holds(x, 2, y)
  BY <1>5, <1>6 DEF Holds
<1>8. x[1] = c /\ x[Len(y) + 2] = d /\ Len(x) = Len(y) + 2
  BY <1>3, <1>4, <1>6
<1> QED BY <1>4, <1>7, <1>8 DEF x, a, q, r

LEMMA QuotedElement ==
  ASSUME NEW s \in Text, NEW i, NEW y \in Text, EndsAt(s, i, Quoted(y))
  PROVE  Scans(s, i, Element(y, TRUE), i + Len(Quoted(y)) + 1) /\ Len(Quoted(y)) >= 1
<1> DEFINE x == Quoted(y)  b == Body(y)  l == Len(b)  n == Len(s)  e == i + Len(x)
<1>1. y \in Seq(Int) /\ s \in Seq(Int)
  BY DEF Text
<1>2. b \in Text /\ x = <<Quote>> \o b \o <<Quote>>
  BY <1>1, BodyPlaced, QuotedIs DEF Text
<1>3. Unquoted(b) = y
  BY <1>1, UnquotedBody
<1> HIDE DEF b
<1>4. Len(x) = l + 2 /\ x[1] = Quote /\ x[l + 2] = Quote /\ Holds(x, 2, b)
  <2>1. Quote \in Int
    BY DEF Quote
  <2> QED BY <1>2, <2>1, Wrapped
<1>5. l \in Nat /\ n \in Nat /\ b \in Seq(Int)
  BY <1>1, <1>2 DEF Text
<1> HIDE DEF l, n
<1>6. i \in Nat \ {0} /\ Holds(s, i, x)
  BY DEF EndsAt
<1>7. e = n + 1 \/ (e <= n /\ s[e] = Comma)
  BY DEF EndsAt, n
<1> HIDE DEF x
<1>8. e = i + l + 2 /\ e \in Nat
  BY <1>4, <1>5, <1>6
<1>9. \A m \in 1 .. l + 2 : s[i - 1 + m] = x[m]
  <2>1. \A m \in 1 .. Len(x) : s[i - 1 + m] = x[m]
    BY <1>6 DEF Holds
  <2> QED BY <1>4, <2>1
<1>10. s[i] = Quote /\ s[i + l + 1] = Quote
  <2>1. 1 \in 1 .. l + 2 /\ l + 2 \in 1 .. l + 2 /\ i - 1 + 1 = i /\ i - 1 + (l + 2) = i + l + 1
    BY <1>5, <1>6
  <2>2. s[i - 1 + 1] = x[1] /\ s[i - 1 + (l + 2)] = x[l + 2]
    BY <1>9, <2>1
  <2> QED BY <1>4, <2>1, <2>2
<1> HIDE DEF e
<1> DEFINE i1 == i + 1  z == i1 + l
<1>11. Holds(s, i1, b)
  <2>1. i - 1 + 2 = i1 /\ 2 \in Nat \ {0} /\ Len(x) \in Nat /\ Len(s) \in Nat /\ Len(b) \in Nat
    BY <1>4, <1>5, <1>6 DEF n, l
  <2>2. Holds(s, i - 1 + 2, b)
    BY <1>4, <1>6, <2>1, HoldsWithin
  <2> QED BY <2>1, <2>2
<1>12. i1 \in Nat \ {0} /\ z = i + l + 1 /\ z <= n /\ s[z] = Quote /\ z + 1 = e /\ z - 1 = i1 + l - 1
  <2>1. i1 \in Nat \ {0} /\ z = i + l + 1 /\ z + 1 = e /\ z - 1 = i1 + l - 1
    BY <1>5, <1>6, <1>8
  <2>2. e <= n + 1
    BY <1>5, <1>7, <1>8
  <2> QED BY <1>5, <1>6, <1>8, <1>10, <2>1, <2>2
<1> HIDE DEF i1
<1>13. ClosingQuote(s, i1) = z
  <2>1. Len(s) \in Nat /\ i1 + Len(b) <= Len(s) /\ s[i1 + Len(b)] = Quote
    BY <1>5, <1>12 DEF n, l
  <2>2. ClosingQuote(s, i1) = i1 + Len(Body(y))
    BY <1>1, <1>11, <1>12, <2>1, ClosingBody DEF b
  <2> QED BY <2>2 DEF l, b
<1>14. SubSeq(s, i1, z - 1) = b
  <2>1. SubSeq(s, i1, i1 + Len(b) - 1) = b
    BY <1>1, <1>5, <1>11, <1>12, HoldsSubSeq
  <2> QED BY <1>12, <2>1 DEF l
<1> HIDE DEF z
<1>15. elementAt(s, i) = Element(y, TRUE)
  <2>1. elementAt(s, i) = [raw |-> Unquoted(SubSeq(s, i1, z - 1)), quoted |-> TRUE]
    BY <1>10, <1>13 DEF elementAt, i1
  <2> QED BY <1>3, <1>14, <2>1 DEF Element
<1>16. NextComma(s, e) = e
  <2>1. e \in Nat \ {0} /\ Len(s) \in Nat
    BY <1>5, <1>6, <1>8 DEF n
  <2>2. Ends(s, e, e)
    <3>1. e <= e /\ \A j \in e .. e - 1 : s[j] # Comma
      BY <2>1
    <3> QED BY <1>7, <2>1, <3>1 DEF Ends, n
  <2> QED BY <2>1, <2>2, NextCommaIs
<1>17. elementAfter(s, i) = e + 1
  <2>1. elementAfter(s, i) = NextComma(s, z + 1) + 1
    BY <1>10, <1>13 DEF elementAfter, i1
  <2> QED BY <1>12, <1>16, <2>1
<1>18. Len(x) >= 1
  BY <1>4, <1>5
<1> QED BY <1>15, <1>17, <1>18 DEF Scans, e, x

LEMMA ElementsPath ==
  ASSUME NEW b, Len(b) \in Nat, NEW y, NEW p, NEW k \in Nat, Tuple(y, k), p[0] = 1,
         p[k] \in Len(b) + 1 .. Len(b) + 2,
         \A j \in 1 .. k : p[j - 1] \in 1 .. Len(b) /\ Scans(b, p[j - 1], y[j], p[j])
  PROVE  Elements(b) = y
<1> DEFINE n == Len(b)
           c == [i \in 1 .. n + 2 |-> elementAt(b, i)]
           d == [i \in 1 .. n + 2 |-> elementAfter(b, i)]
           Q(t) == t = [i \in 1 .. n + 2 |->
                          IF i > n THEN <<>> ELSE <<elementAt(b, i)>> \o t[elementAfter(b, i)]]
           any == CHOOSE t : Q(t)
<1>1. n \in Nat
  OBVIOUS
<1>2. Elements(b) = any[1]
  BY DEF Elements, ScanFrom
<1>3. \A i \in 1 .. n + 2 : c[i] = elementAt(b, i) /\ d[i] = elementAfter(b, i)
  OBVIOUS
<1>4. Leads(d, n)
  <2>1. ASSUME NEW i \in 1 .. n PROVE d[i] \in i + 1 .. n + 2
    <3>1. i \in 1 .. n + 2
      BY <1>1
    <3>2. d[i] = elementAfter(b, i)
      BY <1>3, <3>1
    <3> HIDE DEF d
    <3> QED BY <1>1, <3>2, AfterRange
  <2> HIDE DEF d
  <2> QED BY <2>1 DEF Leads
<1>5. ASSUME NEW t PROVE Q(t) <=> ScanTable(t, n, c, d)
  <2> DEFINE f == [i \in 1 .. n + 2 |-> IF i > n THEN <<>> ELSE <<elementAt(b, i)>> \o t[elementAfter(b, i)]]
             g == [i \in 1 .. n + 2 |-> IF i > n THEN <<>> ELSE <<c[i]>> \o t[d[i]]]
  <2>1. f = g
    <3> HIDE DEF c, d
    <3> QED BY <1>3
  <2> HIDE DEF c, d
  <2>2. ScanTable(t, n, c, d) <=> t = g
    BY DEF ScanTable
  <2>3. Q(t) <=> t = f
    OBVIOUS
  <2> HIDE DEF f, g, Q
  <2> QED BY <2>1, <2>2, <2>3
<1>6. ScanTable(any, n, c, d)
  <2> HIDE DEF c, d, Q
  <2>1. \E t : ScanTable(t, n, c, d)
    BY <1>1, <1>4, ScanTableExists
  <2>2. \E t : Q(t)
    BY <1>5, <2>1
  <2>3. Q(any)
    BY <2>2
  <2> HIDE DEF any
  <2> QED BY <1>5, <2>3
<1>7. Path(p, c, d, y, n, k)
  <2>1. ASSUME NEW j \in 1 .. k
        PROVE  p[j - 1] \in 1 .. n /\ c[p[j - 1]] = y[j] /\ d[p[j - 1]] = p[j]
    <3>1. p[j - 1] \in 1 .. n /\ elementAt(b, p[j - 1]) = y[j] /\ elementAfter(b, p[j - 1]) = p[j]
      BY DEF Scans
    <3>2. p[j - 1] \in 1 .. n + 2
      BY <1>1, <3>1
    <3> HIDE DEF c, d
    <3> QED BY <1>3, <3>1, <3>2
  <2> HIDE DEF c, d
  <2> QED BY <2>1 DEF Path
<1> HIDE DEF c, d, any
<1> QED BY <1>1, <1>2, <1>6, <1>7, ScanPath

(* Wherever the text x is an element, y is what is scanned. *)
Scannable(x, y) ==
  \A s \in Text : \A i : EndsAt(s, i, x) /\ i <= Len(s) => Scans(s, i, y, i + Len(x) + 1)

CommaParts(parts, k) == [i \in 1 .. k |-> IF i = 1 THEN parts[i] ELSE <<Comma>> \o parts[i]]

LEMMA AfterComma ==
  ASSUME NEW x \in Text
  PROVE  /\ <<Comma>> \o x \in Text /\ Len(<<Comma>> \o x) = Len(x) + 1
         /\ (<<Comma>> \o x)[1] = Comma /\ Holds(<<Comma>> \o x, 2, x)
<1> DEFINE q == <<Comma>>  a == q \o x
<1>1. q \in Text /\ Len(q) = 1 /\ q[1] = Comma
  BY DEF Comma, Text
<1> HIDE DEF q
<1>2. /\ a \in Text /\ Len(a) = Len(q) + Len(x) /\ Len(x) \in Nat
      /\ \A i \in 1 .. Len(q) : a[i] = q[i]
      /\ \A i \in 1 .. Len(x) : a[Len(q) + i] = x[i]
  <2>1. q \in Text
    BY <1>1
  <2> QED BY <2>1, JoinedText
<1> HIDE DEF a
<1>3. a[1] = Comma /\ Len(a) = Len(x) + 1
  BY <1>1, <1>2
<1>4. ASSUME NEW i \in 1 .. Len(x) PROVE a[2 - 1 + i] = x[i]
  <2>1. 2 - 1 + i = Len(q) + i
    BY <1>1
  <2> QED BY <1>2, <2>1
<1>5. 2 + Len(x) - 1 <= Len(a)
  BY <1>2, <1>3
<1>6. Holds(a, 2, x)
  BY <1>4, <1>5 DEF Holds
<1> QED BY <1>2, <1>3, <1>6 DEF a, q

(* The elements of a text without its brackets are at the positions q. *)
Spread(s, q, parts, k) ==
  /\ q[0] = 1 /\ q[k] \in Len(s) + 1 .. Len(s) + 2
  /\ \A j \in 1 .. k : EndsAt(s, q[j - 1], parts[j]) /\ q[j] = q[j - 1] + Len(parts[j]) + 1
                         /\ (j # k => q[j - 1] + Len(parts[j]) <= Len(s))

LEMMA CommasSpread ==
  ASSUME NEW k \in Nat, NEW parts, Tuple(parts, k), \A j \in 1 .. k : parts[j] \in Text
  PROVE  Commas(parts) \in Text /\ \E q : Spread(Commas(parts), q, parts, k)
<1> DEFINE s == Commas(parts)  cs == CommaParts(parts, k)
<1>1. s = FlattenSeq(cs)
  BY TupleLen DEF Commas, CommaParts
<1>2. /\ Tuple(cs, k)
      /\ \A j \in 1 .. k : cs[j] = IF j = 1 THEN parts[j] ELSE <<Comma>> \o parts[j]
  BY DEF Tuple, CommaParts
<1> HIDE DEF s, cs
<1>3. ASSUME NEW j \in 1 .. k
      PROVE  /\ cs[j] \in Seq(Int) /\ parts[j] \in Text /\ Len(parts[j]) \in Nat /\ Len(cs[j]) \in Nat
             /\ j = 1 => cs[j] = parts[j]
             /\ j # 1 => Len(cs[j]) = Len(parts[j]) + 1 /\ cs[j][1] = Comma /\ Holds(cs[j], 2, parts[j])
  <2> DEFINE x == parts[j]
  <2>1. x \in Text /\ Len(x) \in Nat /\ x \in Seq(Int)
    BY DEF Text
  <2>2. cs[j] = IF j = 1 THEN x ELSE <<Comma>> \o x
    BY <1>2
  <2> HIDE DEF x
  <2> DEFINE z == <<Comma>> \o x
  <2>3. z \in Text /\ Len(z) = Len(x) + 1 /\ z[1] = Comma /\ Holds(z, 2, x)
    BY <2>1, AfterComma
  <2>4. z \in Seq(Int)
    BY <2>3 DEF Text
  <2>5. cs[j] = IF j = 1 THEN x ELSE z
    BY <2>2
  <2> HIDE DEF z
  <2> QED BY <2>1, <2>3, <2>4, <2>5 DEF x
<1>4. s \in Seq(Int) /\ \E p : Placed(s, p, cs, k)
  BY <1>1, <1>2, <1>3, TextParts
<1>5. PICK p : Placed(s, p, cs, k)
  BY <1>4
<1>6. p[0] = 1 /\ p[k] = Len(s) + 1 /\ Len(s) \in Nat
  BY <1>4, <1>5 DEF Placed
<1>7. ASSUME NEW j \in 1 .. k
      PROVE  /\ p[j - 1] \in Nat \ {0} /\ p[j - 1] + Len(cs[j]) = p[j]
             /\ p[j] <= Len(s) + 1 /\ Holds(s, p[j - 1], cs[j])
  BY <1>5 DEF Placed
<1> DEFINE q == [j \in 0 .. k |-> IF j = 0 THEN 1 ELSE p[j] + 1]
<1>8. q[0] = 1 /\ \A j \in 1 .. k : q[j] = p[j] + 1
  OBVIOUS
<1> HIDE DEF q
<1>9. ASSUME NEW j \in 1 .. k
      PROVE  /\ q[j - 1] \in Nat \ {0} /\ q[j - 1] + Len(parts[j]) = p[j] /\ Holds(s, q[j - 1], parts[j])
  <2>1. CASE j = 1
    <3>1. j - 1 = 0 /\ cs[j] = parts[j]
      BY <1>3, <2>1
    <3>2. q[j - 1] = p[j - 1]
      BY <1>6, <1>8, <3>1
    <3> QED BY <1>7, <3>1, <3>2
  <2>2. CASE j # 1
    <3> DEFINE o == p[j - 1]  x == parts[j]  z == cs[j]
    <3>1. j - 1 \in 1 .. k
      BY <2>2
    <3>2. q[j - 1] = o + 1
      BY <1>8, <3>1
    <3>3. o \in Nat \ {0} /\ o + Len(z) = p[j] /\ Holds(s, o, z)
      BY <1>7
    <3>4. Len(z) = Len(x) + 1 /\ Holds(z, 2, x) /\ Len(x) \in Nat /\ Len(z) \in Nat
      BY <1>3, <2>2
    <3> HIDE DEF o, x, z
    <3>5. 2 \in Nat \ {0} /\ o - 1 + 2 = o + 1
      BY <3>3
    <3>6. Holds(s, o - 1 + 2, x)
      BY <1>6, <3>3, <3>4, <3>5, HoldsWithin
    <3>7. (o + 1) + Len(x) = p[j]
      BY <3>3, <3>4
    <3>8. o + 1 \in Nat \ {0}
      BY <3>3
    <3> QED BY <3>2, <3>5, <3>6, <3>7, <3>8 DEF x
  <2> QED BY <2>1, <2>2
<1>10. ASSUME NEW j \in 1 .. k, j # k
       PROVE  p[j] <= Len(s) /\ s[p[j]] = Comma
  <2> DEFINE m == j + 1
  <2>1. m \in 1 .. k /\ m # 1 /\ m - 1 = j
    BY <1>10
  <2> HIDE DEF m
  <2> DEFINE o == p[j]  z == cs[m]
  <2>2. o \in Nat \ {0} /\ Holds(s, o, z)
    BY <1>7, <2>1
  <2>3. Len(z) \in Nat /\ Len(z) >= 1 /\ z[1] = Comma
    BY <1>3, <2>1, SMTT(30)
  <2> HIDE DEF o, z
  <2>4. s[o] = z[1] /\ o <= Len(s)
    <3>1. o + Len(z) - 1 <= Len(s)
      BY <2>2 DEF Holds
    <3>2. s[o] = z[1]
      BY <2>2, <2>3, FirstByte
    <3> QED BY <1>6, <2>2, <2>3, <3>1, <3>2
  <2> QED BY <2>3, <2>4 DEF o
<1>11. ASSUME NEW j \in 1 .. k
       PROVE  EndsAt(s, q[j - 1], parts[j]) /\ q[j] = q[j - 1] + Len(parts[j]) + 1
                /\ (j # k => q[j - 1] + Len(parts[j]) <= Len(s))
  <2> DEFINE o == q[j - 1]  x == parts[j]  e == p[j]
  <2>1. o \in Nat \ {0} /\ o + Len(x) = e /\ Holds(s, o, x) /\ Len(x) \in Nat
    BY <1>3, <1>9
  <2>2. q[j] = e + 1
    BY <1>8
  <2>3. j = k => e = Len(s) + 1
    BY <1>6
  <2>4. j # k => e <= Len(s) /\ s[e] = Comma
    BY <1>10
  <2> HIDE DEF o, x, e
  <2>5. EndsAt(s, o, x)
    BY <2>1, <2>3, <2>4 DEF EndsAt
  <2>6. q[j] = o + Len(x) + 1 /\ (j # k => o + Len(x) <= Len(s))
    BY <2>1, <2>2, <2>4
  <2> QED BY <2>5, <2>6 DEF o, x
<1>12. q[k] \in Len(s) + 1 .. Len(s) + 2
  <2>1. CASE k = 0
    BY <1>6, <1>8, <2>1
  <2>2. CASE k # 0
    <3>1. k \in 1 .. k
      BY <2>2
    <3> QED BY <1>6, <1>8, <3>1
  <2> QED BY <2>1, <2>2
<1>13. Spread(s, q, parts, k)
  BY <1>8, <1>11, <1>12 DEF Spread
<1> QED BY <1>4, <1>13 DEF s, Text

LEMMA CommasScan ==
  ASSUME NEW k \in Nat, NEW parts, Tuple(parts, k), \A j \in 1 .. k : parts[j] \in Text,
         k # 0 => Len(parts[k]) >= 1,
         NEW y, Tuple(y, k), \A j \in 1 .. k : Scannable(parts[j], y[j])
  PROVE  Elements(Commas(parts)) = y
<1> DEFINE s == Commas(parts)
<1>1. s \in Text /\ \E q : Spread(s, q, parts, k)
  BY CommasSpread
<1> HIDE DEF s
<1>2. PICK q : Spread(s, q, parts, k)
  BY <1>1
<1>3. q[0] = 1 /\ q[k] \in Len(s) + 1 .. Len(s) + 2 /\ Len(s) \in Nat
  BY <1>1, <1>2 DEF Spread, Text
<1>4. ASSUME NEW j \in 1 .. k
      PROVE  q[j - 1] \in 1 .. Len(s) /\ Scans(s, q[j - 1], y[j], q[j])
  <2> DEFINE o == q[j - 1]  x == parts[j]
  <2>1. EndsAt(s, o, x) /\ q[j] = o + Len(x) + 1 /\ (j # k => o + Len(x) <= Len(s))
    BY <1>2 DEF Spread
  <2>2. j = k => Len(x) >= 1
    OBVIOUS
  <2>3. Scannable(x, y[j])
    OBVIOUS
  <2> HIDE DEF o, x
  <2>4. o \in Nat \ {0} /\ Len(x) \in Nat /\ (o + Len(x) = Len(s) + 1 \/ o + Len(x) <= Len(s))
    BY <2>1 DEF EndsAt
  <2>5. o \in 1 .. Len(s) /\ o <= Len(s)
    BY <1>3, <2>1, <2>2, <2>4
  <2>6. Scans(s, o, y[j], o + Len(x) + 1)
    BY <1>1, <2>1, <2>3, <2>5 DEF Scannable
  <2> QED BY <2>1, <2>5, <2>6 DEF o
<1>5. Elements(s) = y
  BY <1>3, <1>4, ElementsPath
<1> QED BY <1>5 DEF s

-----------------------------------------------------------------------------
(***************************************************************************)
(* ScanArray of what encodeArrayText prints.                               *)
(***************************************************************************)
ElementOK(base, v) ==
  v # Null => /\ v = <<v[1]>>
              /\ base = "char" => v[1] \in Text
              /\ base = "bin" => v[1] \in Bytes
              /\ base \notin {"char", "bin"} => v[1] \in Int

ElementOf(base, v) ==
  IF v = Null THEN Element(<<NullToken>>, FALSE)
  ELSE IF base = "char" THEN Element(v[1], TRUE)
  ELSE IF base = "bin" THEN Element(Hex(v[1]), FALSE)
  ELSE Element(FormatInt(v[1]), FALSE)

ElementIs(base, v) == IF v = Null THEN ZeroOf(base) ELSE v[1]

(* An element is printed as x, which is scanned as y. *)
Restores(base, v, x, y) ==
  /\ x \in Text /\ Scannable(x, y) /\ setArrayElement(base, y) = ElementIs(base, v)
  /\ Len(x) >= 1 \/ (base = "bin" /\ v = <<<<>>>>)

LEMMA PlainScannable ==
  ASSUME NEW x, Plain(x)
  PROVE  x \in Text /\ Scannable(x, Element(x, FALSE))
<1>1. ASSUME NEW s \in Text, NEW i, EndsAt(s, i, x), i <= Len(s)
      PROVE  Scans(s, i, Element(x, FALSE), i + Len(x) + 1)
  BY <1>1, PlainElement DEF Text
<1> QED BY <1>1 DEF Scannable, Plain, Text

LEMMA BareIsPlain ==
  ASSUME NEW x, Bare(x)
  PROVE  Plain(x) /\ x # <<NullToken>>
<1>1. Plain(x)
  BY DEF Bare, Plain
<1>2. ASSUME x = <<NullToken>> PROVE FALSE
  <2>1. Len(x) = 1 /\ x[1] = NullToken
    BY <1>2
  <2>2. x[1] # NullToken
    <3>1. 1 \in 1 .. Len(x)
      BY <2>1
    <3> QED BY <3>1 DEF Bare
  <2> QED BY <2>1, <2>2
<1> QED BY <1>1, <1>2

LEMMA ElementFields ==
  ASSUME NEW x, NEW q
  PROVE  Element(x, q).raw = x /\ Element(x, q).quoted = q
BY DEF Element

LEMMA NullRestored ==
  ASSUME NEW base
  PROVE  Restores(base, Null, encodeArrayElement(base, Null), ElementOf(base, Null))
<1> DEFINE x == <<NullToken>>
<1>1. encodeArrayElement(base, Null) = x
  BY DEF encodeArrayElement, Null
<1>2. ElementOf(base, Null) = Element(x, FALSE)
  BY DEF ElementOf
<1>3. Plain(x) /\ Len(x) = 1
  BY DEF Plain, NullToken, Comma, Quote
<1>4. ElementIs(base, Null) = ZeroOf(base)
  BY DEF ElementIs
<1>5. setArrayElement(base, Element(x, FALSE)) = ZeroOf(base)
  BY ElementFields DEF setArrayElement
<1> HIDE DEF x
<1>6. x \in Text /\ Scannable(x, Element(x, FALSE))
  BY <1>3, PlainScannable
<1>7. Len(x) >= 1
  BY <1>3
<1> QED BY <1>1, <1>2, <1>4, <1>5, <1>6, <1>7 DEF Restores

LEMMA CharRestored ==
  ASSUME NEW v, v # Null, ElementOK("char", v)
  PROVE  Restores("char", v, encodeArrayElement("char", v), ElementOf("char", v))
<1> DEFINE y == v[1]  x == Quoted(y)
<1>1. encodeArrayElement("char", v) = x
  BY DEF encodeArrayElement, Null
<1>2. ElementOf("char", v) = Element(y, TRUE) /\ ElementIs("char", v) = y
  BY DEF ElementOf, ElementIs
<1>3. y \in Text
  BY DEF ElementOK
<1> HIDE DEF y
<1>4. setArrayElement("char", Element(y, TRUE)) = y
  BY ElementFields DEF setArrayElement
<1>5. x \in Text /\ Len(x) >= 1
  <2>1. Body(y) \in Text /\ x = <<Quote>> \o Body(y) \o <<Quote>> /\ Quote \in Int
    <3>1. Quote \in Int
      BY DEF Quote
    <3> QED BY <1>3, <3>1, BodyPlaced, QuotedIs DEF Text
  <2> DEFINE b == Body(y)
  <2> HIDE DEF b, x
  <2>2. x \in Text /\ Len(x) = Len(b) + 2
    BY <2>1, Wrapped DEF b
  <2>3. Len(b) \in Nat
    BY <2>1 DEF b, Text
  <2> QED BY <2>2, <2>3
<1>6. Scannable(x, Element(y, TRUE))
  <2>1. ASSUME NEW s \in Text, NEW i, EndsAt(s, i, x), i <= Len(s)
        PROVE  Scans(s, i, Element(y, TRUE), i + Len(x) + 1)
    BY <1>3, <2>1, QuotedElement
  <2> QED BY <2>1 DEF Scannable
<1> QED BY <1>1, <1>2, <1>4, <1>5, <1>6 DEF Restores

LEMMA BinRestored ==
  ASSUME NEW v, v # Null, ElementOK("bin", v)
  PROVE  Restores("bin", v, encodeArrayElement("bin", v), ElementOf("bin", v))
<1> DEFINE y == v[1]  x == Hex(y)
<1>1. encodeArrayElement("bin", v) = x
  BY DEF encodeArrayElement, Null
<1>2. ElementOf("bin", v) = Element(x, FALSE) /\ ElementIs("bin", v) = y
  BY DEF ElementOf, ElementIs
<1>3. y \in Bytes /\ v = <<y>>
  BY DEF ElementOK
<1> HIDE DEF y
<1>4. ParseHex(x) = y /\ Bare(x) /\ Len(x) = 2 * Len(y)
  BY <1>3, HexParses
<1>5. Plain(x) /\ x # <<NullToken>>
  BY <1>4, BareIsPlain
<1> HIDE DEF x
<1>6. setArrayElement("bin", Element(x, FALSE)) = y
  BY <1>4, <1>5, ElementFields DEF setArrayElement
<1>7. x \in Text /\ Scannable(x, Element(x, FALSE))
  BY <1>5, PlainScannable
<1>8. Len(x) >= 1 \/ v = <<<<>>>>
  <2>1. Len(y) \in Nat /\ (Len(y) = 0 => y = <<>>)
    BY <1>3 DEF Bytes
  <2>2. CASE Len(y) = 0
    BY <1>3, <2>1, <2>2
  <2>3. CASE Len(y) # 0
    BY <1>4, <2>1, <2>3
  <2> QED BY <2>2, <2>3
<1> QED BY <1>1, <1>2, <1>6, <1>7, <1>8 DEF Restores

LEMMA IntRestored ==
  ASSUME NEW base \in {"small", "int", "big"}, NEW v, v # Null, ElementOK(base, v)
  PROVE  Restores(base, v, encodeArrayElement(base, v), ElementOf(base, v))
<1> DEFINE y == v[1]  x == FormatInt(y)
<1>0. base # "char" /\ base # "bin"
  OBVIOUS
<1>1. encodeArrayElement(base, v) = x
  BY <1>0 DEF encodeArrayElement, Null
<1>2. ElementOf(base, v) = Element(x, FALSE) /\ ElementIs(base, v) = y
  BY <1>0 DEF ElementOf, ElementIs
<1>3. y \in Int
  BY <1>0 DEF ElementOK
<1> HIDE DEF y
<1>4. ParseInt(x) = y /\ Bare(x) /\ Len(x) >= 1
  BY <1>3, FormatIntParses
<1>5. Plain(x) /\ x # <<NullToken>>
  BY <1>4, BareIsPlain
<1> HIDE DEF x
<1>6. setArrayElement(base, Element(x, FALSE)) = y
  BY <1>0, <1>4, <1>5, ElementFields DEF setArrayElement
<1>7. x \in Text /\ Scannable(x, Element(x, FALSE))
  BY <1>5, PlainScannable
<1> QED BY <1>1, <1>2, <1>4, <1>6, <1>7 DEF Restores

LEMMA ElementRestored ==
  ASSUME NEW base \in Bases, NEW v, ElementOK(base, v)
  PROVE  Restores(base, v, encodeArrayElement(base, v), ElementOf(base, v))
<1>1. CASE v = Null
  BY <1>1, NullRestored
<1>2. CASE v # Null
  BY <1>2, CharRestored, BinRestored, IntRestored DEF Bases
<1> QED BY <1>1, <1>2

(* ScanArray restores the elements of an array. *)
LEMMA ArrayRestored ==
  ASSUME NEW base \in Bases, NEW k \in Nat, NEW e, Tuple(e, k),
         \A i \in 1 .. k : ElementOK(base, e[i]),
         k # 0 => ~(base = "bin" /\ e[k] = <<<<>>>>)
  PROVE  ScanArray(base, encodeArrayText(base, e)) = [i \in 1 .. k |-> ElementIs(base, e[i])]
<1> DEFINE parts == [i \in 1 .. k |-> encodeArrayElement(base, e[i])]
           y == [i \in 1 .. k |-> ElementOf(base, e[i])]
           s == Commas(parts)  text == <<Open>> \o s \o <<Close>>
<1>1. encodeArrayText(base, e) = text
  BY TupleLen DEF encodeArrayText
<1>2. Tuple(parts, k) /\ \A i \in 1 .. k : parts[i] = encodeArrayElement(base, e[i])
  BY DEF Tuple
<1>3. Tuple(y, k) /\ \A i \in 1 .. k : y[i] = ElementOf(base, e[i])
  BY DEF Tuple
<1> HIDE DEF parts, y
<1>4. \A i \in 1 .. k : Restores(base, e[i], parts[i], y[i])
  BY <1>2, <1>3, ElementRestored
<1>5. \A i \in 1 .. k : parts[i] \in Text /\ Scannable(parts[i], y[i])
  BY <1>4 DEF Restores
<1>6. k # 0 => Len(parts[k]) >= 1
  <2>1. k # 0 => k \in 1 .. k
    OBVIOUS
  <2> QED BY <1>4, <2>1 DEF Restores
<1>7. s \in Text /\ Elements(s) = y
  BY <1>2, <1>3, <1>5, <1>6, CommasSpread, CommasScan
<1> HIDE DEF s
<1>8. SubSeq(text, 2, Len(text) - 1) = s
  <2>1. Open \in Int /\ Close \in Int
    BY DEF Open, Close
  <2>2. text \in Text /\ Len(text) = Len(s) + 2 /\ Holds(text, 2, s)
    BY <1>7, <2>1, Wrapped
  <2> HIDE DEF text
  <2>3. text \in Seq(Int) /\ s \in Seq(Int) /\ 2 \in Nat \ {0}
    BY <1>7, <2>2 DEF Text
  <2>4. SubSeq(text, 2, 2 + Len(s) - 1) = s
    BY <2>2, <2>3, HoldsSubSeq
  <2>5. 2 + Len(s) - 1 = Len(text) - 1
    <3>1. Len(s) \in Nat
      BY <2>3
    <3> QED BY <2>2, <3>1
  <2> QED BY <2>4, <2>5
<1> HIDE DEF text
<1>9. parseArrayElements(text) = y
  BY <1>7, <1>8 DEF parseArrayElements
<1>10. ScanArray(base, text) = [i \in DOMAIN y |-> setArrayElement(base, y[i])]
  BY <1>9 DEF ScanArray
<1>11. DOMAIN y = 1 .. k
  BY <1>3, TupleLen
<1>12. \A i \in 1 .. k : setArrayElement(base, y[i]) = ElementIs(base, e[i])
  BY <1>4 DEF Restores
<1>13. [i \in 1 .. k |-> setArrayElement(base, y[i])] = [i \in 1 .. k |-> ElementIs(base, e[i])]
  BY <1>12
<1> QED BY <1>1, <1>10, <1>11, <1>13

-----------------------------------------------------------------------------
(***************************************************************************)
(* The arrays of the rows that arrived.                                    *)
(***************************************************************************)
LEMMA GoTextIsText ==
  ASSUME NEW s \in Seq(Rune)
  PROVE  GoText(s) \in Text
<1>1. \A u \in Rune : goRune(u) \in Int
  BY DEF Rune, goRune
<1>2. Len(s) \in Nat /\ DOMAIN s = 1 .. Len(s) /\ \A i \in 1 .. Len(s) : s[i] \in Rune
  OBVIOUS
<1> DEFINE f == GoText(s)
<1>3. f = [i \in 1 .. Len(s) |-> f[i]] /\ \A i \in 1 .. Len(s) : f[i] \in Int
  BY <1>1, <1>2 DEF GoText
<1> HIDE DEF f
<1>4. f \in Seq(Int)
  BY <1>2, <1>3, IsSequence
<1> QED BY <1>4 DEF f, Text

LEMMA GotInt ==
  ASSUME NEW base \in {"small", "int", "big"}, NEW v, ScalarOK(base, v), v # Null
  PROVE  ElementOK(base, Got(base, v))
<1>1. base \in OfNums /\ base \notin Months \cup Seconds /\ base # "char" /\ base # "bin" /\ base # "all"
  BY DEF OfNums, Months, Seconds
<1>2. ToNums(base, v) = <<v[1]>>
  BY <1>1 DEF ToNums, Months, Seconds
<1>3. Got(base, v) = <<v[1]>>
  BY <1>1, <1>2 DEF Got, FromNums
<1>4. v[1] \in Int
  <2>1. \E n : Widths(base) = <<n>>
    BY DEF Widths, Months, Seconds
  <2>2. PICK n : Widths(base) = <<n>>
    BY <2>1
  <2>3. 1 \in DOMAIN Widths(base)
    BY <2>2
  <2>4. Fits(Widths(base)[1], ToNums(base, v)[1])
    BY <1>1, <2>3 DEF ScalarOK
  <2>5. ToNums(base, v)[1] \in Int
    BY <2>4 DEF Fits
  <2> QED BY <1>2, <2>5
<1>5. <<v[1]>>[1] = v[1] /\ <<v[1]>> # Null
  BY DEF Null
<1> QED BY <1>1, <1>3, <1>4, <1>5 DEF ElementOK

LEMMA GotElement ==
  ASSUME NEW base \in Bases, NEW v, v # Null => ScalarOK(base, v)
  PROVE  ElementOK(base, Got(base, v))
<1>1. CASE v = Null
  BY <1>1 DEF Got, ElementOK
<1>2. CASE v # Null /\ base = "char"
  <2>1. v[1] \in Seq(Rune)
    BY <1>2 DEF ScalarOK, TextOK, Months, Seconds
  <2>2. Got(base, v) = <<GoText(v[1])>>
    BY <1>2 DEF Got
  <2> DEFINE x == GoText(v[1])
  <2>3. x \in Text
    BY <2>1, GoTextIsText
  <2> HIDE DEF x
  <2>4. <<x>>[1] = x
    OBVIOUS
  <2>5. ElementOK(base, <<x>>)
    BY <1>2, <2>3, <2>4 DEF ElementOK
  <2> QED BY <2>2, <2>5 DEF x
<1>3. CASE v # Null /\ base = "bin"
  <2>1. v = <<v[1]>> /\ v[1] \in Bytes
    BY <1>3 DEF ScalarOK, Bytes, Byte, Months, Seconds
  <2>2. Got(base, v) = v
    BY <1>3 DEF Got, OfNums, Months, Seconds
  <2> QED BY <1>3, <2>1, <2>2 DEF ElementOK
<1>4. CASE v # Null /\ base \in {"small", "int", "big"}
  BY <1>4, GotInt
<1> QED BY <1>1, <1>2, <1>3, <1>4 DEF Bases

(* An array that arrived: the elements that ScanArray restores. *)
ArrayOK(base, v) ==
  \E k \in Nat : Tuple(v[1], k) /\ \A i \in 1 .. k : ElementOK(base, v[1][i])

LEMMA GotArray ==
  ASSUME NEW t, NEW v, ValueOK(t, v), t.code = "array", t.base \in Bases, GotValue(t, v) # Null
  PROVE  ArrayOK(t.base, GotValue(t, v))
<1>1. v # Null
  BY DEF GotValue, Got
<1> DEFINE e == v[1]  g == GotAll(t.base, e)
<1>2. GotValue(t, v) = <<g>>
  BY <1>1 DEF GotValue
<1>3. IsSeq(e) /\ \A i \in DOMAIN e : e[i] # Null => ScalarOK(t.base, e[i])
  BY <1>1 DEF ValueOK
<1> HIDE DEF e
<1>4. Len(e) \in Nat /\ DOMAIN e = 1 .. Len(e)
  BY <1>3, SeqIsTuple
<1>5. Tuple(g, Len(e)) /\ \A i \in 1 .. Len(e) : g[i] = Got(t.base, e[i])
  BY DEF GotAll, Tuple
<1> HIDE DEF g
<1>6. \A i \in 1 .. Len(e) : ElementOK(t.base, g[i])
  BY <1>3, <1>4, <1>5, GotElement
<1>7. <<g>>[1] = g
  OBVIOUS
<1> QED BY <1>2, <1>4, <1>5, <1>6, <1>7 DEF ArrayOK

LEMMA GotRowIn ==
  ASSUME NEW types, GoodTypes(types), NEW f, FieldOK(types, f),
         NEW row \in ToSet(RowsOf(f[1], GotField(types, f)))
  PROVE  \E r : (\A j \in 1 .. Len(types) : ValueOK(types[j], r[j])) /\ row = GotRow(types, r)
<1> DEFINE rows == RowsOf(f[1], f[2])
<1>1. CASE HasRows(f[1])
  <2>1. RowsOf(f[1], GotField(types, f)) = GotRows(types, rows) /\ RowsOK(types, rows)
    <3>1. CASE f[1] = "simple"
      BY <3>1 DEF RowsOf, GotField, FieldOK
    <3>2. CASE f[1] = "rows"
      BY <3>2 DEF RowsOf, GotField, FieldOK
    <3> QED BY <1>1, <3>1, <3>2 DEF HasRows
  <2> HIDE DEF rows
  <2>2. IsSeq(rows) /\ Len(rows) \in Nat /\ DOMAIN rows = 1 .. Len(rows) /\ DOMAIN types = 1 .. Len(types)
    BY <2>1, SeqIsTuple DEF RowsOK, GoodTypes
  <2>3. PICK i \in 1 .. Len(rows) : row = GotRow(types, rows[i])
    <3> DEFINE g == GotRows(types, rows)
    <3>1. DOMAIN g = 1 .. Len(rows) /\ \A i \in 1 .. Len(rows) : g[i] = GotRow(types, rows[i])
      BY DEF GotRows
    <3>2. row \in ToSet(g)
      BY <2>1
    <3> HIDE DEF g
    <3>3. \E i \in DOMAIN g : row = g[i]
      BY <3>2 DEF ToSet
    <3> QED BY <3>1, <3>3
  <2>4. \A j \in 1 .. Len(types) : ValueOK(types[j], rows[i][j])
    BY <2>1, <2>2 DEF RowsOK
  <2> DEFINE r == rows[i]
  <2>5. (\A j \in 1 .. Len(types) : ValueOK(types[j], r[j])) /\ row = GotRow(types, r)
    BY <2>3, <2>4
  <2> HIDE DEF r
  <2> QED BY <2>5
<1>2. CASE ~HasRows(f[1])
  <2>1. RowsOf(f[1], GotField(types, f)) = <<>>
    BY <1>2 DEF RowsOf, HasRows
  <2>2. row \in ToSet(<<>>)
    BY <2>1
  <2> QED BY <2>2 DEF ToSet
<1> QED BY <1>1, <1>2

LEMMA GotArrays ==
  ASSUME NEW fs, FieldsOK(fs), NEW a \in ArraysOf(fs, GotFields(fs)), a[2] # Null, a[1].base \in Bases
  PROVE  ArrayOK(a[1].base, a[2])
<1> DEFINE types == RowTypes(fs)  vals == GotFields(fs)
<1>1. GoodTypes(types) /\ Len(fs) \in Nat /\ DOMAIN fs = 1 .. Len(fs)
  BY TypesGood, KindsIs DEF FieldsOK
<1>2. \A i \in 1 .. Len(fs) : FieldOK(types, fs[i]) /\ vals[i] = GotField(types, fs[i])
  BY DEF FieldsOK, GotFields
<1>3. Len(types) \in Nat /\ DOMAIN types = 1 .. Len(types)
  BY <1>1, SeqIsTuple DEF GoodTypes
<1>4. PICK row \in UNION {ToSet(RowsOf(fs[i][1], vals[i])) : i \in DOMAIN fs},
           j \in {k \in DOMAIN types : types[k].code = "array"} : a = <<types[j], row[j]>>
  BY DEF ArraysOf
<1> HIDE DEF types, vals
<1>5. PICK i \in 1 .. Len(fs) : row \in ToSet(RowsOf(fs[i][1], vals[i]))
  BY <1>1, <1>4
<1>6. j \in 1 .. Len(types) /\ types[j].code = "array"
  BY <1>3, <1>4
<1>7. PICK r : (\A m \in 1 .. Len(types) : ValueOK(types[m], r[m])) /\ row = GotRow(types, r)
  <2> DEFINE f == fs[i]
  <2>1. FieldOK(types, f) /\ row \in ToSet(RowsOf(f[1], GotField(types, f)))
    BY <1>2, <1>5
  <2> HIDE DEF f
  <2> QED BY <1>1, <2>1, GotRowIn
<1>8. row[j] = GotValue(types[j], r[j]) /\ ValueOK(types[j], r[j])
  BY <1>6, <1>7 DEF GotRow
<1> DEFINE t == types[j]  v == r[j]
<1>9. a[1] = t /\ a[2] = GotValue(t, v) /\ ValueOK(t, v) /\ t.code = "array"
  BY <1>4, <1>6, <1>8
<1> HIDE DEF t, v
<1>10. t.base \in Bases /\ GotValue(t, v) # Null
  BY <1>9
<1>11. ArrayOK(t.base, GotValue(t, v))
  BY <1>9, <1>10, GotArray
<1> QED BY <1>9, <1>11

Lossless(base, elements, got) ==
  \/ got = [i \in DOMAIN elements |-> IF elements[i] = Null THEN ZeroOf(base) ELSE elements[i][1]]
  \/ base = "bin" /\ elements # <<>> /\ Last(elements) = <<<<>>>>

LEMMA ScannedIs ==
  ASSUME NEW base \in Bases, NEW v, ArrayOK(base, v)
  PROVE  Lossless(base, v[1], ScanArray(base, encodeArrayText(base, v[1])))
<1> DEFINE e == v[1]  g == ScanArray(base, encodeArrayText(base, e))
<1>1. PICK k \in Nat : Tuple(e, k) /\ \A i \in 1 .. k : ElementOK(base, e[i])
  BY DEF ArrayOK
<1> HIDE DEF e
<1>2. DOMAIN e = 1 .. k /\ Len(e) = k
  BY <1>1, TupleLen
<1>3. CASE k # 0 /\ base = "bin" /\ e[k] = <<<<>>>>
  <2>1. e # <<>> /\ Last(e) = <<<<>>>>
    BY <1>2, <1>3 DEF Last
  <2> QED BY <1>3, <2>1 DEF Lossless, e
<1>4. CASE ~(k # 0 /\ base = "bin" /\ e[k] = <<<<>>>>)
  <2>1. g = [i \in 1 .. k |-> ElementIs(base, e[i])]
    BY <1>1, <1>4, ArrayRestored
  <2> HIDE DEF g
  <2>2. g = [i \in DOMAIN e |-> IF e[i] = Null THEN ZeroOf(base) ELSE e[i][1]]
    BY <1>2, <2>1 DEF ElementIs
  <2>3. Lossless(base, e, g)
    BY <2>2 DEF Lossless
  <2> QED BY <2>3 DEF g, e
<1> QED BY <1>3, <1>4

LEMMA ArraysStep ==
  ReceiveInv /\ ArraysAreLossless /\ [Next]_vars => ArraysAreLossless'
<1> SUFFICES ASSUME ReceiveInv, ArraysAreLossless, [Next]_vars PROVE ArraysAreLossless'
  OBVIOUS
<1>1. CASE Scan
  <2> DEFINE fs == sent[1].fields
             B == {b \in ArraysOf(fs, results[1]) : b[2] # Null /\ b[1].base \in Bases}
             triple(a) == <<a[1].base, a[2][1], ScanArray(a[1].base, encodeArrayText(a[1].base, a[2][1]))>>
  <2>1. pc = "done" /\ scanned' = {triple(a) : a \in B}
    BY <1>1 DEF Scan
  <2>2. FieldsOK(fs) /\ results[1] = GotFields(fs)
    <3>1. sent \in Transmissions /\ Len(results) = Len(sent) /\ Decoded(sent, results)
      BY <2>1 DEF ReceiveInv, SentInv
    <3>2. 1 \in 1 .. Len(sent) /\ FrameOK(sent[1])
      BY <3>1, SentFrames
    <3>3. results[1] = GotFields(fs)
      BY <3>1, <3>2 DEF Decoded
    <3> QED BY <3>2, <3>3, FrameFields
  <2> HIDE DEF fs
  <2>3. ASSUME NEW a \in B
        PROVE  Lossless(triple(a)[1], triple(a)[2], triple(a)[3])
    <3> DEFINE base == a[1].base  v == a[2]
    <3>1. a \in ArraysOf(fs, GotFields(fs)) /\ v # Null /\ base \in Bases
      BY <2>2
    <3>2. ArrayOK(base, v)
      BY <2>2, <3>1, GotArrays
    <3>3. triple(a) = <<base, v[1], ScanArray(base, encodeArrayText(base, v[1]))>>
      OBVIOUS
    <3> HIDE DEF base, v, triple
    <3>4. Lossless(base, v[1], ScanArray(base, encodeArrayText(base, v[1])))
      BY <3>1, <3>2, ScannedIs
    <3> QED BY <3>3, <3>4
  <2> HIDE DEF B, triple
  <2>4. \A s \in scanned' : Lossless(s[1], s[2], s[3])
    BY <2>1, <2>3
  <2> QED BY <2>4 DEF ArraysAreLossless, Lossless
<1>2. CASE Receive
  BY <1>2 DEF Receive, ArraysAreLossless
<1>3. CASE UNCHANGED vars
  BY <1>3 DEF vars, ArraysAreLossless
<1> QED BY <1>1, <1>2, <1>3 DEF Next

(* ScanArray of the text DecodeResult makes of an array column restores    *)
(* the elements the server sent, whatever bytes their strings have, but    *)
(* for the empty bytes at the end of a binary array.                       *)
THEOREM WireArrays == Spec => []ArraysAreLossless
<1>1. Init => ReceiveInv /\ ArraysAreLossless
  BY ReceiveInit DEF Init, ArraysAreLossless
<1>2. ReceiveInv /\ ArraysAreLossless /\ [Next]_vars => (ReceiveInv /\ ArraysAreLossless)'
  BY ReceiveStep, ArraysStep
<1> QED BY <1>1, <1>2, PTL DEF Spec
=============================================================================
