------------------------------ MODULE LobProofs ------------------------------
(***************************************************************************)
(* Proofs about Lob for contents and chunks of any size, and, in the second *)
(* part, about LobParams for every number of parameters, connections and   *)
(* failures.  The two specifications share no variable.                    *)
(***************************************************************************)
EXTENDS Lob, LobParams, SequenceTheorems, WellFoundedInduction,
        FiniteSetTheorems, TLAPS

-----------------------------------------------------------------------------
(***************************************************************************)
(* Induction: a set of natural numbers that is not empty has a least       *)
(* element, and one that is bounded a greatest.                            *)
(***************************************************************************)
LEMMA LeastNat ==
  ASSUME NEW T \in SUBSET Nat, T # {}
  PROVE  \E x \in T : \A y \in T : x <= y
<1>1. IsWellFoundedOn(OpToRel(<, Nat), Nat)
  BY NatLessThanWellFounded
<1>2. PICK x \in T : \A y \in T : ~ (<<y, x>> \in OpToRel(<, Nat))
  BY <1>1, WFMin
<1>3. ASSUME NEW y \in T PROVE x <= y
  <2>1. OpToRel(<, Nat) = {ss \in Nat \X Nat : ss[1] < ss[2]}
    BY DEF OpToRel
  <2>2. ~(<<y, x>> \in {ss \in Nat \X Nat : ss[1] < ss[2]})
    BY <1>2, <2>1
  <2>3. y \in Nat /\ x \in Nat
    OBVIOUS
  <2>4. ~(y < x)
    BY <2>2, <2>3
  <2> QED BY <2>3, <2>4
<1> QED BY <1>3

LEMMA GreatestNat ==
  ASSUME NEW n \in Nat, NEW S \in SUBSET (0 .. n), S # {}
  PROVE  Max(S) \in S /\ \A y \in S : y <= Max(S)
<1> DEFINE T == {n - y : y \in S}
<1>1. T \in SUBSET Nat /\ T # {}
  <2>1. \A y \in S : n - y \in Nat
    OBVIOUS
  <2>2. PICK z \in S : TRUE
    OBVIOUS
  <2>3. n - z \in T
    BY <2>2
  <2> QED BY <2>1, <2>3
<1>2. PICK t \in T : \A y \in T : t <= y
  <2> HIDE DEF T
  <2> QED BY <1>1, LeastNat
<1>3. PICK x \in S : t = n - x
  OBVIOUS
<1>4. \A y \in S : x >= y
  BY <1>2, <1>3
<1>5. Max(S) = CHOOSE y \in S : \A z \in S : y >= z
  BY DEF Max
<1> QED BY <1>4, <1>5

-----------------------------------------------------------------------------
(***************************************************************************)
(* utf16.Encode.                                                           *)
(***************************************************************************)

(* A table of the concatenations of the first n sequences of s. *)
Flat(t, s, n) == t = [i \in 1 .. n |-> IF i = 1 THEN s[i] ELSE t[i - 1] \o s[i]]

LEMMA FlattenIs ==
  ASSUME NEW s, Len(s) # 0
  PROVE  FlattenSeq(s) = (CHOOSE t : Flat(t, s, Len(s)))[Len(s)]
BY DEF FlattenSeq, Flat

LEMMA FlatAt ==
  ASSUME NEW t, NEW s, NEW n \in Nat, Flat(t, s, n), NEW i \in 1 .. n
  PROVE  t[i] = IF i = 1 THEN s[i] ELSE t[i - 1] \o s[i]
<1> DEFINE f == [j \in 1 .. n |-> IF j = 1 THEN s[j] ELSE t[j - 1] \o s[j]]
<1>1. t = f
  BY DEF Flat
<1>2. f[i] = IF i = 1 THEN s[i] ELSE t[i - 1] \o s[i]
  OBVIOUS
<1> HIDE DEF f
<1> QED BY <1>1, <1>2

LEMMA FlatExists ==
  ASSUME NEW s, NEW n \in Nat
  PROVE  \E t : Flat(t, s, n)
<1> DEFINE T == {m \in Nat : ~ \E t : Flat(t, s, m)}
<1> SUFFICES ASSUME T # {} PROVE FALSE
  OBVIOUS
<1>1. PICK m \in T : \A y \in T : m <= y
  BY LeastNat
<1>2. m # 0
  <2>1. Flat([i \in 1 .. 0 |-> <<>>], s, 0)
    BY DEF Flat
  <2> QED BY <1>1, <2>1
<1>3. m - 1 \in Nat /\ m - 1 \notin T
  BY <1>1, <1>2
<1>4. PICK t : Flat(t, s, m - 1)
  BY <1>3
<1> DEFINE u == [i \in 1 .. m |-> IF i < m THEN t[i]
                                  ELSE IF m = 1 THEN s[m] ELSE t[m - 1] \o s[m]]
<1>5. ASSUME NEW i \in 1 .. m
      PROVE  u[i] = IF i = 1 THEN s[i] ELSE u[i - 1] \o s[i]
  <2>1. i # 1 => u[i - 1] = t[i - 1]
    BY <1>3
  <2>2. CASE i = m
    BY <2>1, <2>2
  <2>3. CASE i # m
    <3>1. i \in 1 .. m - 1 /\ u[i] = t[i]
      BY <1>3, <2>3
    <3>2. t[i] = IF i = 1 THEN s[i] ELSE t[i - 1] \o s[i]
      BY <1>4, <3>1 DEF Flat
    <3> QED BY <2>1, <3>1, <3>2
  <2> QED BY <2>2, <2>3
<1>6. u = [i \in 1 .. m |-> u[i]]
  OBVIOUS
<1> HIDE DEF u
<1>7. Flat(u, s, m)
  BY <1>5, <1>6 DEF Flat
<1> QED BY <1>1, <1>7

(* Where two sequences agree their tables do. *)
LEMMA FlatAgree ==
  ASSUME NEW m \in Nat, NEW s, NEW r, NEW t, NEW u,
         Flat(t, s, m + 1), Flat(u, r, m), \A i \in 1 .. m : s[i] = r[i]
  PROVE  \A i \in 1 .. m : t[i] = u[i]
<1> DEFINE T == {i \in 1 .. m : t[i] # u[i]}
<1> SUFFICES ASSUME T # {} PROVE FALSE
  OBVIOUS
<1>1. PICK k \in T : \A y \in T : k <= y
  <2>1. T \in SUBSET Nat
    OBVIOUS
  <2> HIDE DEF T
  <2> QED BY <2>1, LeastNat
<1>2. /\ t[k] = IF k = 1 THEN s[k] ELSE t[k - 1] \o s[k]
      /\ u[k] = IF k = 1 THEN r[k] ELSE u[k - 1] \o r[k]
  <2>1. k \in 1 .. m /\ k \in 1 .. m + 1 /\ m + 1 \in Nat
    OBVIOUS
  <2> QED BY <2>1, FlatAt
<1>3. k # 1 => t[k - 1] = u[k - 1]
  BY <1>1
<1> QED BY <1>2, <1>3

Runes == {"b", "s"}
Bytes == {"b"}

LEMMA UnitsFacts ==
  ASSUME NEW r \in Runes
  PROVE  /\ unitsOf(r) \in Seq(Units) /\ Len(unitsOf(r)) \in 1 .. 2
         /\ r = "b" => unitsOf(r) = <<"b">>
         /\ r = "s" => unitsOf(r) = <<"hi", "lo">>
<1>1. /\ r = "b" => unitsOf(r) = <<"b">>
      /\ r = "s" => unitsOf(r) = <<"hi", "lo">>
  BY Zenon DEF unitsOf
<1>2. /\ <<"b">> \in Seq(Units) /\ Len(<<"b">>) = 1
      /\ <<"hi", "lo">> \in Seq(Units) /\ Len(<<"hi", "lo">>) = 2
  BY DEF Units
<1>3. 1 \in 1 .. 2 /\ 2 \in 1 .. 2
  OBVIOUS
<1>4. r = "b" \/ r = "s"
  BY DEF Runes
<1> QED BY <1>1, <1>2, <1>3, <1>4, Zenon

(* encode is determined by what it makes of the empty text and of one more *)
(* rune.                                                                   *)
LEMMA EncodeEmpty == encode(<<>>) = <<>>
<1>1. [i \in DOMAIN <<>> |-> unitsOf(<<>>[i])] = <<>>
  OBVIOUS
<1> QED BY <1>1 DEF encode, FlattenSeq

LEMMA EncodeAppend ==
  ASSUME NEW text \in Seq(Runes), NEW r \in Runes, encode(text) \in Seq(Units)
  PROVE  encode(Append(text, r)) = encode(text) \o unitsOf(r)
<1> DEFINE n    == Len(text)
           more == Append(text, r)
           s    == [i \in DOMAIN text |-> unitsOf(text[i])]
           s1   == [i \in DOMAIN more |-> unitsOf(more[i])]
<1>1. /\ n \in Nat /\ DOMAIN text = 1 .. n /\ DOMAIN more = 1 .. n + 1
      /\ \A i \in 1 .. n : more[i] = text[i] /\ text[i] \in Runes
      /\ more[n + 1] = r
  BY ElementOfSeq
<1>2. /\ s \in Seq(Seq(Units)) /\ Len(s) = n /\ s1 \in Seq(Seq(Units)) /\ Len(s1) = n + 1
      /\ s1[n + 1] = unitsOf(r) /\ \A i \in 1 .. n : s1[i] = s[i]
  <2>1. \A i \in 1 .. n : text[i] \in Runes /\ more[i] = text[i] /\ unitsOf(text[i]) \in Seq(Units)
    BY <1>1, UnitsFacts
  <2>2. unitsOf(r) \in Seq(Units)
    BY UnitsFacts
  <2>3. s = [i \in 1 .. n |-> unitsOf(text[i])] /\ s1 = [i \in 1 .. n + 1 |-> unitsOf(more[i])]
    BY <1>1
  <2>4. s \in Seq(Seq(Units)) /\ Len(s) = n
    BY <1>1, <2>1, <2>3
  <2>5. \A i \in 1 .. n + 1 : unitsOf(more[i]) \in Seq(Units)
    BY <1>1, <2>1, <2>2
  <2>6. s1 \in Seq(Seq(Units)) /\ Len(s1) = n + 1
    BY <1>1, <2>3, <2>5
  <2> QED BY <1>1, <2>1, <2>3, <2>4, <2>6
<1>3. encode(text) = FlattenSeq(s) /\ encode(more) = FlattenSeq(s1)
  BY DEF encode
<1> HIDE DEF n, more, s, s1
<1> DEFINE t1 == CHOOSE t : Flat(t, s1, n + 1)
<1>4. Flat(t1, s1, n + 1) /\ FlattenSeq(s1) = t1[n + 1]
  <2>1. \E t : Flat(t, s1, n + 1)
    BY <1>1, FlatExists
  <2>2. FlattenSeq(s1) = (CHOOSE t : Flat(t, s1, Len(s1)))[Len(s1)]
    BY <1>1, <1>2, FlattenIs
  <2> QED BY <1>2, <2>1, <2>2
<1> HIDE DEF t1
<1>5. t1[n + 1] = IF n + 1 = 1 THEN s1[n + 1] ELSE t1[n] \o s1[n + 1]
  <2>1. n + 1 \in Nat /\ n + 1 \in 1 .. n + 1 /\ (n + 1) - 1 = n
    BY <1>1
  <2>2. t1[n + 1] = IF n + 1 = 1 THEN s1[n + 1] ELSE t1[(n + 1) - 1] \o s1[n + 1]
    BY <1>4, <2>1, FlatAt
  <2> QED BY <2>1, <2>2
<1>6. CASE n = 0
  <2>1. text = <<>>
    BY <1>6 DEF n
  <2>2. unitsOf(r) \in Seq(Units)
    BY UnitsFacts
  <2> QED BY <1>2, <1>3, <1>4, <1>5, <1>6, <2>1, <2>2, EncodeEmpty DEF more
<1>7. CASE n # 0
  <2> DEFINE t0 == CHOOSE t : Flat(t, s, n)
  <2>1. Flat(t0, s, n) /\ FlattenSeq(s) = t0[n]
    <3>1. \E t : Flat(t, s, n)
      BY <1>1, FlatExists
    <3>2. FlattenSeq(s) = (CHOOSE t : Flat(t, s, Len(s)))[Len(s)]
      BY <1>1, <1>2, <1>7, FlattenIs
    <3> QED BY <1>2, <3>1, <3>2
  <2> HIDE DEF t0
  <2>2. \A i \in 1 .. n : t1[i] = t0[i]
    <3>1. n \in Nat /\ \A i \in 1 .. n : s1[i] = s[i]
      BY <1>1, <1>2
    <3>2. Flat(t1, s1, n + 1) /\ Flat(t0, s, n)
      BY <1>4, <2>1
    <3> QED BY <3>1, <3>2, FlatAgree
  <2>3. t1[n] = encode(text)
    BY <1>1, <1>3, <1>7, <2>1, <2>2
  <2> QED BY <1>1, <1>2, <1>3, <1>4, <1>5, <1>7, <2>3 DEF more
<1> QED BY <1>6, <1>7

(* A text that is not empty is a shorter one and a last rune. *)
LEMMA LastRune ==
  ASSUME NEW S, NEW text \in Seq(S), NEW m \in Nat, m # 0, Len(text) = m
  PROVE  \E init \in Seq(S), r \in S : text = Append(init, r) /\ Len(init) = m - 1
<1> DEFINE init == SubSeq(text, 1, m - 1)
<1>1. m - 1 \in 0 .. Len(text) /\ m \in 1 .. Len(text)
  OBVIOUS
<1>2. init \in Seq(S) /\ Len(init) = m - 1
  BY <1>1
<1>3. text[m] \in S
  BY <1>1, ElementOfSeq
<1>4. text = Append(init, text[m])
  BY <1>1, <1>2, <1>3
<1> QED BY <1>2, <1>3, <1>4

LEMMA EncodeType ==
  ASSUME NEW text \in Seq(Runes)
  PROVE  encode(text) \in Seq(Units)
<1> DEFINE Off(m) == \E x \in Seq(Runes) : Len(x) = m /\ encode(x) \notin Seq(Units)
           T == {m \in Nat : Off(m)}
<1> SUFFICES ASSUME T # {} PROVE FALSE
  <2>1. Len(text) \in Nat
    OBVIOUS
  <2> QED BY <2>1
<1>1. PICK m \in T : \A y \in T : m <= y
  <2>1. T \in SUBSET Nat
    OBVIOUS
  <2> HIDE DEF T
  <2> QED BY <2>1, LeastNat
<1>2. PICK x \in Seq(Runes) : Len(x) = m /\ encode(x) \notin Seq(Units)
  BY <1>1
<1>3. m # 0
  <2> SUFFICES ASSUME m = 0 PROVE FALSE
    OBVIOUS
  <2>1. x = <<>>
    BY <1>2
  <2>2. <<>> \in Seq(Units)
    OBVIOUS
  <2> QED BY <1>2, <2>1, <2>2, EncodeEmpty, Zenon
<1>4. PICK init \in Seq(Runes), r \in Runes : x = Append(init, r) /\ Len(init) = m - 1
  <2>1. m \in Nat
    BY <1>1
  <2> HIDE DEF T
  <2> QED BY <1>2, <1>3, <2>1, LastRune
<1>5. encode(init) \in Seq(Units)
  <2>1. m - 1 \in Nat /\ m - 1 \notin T
    BY <1>1, <1>3
  <2> QED BY <1>4, <2>1
<1> HIDE DEF T
<1>6. encode(x) = encode(init) \o unitsOf(r)
  BY <1>4, <1>5, EncodeAppend
<1>7. unitsOf(r) \in Seq(Units)
  BY UnitsFacts
<1>8. encode(init) \o unitsOf(r) \in Seq(Units)
  BY <1>5, <1>7
<1> QED BY <1>2, <1>6, <1>8, Zenon

LEMMA EncodeConcat ==
  ASSUME NEW s \in Seq(Runes), NEW t \in Seq(Runes)
  PROVE  encode(s \o t) = encode(s) \o encode(t)
<1> DEFINE T == {m \in Nat : \E x \in Seq(Runes) :
                    Len(x) = m /\ encode(s \o x) # encode(s) \o encode(x)}
<1> SUFFICES ASSUME T # {} PROVE FALSE
  <2>1. Len(t) \in Nat
    OBVIOUS
  <2> QED BY <2>1
<1>1. PICK m \in T : \A y \in T : m <= y
  <2>1. T \in SUBSET Nat
    OBVIOUS
  <2> HIDE DEF T
  <2> QED BY <2>1, LeastNat
<1>2. PICK x \in Seq(Runes) : Len(x) = m /\ encode(s \o x) # encode(s) \o encode(x)
  BY <1>1
<1>0. encode(s) \in Seq(Units)
  BY EncodeType
<1>3. m # 0
  <2> SUFFICES ASSUME m = 0 PROVE FALSE
    OBVIOUS
  <2>1. x = <<>>
    BY <1>2
  <2>2. s \o <<>> = s
    OBVIOUS
  <2>3. encode(s) \o <<>> = encode(s)
    BY <1>0
  <2> QED BY <1>2, <2>1, <2>2, <2>3, EncodeEmpty, Zenon
<1>4. PICK init \in Seq(Runes), r \in Runes : x = Append(init, r) /\ Len(init) = m - 1
  <2>1. m \in Nat
    BY <1>1
  <2> HIDE DEF T
  <2> QED BY <1>2, <1>3, <2>1, LastRune
<1>5. encode(s \o init) = encode(s) \o encode(init)
  <2>1. m - 1 \in Nat /\ m - 1 \notin T
    <3>1. m \in Nat
      BY <1>1
    <3> HIDE DEF T
    <3> QED BY <1>1, <1>3, <3>1
  <2> QED BY <1>4, <2>1
<1> HIDE DEF T
<1>6. encode(init) \in Seq(Units) /\ unitsOf(r) \in Seq(Units)
  BY EncodeType, UnitsFacts
<1>7. encode(x) = encode(init) \o unitsOf(r)
  BY <1>4, <1>6, EncodeAppend
<1>8. s \o init \in Seq(Runes) /\ s \o x = Append(s \o init, r)
  BY <1>4
<1>9. encode(s \o x) = encode(s \o init) \o unitsOf(r)
  <2>1. encode(s \o init) \in Seq(Units)
    BY <1>8, EncodeType
  <2>2. encode(Append(s \o init, r)) = encode(s \o init) \o unitsOf(r)
    BY <1>8, <2>1, EncodeAppend
  <2> QED BY <1>8, <2>2, Zenon
<1>10. (encode(s) \o encode(init)) \o unitsOf(r) = encode(s) \o (encode(init) \o unitsOf(r))
  BY <1>0, <1>6
<1> QED BY <1>2, <1>5, <1>7, <1>9, <1>10, Zenon

(* Bytes are their own encoding. *)
LEMMA EncodeBytes ==
  ASSUME NEW text \in Seq(Bytes)
  PROVE  encode(text) = text
<1> DEFINE T == {m \in Nat : \E x \in Seq(Bytes) : Len(x) = m /\ encode(x) # x}
<1> SUFFICES ASSUME T # {} PROVE FALSE
  <2>1. Len(text) \in Nat
    OBVIOUS
  <2> QED BY <2>1
<1>1. PICK m \in T : \A y \in T : m <= y
  <2>1. T \in SUBSET Nat
    OBVIOUS
  <2> HIDE DEF T
  <2> QED BY <2>1, LeastNat
<1>2. PICK x \in Seq(Bytes) : Len(x) = m /\ encode(x) # x
  BY <1>1
<1>3. m # 0
  <2> SUFFICES ASSUME m = 0 PROVE FALSE
    OBVIOUS
  <2>1. x = <<>>
    BY <1>2
  <2> QED BY <1>2, <2>1, EncodeEmpty, Zenon
<1>4. PICK init \in Seq(Bytes), r \in Bytes : x = Append(init, r) /\ Len(init) = m - 1
  <2>1. m \in Nat
    BY <1>1
  <2> HIDE DEF T
  <2> QED BY <1>2, <1>3, <2>1, LastRune
<1>5. encode(init) = init
  <2>1. m - 1 \in Nat /\ m - 1 \notin T
    BY <1>1, <1>3
  <2> QED BY <1>4, <2>1
<1> HIDE DEF T
<1>6. init \in Seq(Runes) /\ r \in Runes /\ r = "b"
  BY DEF Runes, Bytes
<1>7. encode(init) \in Seq(Units)
  BY <1>6, EncodeType
<1>8. encode(x) = init \o unitsOf(r)
  BY <1>4, <1>5, <1>6, <1>7, EncodeAppend
<1>9. unitsOf(r) = <<r>>
  BY <1>6, UnitsFacts
<1>10. init \o <<r>> = Append(init, r)
  OBVIOUS
<1> QED BY <1>2, <1>4, <1>8, <1>9, <1>10, Zenon

-----------------------------------------------------------------------------
(***************************************************************************)
(* What the frames of a transmission leave on the server.                  *)
(***************************************************************************)

(* A table of the LOBs that the first n frames of s leave. *)
Kept(t, s, n) == t = [k \in 0 .. n |-> IF k = 0 THEN <<>> ELSE applyFrame(t[k - 1], s[k])]

LEMMA StoredIs ==
  ASSUME NEW s
  PROVE  stored(s) = (CHOOSE t : Kept(t, s, Len(s)))[Len(s)]
BY DEF stored, Kept

LEMMA KeptAt ==
  ASSUME NEW t, NEW s, NEW n \in Nat, Kept(t, s, n), NEW k \in 0 .. n
  PROVE  t[k] = IF k = 0 THEN <<>> ELSE applyFrame(t[k - 1], s[k])
<1> DEFINE f == [j \in 0 .. n |-> IF j = 0 THEN <<>> ELSE applyFrame(t[j - 1], s[j])]
<1>1. t = f
  BY DEF Kept
<1>2. f[k] = IF k = 0 THEN <<>> ELSE applyFrame(t[k - 1], s[k])
  OBVIOUS
<1> HIDE DEF f
<1> QED BY <1>1, <1>2

LEMMA KeptExists ==
  ASSUME NEW s, NEW n \in Nat
  PROVE  \E t : Kept(t, s, n)
<1> DEFINE T == {m \in Nat : ~ \E t : Kept(t, s, m)}
<1> SUFFICES ASSUME T # {} PROVE FALSE
  OBVIOUS
<1>1. PICK m \in T : \A y \in T : m <= y
  BY LeastNat
<1>2. m # 0
  <2>1. Kept([k \in 0 .. 0 |-> <<>>], s, 0)
    BY DEF Kept
  <2> QED BY <1>1, <2>1
<1>3. m - 1 \in Nat /\ m - 1 \notin T
  BY <1>1, <1>2
<1>4. PICK t : Kept(t, s, m - 1)
  BY <1>3
<1> DEFINE u == [k \in 0 .. m |-> IF k < m THEN t[k] ELSE applyFrame(t[m - 1], s[m])]
<1>5. ASSUME NEW k \in 0 .. m
      PROVE  u[k] = IF k = 0 THEN <<>> ELSE applyFrame(u[k - 1], s[k])
  <2>1. k # 0 => u[k - 1] = t[k - 1]
    BY <1>3
  <2>2. CASE k = m
    BY <1>2, <2>1, <2>2
  <2>3. CASE k # m
    <3>1. k \in 0 .. m - 1 /\ u[k] = t[k]
      BY <1>3, <2>3
    <3>2. t[k] = IF k = 0 THEN <<>> ELSE applyFrame(t[k - 1], s[k])
      BY <1>3, <1>4, <3>1, KeptAt
    <3> QED BY <2>1, <3>1, <3>2
  <2> QED BY <2>2, <2>3
<1>6. u = [k \in 0 .. m |-> u[k]]
  OBVIOUS
<1> HIDE DEF u
<1>7. Kept(u, s, m)
  BY <1>5, <1>6 DEF Kept
<1> QED BY <1>1, <1>7

LEMMA KeptAgree ==
  ASSUME NEW m \in Nat, NEW s, NEW r, NEW t, NEW u,
         Kept(t, s, m + 1), Kept(u, r, m), \A i \in 1 .. m : s[i] = r[i]
  PROVE  \A k \in 0 .. m : t[k] = u[k]
<1> DEFINE T == {k \in 0 .. m : t[k] # u[k]}
<1> SUFFICES ASSUME T # {} PROVE FALSE
  OBVIOUS
<1>1. PICK k \in T : \A y \in T : k <= y
  <2>1. T \in SUBSET Nat
    OBVIOUS
  <2> HIDE DEF T
  <2> QED BY <2>1, LeastNat
<1>2. /\ t[k] = IF k = 0 THEN <<>> ELSE applyFrame(t[k - 1], s[k])
      /\ u[k] = IF k = 0 THEN <<>> ELSE applyFrame(u[k - 1], r[k])
  <2>1. k \in 0 .. m /\ k \in 0 .. m + 1 /\ m + 1 \in Nat
    OBVIOUS
  <2> QED BY <2>1, KeptAt
<1>3. k # 0 => t[k - 1] = u[k - 1] /\ s[k] = r[k]
  BY <1>1
<1> QED BY <1>1, <1>2, <1>3

LEMMA StoredEmpty == stored(<<>>) = <<>>
<1> DEFINE t == CHOOSE t : Kept(t, <<>>, 0)
<1>1. Kept(t, <<>>, 0)
  BY KeptExists
<1> HIDE DEF t
<1>2. t[0] = <<>>
  BY <1>1, KeptAt
<1>3. stored(<<>>) = t[0]
  <2>1. Len(<<>>) = 0
    OBVIOUS
  <2> QED BY <2>1, StoredIs DEF t
<1> QED BY <1>2, <1>3

LEMMA StoredAppend ==
  ASSUME NEW S, NEW fs \in Seq(S), NEW f \in S
  PROVE  stored(Append(fs, f)) = applyFrame(stored(fs), f)
<1> DEFINE n    == Len(fs)
           more == Append(fs, f)
           t0   == CHOOSE t : Kept(t, fs, n)
           t1   == CHOOSE t : Kept(t, more, n + 1)
<1>1. /\ n \in Nat /\ Len(more) = n + 1
      /\ more[n + 1] = f /\ \A i \in 1 .. n : more[i] = fs[i]
  OBVIOUS
<1> HIDE DEF n, more
<1>2. Kept(t0, fs, n) /\ stored(fs) = t0[n]
  <2>1. \E t : Kept(t, fs, n)
    BY <1>1, KeptExists
  <2>2. Kept(t0, fs, n)
    BY <2>1
  <2>3. stored(fs) = (CHOOSE t : Kept(t, fs, Len(fs)))[Len(fs)]
    BY StoredIs
  <2> QED BY <2>2, <2>3 DEF n
<1>3. Kept(t1, more, n + 1) /\ stored(more) = t1[n + 1]
  <2>1. \E t : Kept(t, more, n + 1)
    BY <1>1, KeptExists, SMTT(30)
  <2>2. Kept(t1, more, n + 1)
    BY <2>1
  <2>3. stored(more) = (CHOOSE t : Kept(t, more, Len(more)))[Len(more)]
    BY StoredIs
  <2> QED BY <1>1, <2>2, <2>3
<1> HIDE DEF t0, t1
<1>4. \A k \in 0 .. n : t1[k] = t0[k]
  <2>1. n \in Nat /\ \A i \in 1 .. n : more[i] = fs[i]
    BY <1>1
  <2>2. Kept(t1, more, n + 1) /\ Kept(t0, fs, n)
    BY <1>2, <1>3
  <2> QED BY <2>1, <2>2, KeptAgree
<1>5. t1[n + 1] = applyFrame(t1[n], more[n + 1])
  <2>1. n + 1 \in Nat /\ n + 1 \in 0 .. n + 1 /\ (n + 1) - 1 = n /\ n + 1 # 0
    BY <1>1
  <2>2. t1[n + 1] = IF n + 1 = 0 THEN <<>> ELSE applyFrame(t1[(n + 1) - 1], more[n + 1])
    BY <1>3, <2>1, KeptAt
  <2> QED BY <2>1, <2>2
<1>6. n \in 0 .. n
  BY <1>1
<1>7. t1[n + 1] = applyFrame(t0[n], f)
  BY <1>1, <1>4, <1>5, <1>6
<1> QED BY <1>2, <1>3, <1>7 DEF more

(* A SET at the end of the LOB appends. *)
LEMMA SetAppends ==
  ASSUME NEW lob \in Seq(Units), NEW data \in Seq(Units)
  PROVE  applyFrame(lob, frame("set", Len(lob), data)) = lob \o data
<1> DEFINE n == Len(lob)
           f == frame("set", n, data)
<1>1. f.op = "set" /\ f.off = n /\ f.data = data
  BY DEF frame
<1>2. n \in Nat /\ Len(data) \in Nat
  OBVIOUS
<1> HIDE DEF f
<1> DEFINE size == IF f.off + Len(f.data) > Len(lob) THEN f.off + Len(f.data) ELSE Len(lob)
<1>3. size = n + Len(data)
  BY <1>1, <1>2
<1>4. applyFrame(lob, f) =
        [i \in 1 .. size |-> IF i \in f.off + 1 .. f.off + Len(f.data) THEN f.data[i - f.off]
                             ELSE IF i <= Len(lob) THEN lob[i] ELSE "gap"]
  BY <1>1 DEF applyFrame
<1>5. applyFrame(lob, f) =
        [i \in 1 .. n + Len(data) |-> IF i \in n + 1 .. n + Len(data) THEN data[i - n]
                                      ELSE IF i <= n THEN lob[i] ELSE "gap"]
  BY <1>1, <1>3, <1>4
<1>6. ASSUME NEW i \in 1 .. n + Len(data)
      PROVE  (IF i \in n + 1 .. n + Len(data) THEN data[i - n]
              ELSE IF i <= n THEN lob[i] ELSE "gap") = (lob \o data)[i]
  BY <1>2, <1>6
<1>7. lob \o data = [i \in 1 .. n + Len(data) |-> (lob \o data)[i]]
  BY ConcatProperties, LenProperties
<1> QED BY <1>5, <1>6, <1>7 DEF f

LEMMA CreateStarts ==
  ASSUME NEW lob, NEW data, NEW at
  PROVE  applyFrame(lob, frame("create", at, data)) = data
BY DEF applyFrame, frame

-----------------------------------------------------------------------------
(***************************************************************************)
(* utf16.Decode.                                                           *)
(***************************************************************************)

(* A table of what the units from j on are decoded to. *)
Round(t, u, n, i) ==
  IF i > n THEN <<>>
  ELSE IF u[i] = "b" THEN <<"b">> \o t[i + 1]
  ELSE IF u[i] = "hi" /\ i < n /\ u[i + 1] = "lo" THEN <<"s">> \o t[i + 2]
  ELSE <<"?">> \o t[i + 1]
Decoded(t, u, n, j) == t = [i \in j .. n + 2 |-> Round(t, u, n, i)]

LEMMA DecodeIs ==
  ASSUME NEW u
  PROVE  decode(u) = (CHOOSE t : Decoded(t, u, Len(u), 1))[1]
BY DEF decode, Decoded, Round

LEMMA DecodedAt ==
  ASSUME NEW t, NEW u, NEW n, NEW j, Decoded(t, u, n, j), NEW i \in j .. n + 2
  PROVE  t[i] = Round(t, u, n, i)
<1> DEFINE f == [k \in j .. n + 2 |-> Round(t, u, n, k)]
<1>1. t = f
  BY DEF Decoded
<1>2. f[i] = Round(t, u, n, i)
  OBVIOUS
<1> HIDE DEF f
<1> QED BY <1>1, <1>2

LEMMA DecodedExists ==
  ASSUME NEW u, NEW n \in Nat
  PROVE  \E t : Decoded(t, u, n, 1)
<1> DEFINE T == {k \in 0 .. n : ~ \E t : Decoded(t, u, n, n + 1 - k)}
<1>0. T = {} => \E t : Decoded(t, u, n, 1)
  <2>1. n \in 0 .. n /\ n + 1 - n = 1
    OBVIOUS
  <2> QED BY <2>1
<1> SUFFICES ASSUME T # {} PROVE FALSE
  BY <1>0
<1>1. PICK m \in T : \A y \in T : m <= y
  <2>1. T \in SUBSET Nat
    OBVIOUS
  <2> HIDE DEF T
  <2> QED BY <2>1, LeastNat
<1>2. m # 0
  <2> DEFINE t == [i \in n + 1 .. n + 2 |-> <<>>]
  <2>1. \A i \in n + 1 .. n + 2 : Round(t, u, n, i) = <<>>
    BY DEF Round
  <2>2. t = [i \in n + 1 .. n + 2 |-> Round(t, u, n, i)]
    BY <2>1
  <2>3. Decoded(t, u, n, n + 1)
    BY <2>2, Zenon DEF Decoded
  <2>4. n + 1 - 0 = n + 1
    OBVIOUS
  <2> QED BY <1>1, <2>3, <2>4
<1>3. m \in 1 .. n /\ m - 1 \in 0 .. n /\ m - 1 \notin T
  BY <1>1, <1>2
<1> DEFINE j == n + 1 - m
<1>4. j \in 1 .. n /\ n + 1 - (m - 1) = j + 1
  BY <1>3
<1>5. PICK t : Decoded(t, u, n, j + 1)
  BY <1>3, <1>4
<1>6. ~ \E x : Decoded(x, u, n, j)
  BY <1>1
<1> HIDE DEF j, T
<1> DEFINE x == [i \in j .. n + 2 |-> IF i = j THEN Round(t, u, n, j) ELSE t[i]]
<1>7. ASSUME NEW i \in j .. n + 2
      PROVE  x[i] = Round(x, u, n, i)
  <2>1. i <= n => x[i + 1] = t[i + 1] /\ x[i + 2] = t[i + 2]
    BY <1>4
  <2>2. Round(x, u, n, i) = Round(t, u, n, i)
    BY <1>4, <2>1 DEF Round
  <2>3. CASE i = j
    BY <2>2, <2>3
  <2>4. CASE i # j
    <3>1. i \in j + 1 .. n + 2 /\ x[i] = t[i]
      BY <1>4, <2>4
    <3>2. t[i] = Round(t, u, n, i)
      BY <1>5, <3>1, DecodedAt
    <3> QED BY <2>2, <3>1, <3>2
  <2> QED BY <2>3, <2>4
<1>8. x = [i \in j .. n + 2 |-> x[i]]
  OBVIOUS
<1> HIDE DEF x
<1>9. Decoded(x, u, n, j)
  BY <1>7, <1>8 DEF Decoded
<1> QED BY <1>6, <1>9

(* decode reads its table at the first unit. *)
LEMMA DecodeTable ==
  ASSUME NEW u \in Seq(Units)
  PROVE  \E t : Decoded(t, u, Len(u), 1) /\ decode(u) = t[1]
<1> DEFINE n == Len(u)
           d == CHOOSE t : Decoded(t, u, n, 1)
<1>1. n \in Nat
  OBVIOUS
<1>2. decode(u) = d[1]
  BY DecodeIs
<1> HIDE DEF n
<1>3. Decoded(d, u, n, 1)
  BY <1>1, DecodedExists
<1> HIDE DEF d
<1> QED BY <1>2, <1>3 DEF n

Chars == {"b", "s", "?"}

LEMMA DecodeType ==
  ASSUME NEW u \in Seq(Units)
  PROVE  decode(u) \in Seq(Chars)
<1> DEFINE n == Len(u)
<1>0. n \in Nat
  OBVIOUS
<1>1. PICK d : Decoded(d, u, n, 1) /\ decode(u) = d[1]
  BY DecodeTable
<1> HIDE DEF n
<1> DEFINE T == {k \in 0 .. n + 1 : d[n + 2 - k] \notin Seq(Chars)}
<1>2. T = {}
  <2> SUFFICES ASSUME T # {} PROVE FALSE
    OBVIOUS
  <2>1. PICK m \in T : \A y \in T : m <= y
    <3>1. T \in SUBSET Nat
      BY <1>0
    <3> HIDE DEF T
    <3> QED BY <3>1, LeastNat
  <2> DEFINE i == n + 2 - m
  <2>2. m \in 0 .. n + 1 /\ i \in 1 .. n + 2 /\ d[i] \notin Seq(Chars)
    BY <1>0, <2>1
  <2>3. i <= n => d[i + 1] \in Seq(Chars) /\ d[i + 2] \in Seq(Chars)
    <3> SUFFICES ASSUME i <= n PROVE d[i + 1] \in Seq(Chars) /\ d[i + 2] \in Seq(Chars)
      OBVIOUS
    <3>0. m - 1 \in 0 .. n + 1 /\ m - 2 \in 0 .. n + 1
      BY <1>0, <2>2
    <3>1. m - 1 \in 0 .. n + 1 /\ m - 2 \in 0 .. n + 1 /\ m - 1 \notin T /\ m - 2 \notin T
      <4> HIDE DEF T
      <4>1. ~(m <= m - 1) /\ ~(m <= m - 2)
        BY <2>2
      <4> QED BY <2>1, <3>0, <4>1
    <3>2. n + 2 - (m - 1) = i + 1 /\ n + 2 - (m - 2) = i + 2
      BY <1>0, <2>2
    <3> QED BY <3>1, <3>2
  <2> HIDE DEF i, T
  <2>4. d[i] = Round(d, u, n, i)
    BY <1>0, <1>1, <2>2, DecodedAt
  <2>5. <<"b">> \in Seq(Chars) /\ <<"s">> \in Seq(Chars) /\ <<"?">> \in Seq(Chars)
        /\ <<>> \in Seq(Chars)
    BY DEF Chars
  <2>6. \A x \in Seq(Chars), y \in Seq(Chars) : x \o y \in Seq(Chars)
    BY ConcatProperties
  <2>7. CASE i > n
    BY <2>2, <2>4, <2>5, <2>7 DEF Round
  <2>8. CASE ~(i > n)
    <3>1. d[i + 1] \in Seq(Chars) /\ d[i + 2] \in Seq(Chars)
      BY <1>0, <2>2, <2>3, <2>8
    <3>2. d[i] \in {<<"b">> \o d[i + 1], <<"s">> \o d[i + 2], <<"?">> \o d[i + 1]}
      BY <2>4, <2>8 DEF Round
    <3> QED BY <2>2, <2>5, <2>6, <3>1, <3>2
  <2> QED BY <2>7, <2>8
<1>3. n + 1 \in 0 .. n + 1 /\ n + 2 - (n + 1) = 1
  BY <1>0
<1> QED BY <1>1, <1>2, <1>3

LEMMA SplitText ==
  ASSUME NEW S, NEW text \in Seq(S), NEW k \in 0 .. Len(text)
  PROVE  text = SubSeq(text, 1, k) \o SubSeq(text, k + 1, Len(text))
<1>1. 1 \in 1 .. Len(text) + 1 /\ k \in 1 - 1 .. Len(text) /\ Len(text) \in k .. Len(text)
  OBVIOUS
<1>2. SubSeq(text, 1, k) \o SubSeq(text, k + 1, Len(text)) = SubSeq(text, 1, Len(text))
  BY <1>1, ConcatAdjacentSubSeq
<1> QED BY <1>2, SubSeqFull

LEMMA MiddlePart ==
  ASSUME NEW e \in Seq(Units), NEW v \in Seq(Units), NEW w \in Seq(Units)
  PROVE  /\ Len((e \o v) \o w) = Len(e) + Len(v) + Len(w)
         /\ Len(e \o v) = Len(e) + Len(v)
         /\ \A i \in 1 .. Len(v) : ((e \o v) \o w)[Len(e) + i] = v[i]
<1>1. /\ e \o v \in Seq(Units) /\ Len(e \o v) = Len(e) + Len(v)
      /\ \A i \in 1 .. Len(v) : (e \o v)[Len(e) + i] = v[i]
  OBVIOUS
<1> DEFINE x == e \o v
<1> HIDE DEF x
<1>2. x \in Seq(Units) /\ Len(x) = Len(e) + Len(v)
  BY <1>1 DEF x
<1>3. Len(x \o w) = Len(x) + Len(w) /\ \A i \in 1 .. Len(x) : (x \o w)[i] = x[i]
  <2>1. x \in Seq(Units) /\ Len(x) \in Nat /\ Len(w) \in Nat
    BY <1>2
  <2>2. /\ Len(x \o w) = Len(x) + Len(w)
        /\ \A i \in 1 .. Len(x) + Len(w) : (x \o w)[i] = IF i <= Len(x) THEN x[i] ELSE w[i - Len(x)]
    BY <2>1, ConcatProperties
  <2> QED BY <2>1, <2>2
<1>4. \A i \in 1 .. Len(v) : Len(e) + i \in 1 .. Len(x)
  BY <1>2
<1>5. \A i \in 1 .. Len(v) : (x \o w)[Len(e) + i] = v[i]
  BY <1>1, <1>3, <1>4 DEF x
<1> QED BY <1>1, <1>2, <1>3, <1>5 DEF x

(* Decoding what was encoded gives the text back. *)
LEMMA DecodeEncode ==
  ASSUME NEW text \in Seq(Runes)
  PROVE  decode(encode(text)) = text
<1> DEFINE u == encode(text)
           n == Len(u)
           L == Len(text)
           pre(k) == SubSeq(text, 1, k)
           at(k) == Len(encode(pre(k))) + 1
           rest(k) == SubSeq(text, k + 1, L)
<1>1. L \in Nat /\ u \in Seq(Units) /\ n \in Nat
  BY EncodeType
<1>2. PICK d : Decoded(d, u, n, 1) /\ decode(u) = d[1]
  BY <1>1, DecodeTable
<1>3. ASSUME NEW k \in 0 .. L
      PROVE  /\ pre(k) \in Seq(Runes) /\ rest(k) \in Seq(Runes) /\ text = pre(k) \o rest(k)
             /\ encode(pre(k)) \in Seq(Units) /\ encode(rest(k)) \in Seq(Units)
             /\ u = encode(pre(k)) \o encode(rest(k))
  <2>1. pre(k) \in Seq(Runes) /\ rest(k) \in Seq(Runes)
    BY <1>1
  <2>2. text = pre(k) \o rest(k)
    BY SplitText
  <2>3. encode(pre(k)) \in Seq(Units) /\ encode(rest(k)) \in Seq(Units)
    BY <2>1, EncodeType
  <2>4. encode(pre(k) \o rest(k)) = encode(pre(k)) \o encode(rest(k))
    BY <2>1, EncodeConcat
  <2> QED BY <2>1, <2>2, <2>3, <2>4
<1>4. pre(0) = <<>> /\ pre(L) = text /\ rest(L) = <<>> /\ rest(0) = text
  BY <1>1
<1>5. ASSUME NEW k \in 0 .. L - 1
      PROVE  LET r == text[k + 1]
                 v == unitsOf(r)
             IN  /\ r \in Runes /\ v \in Seq(Units)
                 /\ at(k + 1) = at(k) + Len(v) /\ at(k + 1) <= n + 1 /\ at(k) \in 1 .. n
                 /\ \A i \in 1 .. Len(v) : u[at(k) + i - 1] = v[i]
                 /\ rest(k) = <<r>> \o rest(k + 1)
  <2> DEFINE r == text[k + 1]
             v == unitsOf(r)
             e == encode(pre(k))
             w == encode(rest(k + 1))
  <2>0. k \in 0 .. L /\ k + 1 \in 0 .. L /\ k + 1 \in 1 .. L
    BY <1>1
  <2>1. r \in Runes
    BY <2>0, ElementOfSeq
  <2>2. v \in Seq(Units) /\ Len(v) \in 1 .. 2
    BY <2>1, UnitsFacts
  <2>3. pre(k + 1) = Append(pre(k), r)
    BY <1>1, <2>0, <2>1
  <2>4. e \in Seq(Units) /\ pre(k) \in Seq(Runes)
    BY <1>3, <2>0
  <2>5. encode(pre(k + 1)) = e \o v
    <3>1. encode(Append(pre(k), r)) = e \o v
      BY <2>1, <2>4, EncodeAppend
    <3> QED BY <2>3, <3>1
  <2>6. w \in Seq(Units) /\ u = encode(pre(k + 1)) \o w
    BY <1>3, <2>0
  <2>7. rest(k) = <<r>> \o rest(k + 1)
    <3>1. L \in k + 1 .. L
      BY <1>1
    <3> QED BY <2>0, <3>1, SubSeqRecursiveFirst
  <2>8. u = (e \o v) \o w
    BY <2>5, <2>6
  <2>9. at(k) = Len(e) + 1 /\ at(k + 1) = Len(e \o v) + 1
    BY <2>5
  <2> HIDE DEF u, n, pre, at, rest, e, v, w, r, L
  <2>10. /\ Len(u) = Len(e) + Len(v) + Len(w) /\ Len(e \o v) = Len(e) + Len(v)
         /\ \A i \in 1 .. Len(v) : u[Len(e) + i] = v[i]
    <3>1. /\ Len((e \o v) \o w) = Len(e) + Len(v) + Len(w) /\ Len(e \o v) = Len(e) + Len(v)
          /\ \A i \in 1 .. Len(v) : ((e \o v) \o w)[Len(e) + i] = v[i]
      BY <2>2, <2>4, <2>6, MiddlePart
    <3> QED BY <2>8, <3>1, Zenon
  <2>11. \A i \in 1 .. Len(v) : u[Len(e) + i] = v[i]
    BY <2>10
  <2>12. at(k + 1) = at(k) + Len(v) /\ at(k + 1) <= n + 1 /\ at(k) \in 1 .. n
    <3>1. Len(e) \in Nat /\ Len(v) \in 1 .. 2 /\ Len(w) \in Nat
      BY <2>2, <2>4, <2>6
    <3>2. n = Len(e) + Len(v) + Len(w) /\ at(k) = Len(e) + 1 /\ at(k + 1) = Len(e) + Len(v) + 1
      BY <2>9, <2>10 DEF n
    <3>3. \A a \in Nat, b \in 1 .. 2, c \in Nat :
            /\ a + b + 1 = (a + 1) + b /\ a + b + 1 <= a + b + c + 1
            /\ a + 1 \in 1 .. a + b + c
      OBVIOUS
    <3> QED BY <3>1, <3>2, <3>3
  <2>13. \A i \in 1 .. Len(v) : u[at(k) + i - 1] = v[i]
    <3>1. ASSUME NEW i \in 1 .. Len(v) PROVE at(k) + i - 1 = Len(e) + i
      BY <2>2, <2>4, <2>9
    <3> QED BY <2>11, <3>1
  <2> QED BY <2>1, <2>2, <2>7, <2>12, <2>13 DEF r, v
<1> DEFINE T == {j \in 0 .. L : d[at(L - j)] # rest(L - j)}
<1>6. T = {}
  <2> SUFFICES ASSUME T # {} PROVE FALSE
    OBVIOUS
  <2>1. PICK m \in T : \A y \in T : m <= y
    <3>1. T \in SUBSET Nat
      BY <1>1
    <3> HIDE DEF T
    <3> QED BY <3>1, LeastNat
  <2> DEFINE k == L - m
  <2>2. m \in 0 .. L /\ k \in 0 .. L /\ d[at(k)] # rest(k)
    <3> HIDE DEF u, n, at, rest, L, pre
    <3> QED BY <1>1, <2>1
  <2>3. m # 0
    <3> SUFFICES ASSUME m = 0 PROVE FALSE
      OBVIOUS
    <3>1. k = L
      BY <1>1
    <3>2. at(L) = n + 1
      BY <1>4
    <3>3. n + 1 \in 1 .. n + 2 /\ n + 1 > n
      BY <1>1
    <3> HIDE DEF u, n, at, rest, L, pre, k, T
    <3>4. d[n + 1] = Round(d, u, n, n + 1)
      BY <1>2, <3>3, DecodedAt
    <3>5. Round(d, u, n, n + 1) = <<>>
      BY <3>3 DEF Round
    <3> QED BY <1>4, <2>2, <3>1, <3>2, <3>4, <3>5
  <2>4. m - 1 \in 0 .. L /\ m - 1 \notin T /\ k \in 0 .. L - 1 /\ L - (m - 1) = k + 1
    <3>1. m - 1 \in 0 .. L /\ k \in 0 .. L - 1 /\ L - (m - 1) = k + 1 /\ ~(m <= m - 1)
      BY <1>1, <2>2, <2>3
    <3> HIDE DEF T
    <3> QED BY <2>1, <3>1
  <2>5. d[at(k + 1)] = rest(k + 1)
    BY <2>4
  <2> HIDE DEF u, n, at, rest, L, pre, k, T
  <2> DEFINE r == text[k + 1]
             v == unitsOf(r)
             i == at(k)
  <2>6. /\ r \in Runes /\ v \in Seq(Units)
        /\ at(k + 1) = i + Len(v) /\ at(k + 1) <= n + 1 /\ i \in 1 .. n
        /\ \A x \in 1 .. Len(v) : u[i + x - 1] = v[x]
        /\ rest(k) = <<r>> \o rest(k + 1)
    BY <1>5, <2>4
  <2>7. d[i] = Round(d, u, n, i)
    <3>1. i \in 1 .. n + 2
      BY <1>1, <2>6
    <3> QED BY <1>2, <3>1, DecodedAt
  <2> HIDE DEF r, v, i
  <2>8. CASE r = "b"
    <3>1. v = <<"b">>
      BY <2>6, <2>8, UnitsFacts DEF v
    <3>2. Len(v) = 1 /\ v[1] = "b"
      BY <3>1
    <3>3. u[i] = "b" /\ at(k + 1) = i + 1
      BY <2>6, <3>2
    <3>4. d[i] = <<"b">> \o d[i + 1]
      BY <1>1, <2>6, <2>7, <3>3 DEF Round
    <3> QED BY <2>2, <2>5, <2>6, <2>8, <3>3, <3>4 DEF i
  <2>9. CASE r = "s"
    <3>1. v = <<"hi", "lo">>
      BY <2>6, <2>9, UnitsFacts DEF v
    <3>2. Len(v) = 2 /\ v[1] = "hi" /\ v[2] = "lo"
      BY <3>1
    <3>3. u[i] = "hi" /\ u[i + 1] = "lo" /\ at(k + 1) = i + 2 /\ i < n
      BY <1>1, <2>6, <3>2
    <3>4. d[i] = <<"s">> \o d[i + 2]
      BY <1>1, <2>6, <2>7, <3>3 DEF Round
    <3> QED BY <2>2, <2>5, <2>6, <2>9, <3>3, <3>4 DEF i
  <2> QED BY <2>6, <2>8, <2>9 DEF Runes
<1>7. d[at(0)] = rest(0)
  <2>1. L \in 0 .. L /\ L - L = 0
    BY <1>1
  <2> QED BY <1>6, <2>1
<1>8. at(0) = 1
  <2>1. Len(<<>>) + 1 = 1
    OBVIOUS
  <2> QED BY <1>4, <2>1, EncodeEmpty, Zenon
<1> QED BY <1>2, <1>4, <1>7, <1>8

-----------------------------------------------------------------------------
(***************************************************************************)
(* The inductive invariant.                                                *)
(***************************************************************************)
Frames == [op : {"create", "set"}, off : Nat, data : Seq(Units)]

(* The units of the content. *)
Whole == encode(Content)

(* The runes the writer has read. *)
Pre(n) == SubSeq(source, 1, n)

ParamOK ==
  /\ form.clob \in BOOLEAN /\ form.reader \in BOOLEAN /\ form.length \in -1 .. MaxRunes
  /\ form.reader \/ form.length = -1
  /\ source \in Seq(Runes) /\ (~form.clob => source \in Seq(Bytes))

Cuts == {"none", "lost", "deadline"}

FlagsOK ==
  /\ firstFrame \in BOOLEAN /\ cut \in Cuts /\ changed \in BOOLEAN

(* The frames written so far leave what was read so far. *)
WriterOK ==
  /\ taken \in 0 .. Len(source) /\ (firstFrame <=> taken = 0)
  /\ off = Len(encode(Pre(taken)))
  /\ pc = "write" => stored(frames) = encode(Pre(taken))
  /\ pc = "end" => stored(frames) = Whole
  /\ pc \in {"write", "end"} => missing = 0

(* A frame of declared length that its reader could not fill. *)
Short(n) ==
  /\ form.reader /\ ~Segmented /\ n < form.length
  /\ frames = <<frame("create", 0, SubSeq(encode(source), 1, n))>>

(* What a failed reader leaves in c.bw: whole frames, or a short one. *)
DanglingOK ==
  pc = "dangling" =>
    \/ missing = 0 /\ \E n \in 0 .. Len(source) : stored(frames) = encode(Pre(n))
    \/ \E n \in 0 .. Len(source) : Short(n)

(* A frame fits a chunk, and holds the encoding of some text. *)
FramesOK ==
  /\ frames \in Seq(Frames)
  /\ \A i \in 1 .. Len(frames) :
       /\ Segmented => Len(frames[i].data) <= MaxChunk
       /\ form.clob => \E t \in Seq(Runes) : frames[i].data = encode(t)

(* The server's LOB is the content or a prefix of it, but for the bytes    *)
(* that Close may have added.                                              *)
StoreOK ==
  /\ store \in Seq(Units \cup {"d"})
  /\ pc = "closed" => Truncated \/ FilledUp
  /\ pc # "closed" => /\ store \in Seq(Units) /\ Len(store) <= Len(Whole)
                      /\ store = SubSeq(Whole, 1, Len(store))
  /\ pc \in {"write", "end", "dangling"} => store = <<>>
  /\ pc \in {"stored", "get", "decode", "fetched"} /\ ~changed => store = Whole

(* What has been received is the beginning of the content. *)
FetchOK ==
  /\ length \in 0 .. Len(Whole) /\ pos \in 0 .. length
  /\ got = SubSeq(Whole, 1, pos)
  /\ pc \in {"write", "end", "stored"} => pos = 0 /\ cut = "none" /\ ~changed
  /\ pc = "get" /\ cut = "none" => length = Len(Whole)
  /\ pc = "decode" => cut # "none" \/ changed
  /\ result \in Seq(Chars)
  /\ pc = "fetched" /\ cut = "none" /\ ~changed => result = Content

Inv ==
  /\ pc \in {"write", "end", "stored", "get", "decode", "fetched", "failed", "dangling", "closed"}
  /\ ParamOK /\ FlagsOK /\ WriterOK /\ DanglingOK /\ FramesOK /\ StoreOK /\ FetchOK

LEMMA BytesAreRunes == \A s \in Seq(Bytes) : s \in Seq(Runes) /\ s \in Seq(Chars)
<1>1. Bytes \subseteq Runes /\ Bytes \subseteq Chars
  BY DEF Bytes, Runes, Chars
<1> QED BY <1>1, SeqMonotonic

LEMMA ContentFacts ==
  ASSUME ParamOK
  PROVE  /\ Content \in Seq(Runes) /\ Whole \in Seq(Units) /\ Len(Whole) \in Nat
         /\ ~form.clob => Content \in Seq(Bytes) /\ Whole = Content
         /\ form.clob \/ ~form.reader \/ form.length < 0 => Content = source
<1>1. form.clob \/ ~form.reader \/ form.length < 0 => Content = source
  BY DEF ParamOK, Content
<1>2. ~form.clob => Content \in Seq(Bytes)
  <2> SUFFICES ASSUME ~form.clob PROVE Content \in Seq(Bytes)
    OBVIOUS
  <2>1. source \in Seq(Bytes)
    BY DEF ParamOK
  <2>2. form.length \in 0 .. Len(source) => SubSeq(source, 1, form.length) \in Seq(Bytes)
    BY <2>1
  <2> QED BY <2>1, <2>2 DEF Content
<1>3. Content \in Seq(Runes)
  <2>1. CASE form.clob
    BY <1>1, <2>1 DEF ParamOK
  <2>2. CASE ~form.clob
    BY <1>2, <2>2, BytesAreRunes
  <2> QED BY <2>1, <2>2
<1>4. Whole \in Seq(Units)
  BY <1>3, EncodeType DEF Whole
<1>5. ~form.clob => Whole = Content
  BY <1>2, EncodeBytes DEF Whole
<1>6. Len(Whole) \in Nat
  BY <1>4
<1> QED BY <1>1, <1>2, <1>3, <1>4, <1>5, <1>6

LEMMA RestFacts ==
  ASSUME ParamOK, taken \in 0 .. Len(source), NEW n \in 0 .. Len(source) - taken
  PROVE  /\ Rest(n) \in Seq(Runes) /\ encode(Rest(n)) \in Seq(Units)
         /\ Pre(taken) \in Seq(Runes) /\ encode(Pre(taken)) \in Seq(Units)
         /\ encode(Pre(taken + n)) = encode(Pre(taken)) \o encode(Rest(n))
<1>0. source \in Seq(Runes) /\ Len(source) \in Nat
  BY DEF ParamOK
<1>1. /\ 1 \in 1 .. Len(source) + 1 /\ taken \in 1 - 1 .. Len(source)
      /\ taken + n \in taken .. Len(source)
  BY <1>0
<1>2. Rest(n) \in Seq(Runes) /\ Pre(taken) \in Seq(Runes)
  BY <1>0, <1>1 DEF Rest, Pre
<1>3. Pre(taken + n) = Pre(taken) \o Rest(n)
  <2>1. SubSeq(source, 1, taken) \o SubSeq(source, taken + 1, taken + n) = SubSeq(source, 1, taken + n)
    BY <1>0, <1>1, ConcatAdjacentSubSeq
  <2> QED BY <2>1 DEF Pre, Rest
<1>4. encode(Pre(taken) \o Rest(n)) = encode(Pre(taken)) \o encode(Rest(n))
  BY <1>2, EncodeConcat
<1>5. encode(Rest(n)) \in Seq(Units) /\ encode(Pre(taken)) \in Seq(Units)
  BY <1>2, EncodeType
<1> QED BY <1>2, <1>3, <1>4, <1>5, Zenon

(* A chunk takes at least one rune and fits. *)
LEMMA ChunkFacts ==
  ASSUME ParamOK, taken \in 0 .. Len(source), taken < Len(source), NEW n \in chunks
  PROVE  n \in 1 .. Len(source) - taken /\ Len(encode(Rest(n))) <= MaxChunk
<1>0. source \in Seq(Runes) /\ Len(source) \in Nat /\ MaxChunk \in Nat /\ MaxChunk >= 2
  BY LobBounds DEF ParamOK
<1> DEFINE left == Len(source) - taken
           fits == {k \in 0 .. left : Len(encode(Rest(k))) <= MaxChunk}
<1>1. left \in Nat /\ 1 \in 0 .. left /\ 0 \in 0 .. left
  BY <1>0
<1>2. n \in IF form.clob THEN {Max(fits)} ELSE fits \ {0}
  BY DEF chunks
<1>3. Len(encode(Rest(1))) <= MaxChunk
  <2> DEFINE r == source[taken + 1]
  <2>1. taken + 1 \in 1 .. Len(source)
    BY <1>0
  <2>2. r \in Runes
    BY <1>0, <2>1, ElementOfSeq
  <2>3. Rest(1) = <<r>>
    <3>1. taken + 1 \in taken + 1 .. Len(source)
      BY <2>1
    <3>2. SubSeq(source, taken + 1, taken + 1) = <<r>> \o SubSeq(source, taken + 1 + 1, taken + 1)
      BY <1>0, <2>1, <3>1, SubSeqRecursiveFirst
    <3>3. SubSeq(source, taken + 1 + 1, taken + 1) = <<>>
      BY <2>1, SubSeqEmpty
    <3>4. <<r>> \o <<>> = <<r>>
      BY <2>2
    <3> QED BY <3>2, <3>3, <3>4, Zenon DEF Rest
  <2> HIDE DEF r
  <2>4. <<>> \in Seq(Runes) /\ encode(<<>>) \in Seq(Units) /\ <<r>> = Append(<<>>, r)
    <3>1. <<>> \in Seq(Runes)
      BY EmptySeq
    <3>2. <<r>> = Append(<<>>, r)
      OBVIOUS
    <3> QED BY <3>1, <3>2, EncodeType
  <2>5. unitsOf(r) \in Seq(Units) /\ Len(unitsOf(r)) \in 1 .. 2
    BY <2>2, UnitsFacts
  <2>6. encode(<<r>>) = encode(<<>>) \o unitsOf(r)
    BY <2>2, <2>4, EncodeAppend
  <2>7. <<>> \o unitsOf(r) = unitsOf(r)
    BY <2>5
  <2>8. encode(Rest(1)) = unitsOf(r)
    BY <2>3, <2>6, <2>7, EncodeEmpty, Zenon
  <2>9. Len(encode(Rest(1))) = Len(unitsOf(r))
    BY <2>8, Zenon
  <2> HIDE DEF left, fits
  <2>10. Len(unitsOf(r)) <= MaxChunk
    <3>1. MaxChunk \in Nat /\ MaxChunk >= 2
      BY <1>0
    <3>2. \A a \in 1 .. 2 : a <= MaxChunk
      BY <3>1
    <3> QED BY <2>5, <3>2, Zenon
  <2> QED BY <2>9, <2>10
<1>4. 1 \in fits /\ fits \in SUBSET (0 .. left)
  BY <1>1, <1>3
<1> HIDE DEF left
<1>5. CASE form.clob
  <2>1. Max(fits) \in fits /\ \A y \in fits : y <= Max(fits)
    <3> HIDE DEF fits
    <3> QED BY <1>1, <1>4, GreatestNat
  <2>2. n = Max(fits)
    BY <1>2, <1>5
  <2> QED BY <1>1, <1>4, <2>1, <2>2 DEF left
<1>6. CASE ~form.clob
  BY <1>1, <1>2, <1>6 DEF left
<1> QED BY <1>5, <1>6

LEMMA InitInv == LobInit => Inv
<1> SUFFICES ASSUME LobInit PROVE Inv
  OBVIOUS
<1>1. /\ form \in [clob : BOOLEAN, reader : BOOLEAN, length : -1 .. MaxRunes]
      /\ form.reader \/ form.length = -1
      /\ source \in Texts(IF form.clob THEN {"b", "s"} ELSE {"b"})
      /\ pc = "write" /\ taken = 0 /\ off = 0 /\ firstFrame = TRUE /\ frames = <<>>
      /\ store = <<>>
      /\ length = 0 /\ pos = 0 /\ got = <<>> /\ result = <<>>
      /\ cut = "none" /\ changed = FALSE
  BY DEF LobInit
<1>2. ParamOK
  <2>1. form.clob \in BOOLEAN /\ form.reader \in BOOLEAN /\ form.length \in -1 .. MaxRunes
    BY <1>1
  <2>2. ASSUME NEW S, source \in Texts(S) PROVE source \in Seq(S)
    <3>1. PICK n \in 0 .. MaxRunes : source \in [1 .. n -> S]
      BY <2>2 DEF Texts
    <3>2. n \in Nat
      BY LobBounds
    <3> QED BY <3>1, <3>2
  <2>3. CASE form.clob
    <3>1. source \in Seq(Runes)
      BY <1>1, <2>2, <2>3 DEF Runes
    <3> QED BY <1>1, <2>1, <2>3, <3>1 DEF ParamOK
  <2>4. CASE ~form.clob
    <3>1. source \in Seq(Bytes)
      BY <1>1, <2>2, <2>4 DEF Bytes
    <3>2. source \in Seq(Runes)
      BY <3>1, BytesAreRunes
    <3> QED BY <1>1, <2>1, <3>1, <3>2 DEF ParamOK
  <2> QED BY <2>3, <2>4
<1>3. Whole \in Seq(Units) /\ Len(Whole) \in Nat
  BY <1>2, ContentFacts
<1>4. FlagsOK
  BY <1>1 DEF FlagsOK, Cuts
<1>5. WriterOK
  <2>1. Len(source) \in Nat
    BY <1>2 DEF ParamOK
  <2>2. Pre(taken) = <<>>
    BY <1>1 DEF Pre
  <2>3. encode(Pre(taken)) = <<>> /\ stored(frames) = <<>> /\ Len(<<>>) = 0
    BY <1>1, <2>2, EncodeEmpty, StoredEmpty
  <2>4. off = Len(encode(Pre(taken))) /\ stored(frames) = encode(Pre(taken))
    BY <1>1, <2>3, Zenon
  <2>5. taken \in 0 .. Len(source) /\ (firstFrame <=> taken = 0) /\ pc # "end"
    BY <1>1, <2>1
  <2>6. missing = 0
    BY <1>1 DEF missing
  <2> QED BY <2>4, <2>5, <2>6, Zenon DEF WriterOK
<1>6. FramesOK
  <2>1. frames \in Seq(Frames) /\ Len(frames) = 0
    BY <1>1
  <2> QED BY <2>1 DEF FramesOK
<1>7. SubSeq(Whole, 1, 0) = <<>>
  BY SubSeqEmpty
<1>8. StoreOK
  <2>1. store \in Seq(Units) /\ Len(store) = 0
    BY <1>1
  <2>2. Len(store) <= Len(Whole)
    BY <1>3, <2>1
  <2>3. store = SubSeq(Whole, 1, Len(store))
    BY <1>1, <1>7, <2>1
  <2>4. store \in Seq(Units \cup {"d"})
    BY <1>1
  <2> QED BY <1>1, <2>1, <2>2, <2>3, <2>4 DEF StoreOK
<1>9. FetchOK
  <2>1. length \in 0 .. Len(Whole) /\ pos \in 0 .. length
    BY <1>1, <1>3
  <2>2. result \in Seq(Chars) /\ got = SubSeq(Whole, 1, pos)
    BY <1>1, <1>7
  <2> QED BY <1>1, <2>1, <2>2 DEF FetchOK
<1>10. DanglingOK
  BY <1>1 DEF DanglingOK
<1> QED BY <1>1, <1>2, <1>4, <1>5, <1>6, <1>8, <1>9, <1>10 DEF Inv

-----------------------------------------------------------------------------
(***************************************************************************)
(* What a step leaves alone.                                               *)
(***************************************************************************)
LEMMA ParamKept ==
  ASSUME ParamOK, UNCHANGED param
  PROVE  /\ ParamOK' /\ form' = form /\ source' = source
         /\ Content' = Content /\ Whole' = Whole /\ Segmented' = Segmented
         /\ \A n : Pre(n)' = Pre(n)
<1>1. form' = form /\ source' = source
  BY DEF param
<1>2. Content' = Content /\ Segmented' = Segmented /\ \A n : Pre(n)' = Pre(n)
  BY <1>1 DEF Content, Segmented, Pre
<1>3. Whole' = Whole
  BY <1>2 DEF Whole
<1> QED BY <1>1, <1>2, <1>3 DEF ParamOK

LEMMA WriterKept ==
  ASSUME Inv, UNCHANGED param, UNCHANGED writer, pc' = pc \/ pc' \notin {"write", "end", "dangling"}
  PROVE  WriterOK' /\ DanglingOK' /\ FramesOK' /\ firstFrame' = firstFrame
<1>1. taken' = taken /\ off' = off /\ firstFrame' = firstFrame /\ frames' = frames
  BY DEF writer
<1>2. /\ form' = form /\ source' = source /\ Whole' = Whole /\ Segmented' = Segmented
      /\ Pre(taken)' = Pre(taken)
  BY <1>1, ParamKept DEF Inv
<1>3. WriterOK'
  <2>1. missing' = missing
    BY <1>1, <1>2 DEF missing
  <2> QED BY <1>1, <1>2, <2>1 DEF Inv, WriterOK
<1>4. FramesOK'
  BY <1>1, <1>2 DEF Inv, FramesOK
<1>5. DanglingOK'
  <2>1. CASE pc' # "dangling"
    BY <2>1 DEF DanglingOK
  <2>2. CASE pc' = "dangling"
    <3>1. pc = "dangling"
      BY <2>2
    <3>2. /\ missing' = missing /\ stored(frames') = stored(frames)
          /\ \A n : Pre(n)' = Pre(n) /\ Short(n)' = Short(n)
      BY <1>1, <1>2 DEF missing, Pre, Short, Segmented
    <3> QED BY <1>2, <2>2, <3>1, <3>2 DEF Inv, DanglingOK
  <2> QED BY <2>1, <2>2
<1> QED BY <1>1, <1>3, <1>4, <1>5

Early == {"write", "end", "dangling"}
Late  == {"stored", "get", "decode", "fetched"}

LEMMA StoreKept ==
  ASSUME Inv, UNCHANGED param, store' = store, changed' = changed,
         pc # "closed", pc' # "closed", pc' \in Late => pc \in Late, pc' \in Early => pc \in Early
  PROVE  StoreOK'
<1>1. Whole' = Whole
  BY ParamKept DEF Inv
<1> QED BY <1>1 DEF Inv, StoreOK, Late, Early

(* The fetch has not begun, or is over. *)
LEMMA FetchKept ==
  ASSUME Inv, UNCHANGED param, UNCHANGED fetch, cut' = cut, changed' = changed,
         \/ pc' \in {"failed", "dangling", "closed"}
         \/ pc \in {"write", "end", "stored"} /\ pc' \in {"write", "end", "stored"}
  PROVE  FetchOK'
<1>1. Whole' = Whole /\ Content' = Content
  BY ParamKept DEF Inv
<1>2. length' = length /\ pos' = pos /\ got' = got /\ result' = result
  BY DEF fetch
<1> QED BY <1>1, <1>2 DEF Inv, FetchOK

-----------------------------------------------------------------------------
(***************************************************************************)
(* The writer.                                                             *)
(***************************************************************************)

(* One CREATE frame, and what it leaves. *)
LEMMA OneFrame ==
  ASSUME NEW data \in Seq(Units)
  PROVE  /\ <<frame("create", 0, data)>> \in Seq(Frames)
         /\ Len(<<frame("create", 0, data)>>) = 1
         /\ <<frame("create", 0, data)>>[1].data = data
         /\ stored(<<frame("create", 0, data)>>) = data
<1> DEFINE f == frame("create", 0, data)
<1>1. f \in Frames /\ f.data = data
  BY DEF frame, Frames
<1>2. applyFrame(stored(<<>>), f) = data
  BY CreateStarts
<1> HIDE DEF f
<1>3. <<f>> \in Seq(Frames) /\ Len(<<f>>) = 1 /\ <<f>>[1] = f
  BY <1>1
<1>4. <<>> \in Seq(Frames) /\ <<f>> = Append(<<>>, f)
  OBVIOUS
<1>5. stored(Append(<<>>, f)) = applyFrame(stored(<<>>), f)
  BY <1>1, <1>4, StoredAppend
<1>6. stored(<<f>>) = data
  BY <1>2, <1>4, <1>5, Zenon
<1> QED BY <1>1, <1>3, <1>6, Zenon DEF f

LEMMA WriteWholeInv ==
  ASSUME Inv, WriteWhole
  PROVE  Inv'
<1>1. /\ pc = "write" /\ pc' = "end" /\ UNCHANGED param /\ UNCHANGED fetch
      /\ taken' = taken /\ off' = off /\ firstFrame' = firstFrame
      /\ store' = store /\ cut' = cut /\ changed' = changed
  BY DEF WriteWhole
<1>2. ParamOK /\ FlagsOK /\ WriterOK
  BY DEF Inv
<1>3. /\ ParamOK' /\ form' = form /\ source' = source /\ Whole' = Whole
      /\ Segmented' = Segmented /\ Pre(taken)' = Pre(taken)
  BY <1>1, <1>2, ParamKept
<1>4. source \in Seq(Runes) /\ encode(source) \in Seq(Units)
  BY <1>2, EncodeType DEF ParamOK
<1>5. PICK data \in Seq(Units) :
        /\ frames' = <<frame("create", 0, data)>> /\ data = Whole /\ ~Segmented
        /\ form.clob => data = encode(source)
  <2>1. CASE ~form.reader /\ frames' = <<frame("create", 0, encode(source))>>
    <3>1. Whole = encode(source) /\ ~Segmented
      BY <1>2, <2>1, ContentFacts DEF Whole, Segmented
    <3> QED BY <1>4, <2>1, <3>1
  <2>2. CASE /\ form.reader /\ ~form.clob /\ form.length \in 0 .. Len(source)
             /\ frames' = <<frame("create", 0, SubSeq(encode(source), 1, form.length))>>
    <3>1. encode(source) = source
      BY <1>2, <2>2, EncodeBytes DEF ParamOK
    <3>2. Whole = SubSeq(source, 1, form.length)
      BY <1>2, <2>2, ContentFacts DEF Content
    <3>3. Whole \in Seq(Units)
      BY <1>2, ContentFacts
    <3>4. ~Segmented
      <4>1. ~(form.length < 0)
        BY <1>4, <2>2
      <4> QED BY <2>2, <4>1 DEF Segmented
    <3>5. SubSeq(encode(source), 1, form.length) = Whole
      BY <3>1, <3>2
    <3> QED BY <2>2, <3>3, <3>4, <3>5, Zenon
  <2> QED BY <2>1, <2>2 DEF WriteWhole
<1>6. FlagsOK'
  BY <1>1, <1>2 DEF FlagsOK
<1>7. WriterOK'
  <2>1. stored(frames)' = Whole'
    BY <1>3, <1>5, OneFrame
  <2>2. form.reader => Len(data) = form.length
    <3> SUFFICES ASSUME form.reader PROVE Len(data) = form.length
      OBVIOUS
    <3>1. ~form.clob /\ form.length \in 0 .. Len(source)
      BY DEF WriteWhole
    <3>2. data = SubSeq(source, 1, form.length)
      BY <1>2, <1>5, <3>1, ContentFacts DEF Content
    <3> QED BY <1>4, <3>1, <3>2
  <2>3. Len(frames') = 1 /\ frames'[1].data = data
    BY <1>5, OneFrame
  <2>4. missing' = IF form.reader THEN form.length - Len(data) ELSE 0
    BY <1>3, <1>5, <2>3 DEF missing
  <2>5. missing' = 0
    BY <1>2, <2>2, <2>4 DEF ParamOK
  <2> QED BY <1>1, <1>2, <1>3, <2>1, <2>5 DEF WriterOK
<1>8. FramesOK'
  <2>1. frames' \in Seq(Frames) /\ Len(frames') = 1 /\ frames'[1].data = data
    BY <1>5, OneFrame
  <2>2. \A i \in 1 .. Len(frames') : i = 1
    BY <2>1
  <2>3. form.clob => \E t \in Seq(Runes) : data = encode(t)
    BY <1>4, <1>5
  <2> QED BY <1>3, <1>5, <2>1, <2>2, <2>3 DEF FramesOK
<1>9. StoreOK' /\ FetchOK'
  BY <1>1, StoreKept, FetchKept DEF Late, Early
<1>10. DanglingOK'
  BY <1>1 DEF DanglingOK
<1> QED BY <1>1, <1>3, <1>6, <1>7, <1>8, <1>9, <1>10 DEF Inv

LEMMA WriteChunkInv ==
  ASSUME Inv, WriteChunk
  PROVE  Inv'
<1>1. /\ pc = "write" /\ pc' = pc /\ UNCHANGED param /\ UNCHANGED fetch
      /\ store' = store /\ cut' = cut /\ changed' = changed
      /\ Segmented /\ taken < Len(source)
  BY DEF WriteChunk
<1>2. /\ ParamOK /\ FlagsOK /\ WriterOK /\ FramesOK
      /\ taken \in 0 .. Len(source) /\ off = Len(encode(Pre(taken))) /\ (firstFrame <=> taken = 0)
      /\ stored(frames) = encode(Pre(taken))
  BY <1>1 DEF Inv, WriterOK
<1>3. /\ ParamOK' /\ form' = form /\ source' = source /\ Whole' = Whole
      /\ Segmented' = Segmented /\ \A n : Pre(n)' = Pre(n)
  BY <1>1, <1>2, ParamKept
<1>4. PICK n \in chunks : writeChunk(n)
  BY DEF WriteChunk
<1>5. n \in 1 .. Len(source) - taken /\ Len(encode(Rest(n))) <= MaxChunk
  BY <1>1, <1>2, ChunkFacts
<1> DEFINE data == encode(Rest(n))
           old  == encode(Pre(taken))
           f    == frame(IF firstFrame THEN "create" ELSE "set", off, data)
<1>6. /\ frames' = Append(frames, f) /\ firstFrame' = FALSE
      /\ taken' = taken + n /\ off' = off + Len(data)
  BY <1>4 DEF writeChunk
<1>7. Len(source) \in Nat /\ n \in 0 .. Len(source) - taken /\ taken + n \in 1 .. Len(source)
  BY <1>2, <1>5 DEF ParamOK
<1>8. /\ Rest(n) \in Seq(Runes) /\ data \in Seq(Units) /\ old \in Seq(Units)
      /\ encode(Pre(taken + n)) = old \o data
  BY <1>2, <1>7, RestFacts
<1> HIDE DEF data, old
<1>9. off \in Nat
  BY <1>2, <1>8 DEF old
<1>10. f \in Frames /\ f.data = data
  BY <1>8, <1>9 DEF frame, Frames
<1>11. applyFrame(old, f) = old \o data
  <2>1. CASE firstFrame
    <3>1. taken = 0
      BY <1>2, <2>1
    <3>2. Pre(taken) = <<>>
      BY <3>1 DEF Pre
    <3>3. old = <<>>
      BY <3>2, EncodeEmpty DEF old
    <3>4. f = frame("create", off, data)
      BY <2>1
    <3>5. applyFrame(old, f) = data
      BY <3>4, CreateStarts
    <3>6. <<>> \o data = data
      BY <1>8
    <3> QED BY <3>3, <3>5, <3>6, Zenon
  <2>2. CASE ~firstFrame
    <3>1. f = frame("set", Len(old), data)
      BY <1>2, <2>2 DEF old
    <3>2. applyFrame(old, frame("set", Len(old), data)) = old \o data
      BY <1>8, SetAppends
    <3> QED BY <3>1, <3>2, Zenon
  <2> QED BY <2>1, <2>2
<1> HIDE DEF f
<1>12. frames \in Seq(Frames)
  BY <1>2 DEF FramesOK
<1>13. stored(frames') = old \o data
  <2>1. stored(Append(frames, f)) = applyFrame(stored(frames), f)
    BY <1>10, <1>12, StoredAppend
  <2>2. stored(frames) = old
    BY <1>2 DEF old
  <2> QED BY <1>6, <1>11, <2>1, <2>2, Zenon
<1>14. FlagsOK'
  BY <1>1, <1>2, <1>6 DEF FlagsOK
<1>15. WriterOK'
  <2>1. encode(Pre(taken))' = old \o data
    <3>1. Pre(taken)' = Pre(taken + n)
      BY <1>3, <1>6 DEF Pre
    <3> QED BY <1>8, <3>1
  <2>2. off' = Len(old \o data)
    <3>1. Len(old \o data) = Len(old) + Len(data)
      BY <1>8
    <3> QED BY <1>2, <1>6, <3>1 DEF old
  <2>3. taken' \in 0 .. Len(source') /\ taken' # 0
    BY <1>3, <1>6, <1>7
  <2>4. missing' = 0
    BY <1>1, <1>3 DEF missing
  <2> QED BY <1>1, <1>6, <1>13, <2>1, <2>2, <2>3, <2>4 DEF WriterOK
<1>16. FramesOK'
  <2>1. /\ frames' \in Seq(Frames) /\ Len(frames') = Len(frames) + 1 /\ Len(frames) \in Nat
        /\ \A i \in 1 .. Len(frames) : frames'[i] = frames[i]
        /\ frames'[Len(frames) + 1] = f
    BY <1>6, <1>10, <1>12, AppendProperties
  <2> SUFFICES ASSUME NEW i \in 1 .. Len(frames')
               PROVE  /\ Segmented => Len(frames'[i].data) <= MaxChunk
                      /\ form.clob => \E t \in Seq(Runes) : frames'[i].data = encode(t)
    BY <1>3, <2>1 DEF FramesOK
  <2>2. CASE i \in 1 .. Len(frames)
    BY <1>2, <2>1, <2>2 DEF FramesOK
  <2>3. CASE i = Len(frames) + 1
    <3>1. frames'[i].data = data
      BY <1>10, <2>1, <2>3
    <3> QED BY <1>5, <1>8, <3>1 DEF data
  <2> QED BY <2>1, <2>2, <2>3
<1>17. StoreOK' /\ FetchOK'
  BY <1>1, StoreKept, FetchKept DEF Late, Early
<1>18. DanglingOK'
  BY <1>1 DEF DanglingOK
<1> QED BY <1>1, <1>3, <1>14, <1>15, <1>16, <1>17, <1>18 DEF Inv

LEMMA WriteEOFInv ==
  ASSUME Inv, WriteEOF
  PROVE  Inv'
<1>1. /\ pc = "write" /\ pc' = "end" /\ UNCHANGED param /\ UNCHANGED fetch
      /\ taken' = taken /\ off' = off /\ firstFrame' = firstFrame
      /\ store' = store /\ cut' = cut /\ changed' = changed
      /\ Segmented /\ taken = Len(source)
      /\ frames' = IF firstFrame THEN <<frame("create", 0, <<>>)>> ELSE frames
  BY DEF WriteEOF
<1>2. /\ ParamOK /\ FlagsOK /\ WriterOK /\ FramesOK /\ (firstFrame <=> taken = 0)
      /\ stored(frames) = encode(Pre(taken))
  BY <1>1 DEF Inv, WriterOK
<1>3. /\ ParamOK' /\ form' = form /\ source' = source /\ Whole' = Whole
      /\ Segmented' = Segmented /\ Pre(taken)' = Pre(taken)
  BY <1>1, <1>2, ParamKept
<1>4. encode(Pre(taken)) = Whole
  <2>1. Content = source
    BY <1>1, <1>2, ContentFacts DEF Segmented
  <2>2. Pre(taken) = source
    BY <1>1, <1>2, SubSeqFull DEF Pre, ParamOK
  <2> QED BY <2>1, <2>2 DEF Whole
<1>5. stored(frames') = Whole /\ FramesOK'
  <2>1. CASE firstFrame
    <3>1. <<>> \in Seq(Units) /\ Len(<<>>) = 0 /\ <<>> \in Seq(Runes)
      OBVIOUS
    <3>2. frames' = <<frame("create", 0, <<>>)>>
      BY <1>1, <2>1
    <3>3. frames' \in Seq(Frames) /\ Len(frames') = 1 /\ frames'[1].data = <<>> /\ stored(frames') = <<>>
      BY <3>1, <3>2, OneFrame
    <3>4. Pre(taken) = <<>>
      BY <1>2, <2>1 DEF Pre
    <3>5. Whole = <<>>
      BY <1>4, <3>4, EncodeEmpty
    <3>6. \A i \in 1 .. Len(frames') : i = 1
      BY <3>3
    <3>7. 0 <= MaxChunk
      BY LobBounds
    <3>8. ASSUME NEW i \in 1 .. Len(frames')
          PROVE  /\ Len(frames'[i].data) <= MaxChunk
                 /\ \E t \in Seq(Runes) : frames'[i].data = encode(t)
      <4>1. frames'[i].data = <<>>
        BY <3>3, <3>6
      <4>2. Len(frames'[i].data) = 0
        BY <3>1, <4>1, Zenon
      <4>3. \E t \in Seq(Runes) : frames'[i].data = encode(t)
        BY <3>1, <4>1, EncodeEmpty, Zenon
      <4> QED BY <3>7, <4>2, <4>3
    <3> QED BY <3>3, <3>5, <3>8 DEF FramesOK
  <2>2. CASE ~firstFrame
    <3>1. frames' = frames
      BY <1>1, <2>2
    <3> QED BY <1>2, <1>3, <1>4, <3>1 DEF FramesOK
  <2> QED BY <2>1, <2>2
<1>6. FlagsOK'
  BY <1>1, <1>2 DEF FlagsOK
<1>7. WriterOK'
  <2>1. missing' = 0
    BY <1>1, <1>3 DEF missing
  <2> QED BY <1>1, <1>2, <1>3, <1>5, <2>1 DEF WriterOK
<1>8. StoreOK' /\ FetchOK'
  BY <1>1, StoreKept, FetchKept DEF Late, Early
<1>9. DanglingOK'
  BY <1>1 DEF DanglingOK
<1> QED BY <1>1, <1>3, <1>5, <1>6, <1>7, <1>8, <1>9 DEF Inv

LEMMA SocketFailsInv ==
  ASSUME Inv, SocketFails
  PROVE  Inv'
<1>1. /\ pc \in {"write", "end"} /\ pc' = "failed"
      /\ UNCHANGED param /\ UNCHANGED fetch /\ UNCHANGED writer
      /\ store' = store /\ cut' = cut /\ changed' = changed
  BY DEF SocketFails
<1>2. ParamOK' /\ WriterOK' /\ DanglingOK' /\ FramesOK' /\ firstFrame' = firstFrame
  BY <1>1, ParamKept, WriterKept DEF Inv
<1>3. StoreOK' /\ FetchOK'
  BY <1>1, StoreKept, FetchKept DEF Late, Early
<1>4. FlagsOK'
  BY <1>1, <1>2 DEF Inv, FlagsOK
<1> QED BY <1>1, <1>2, <1>3, <1>4 DEF Inv

(* A declared length makes the parameter a BLOB, which encode leaves alone. *)
LEMMA DeclaredFacts ==
  ASSUME ParamOK, form.reader, ~Segmented, NEW n \in 0 .. Len(source)
  PROVE  /\ ~form.clob /\ form.length \in Nat /\ encode(source) = source
         /\ SubSeq(encode(source), 1, n) \in Seq(Units)
         /\ Len(SubSeq(encode(source), 1, n)) = n
<1>1. ~form.clob /\ form.length \in Nat /\ source \in Seq(Bytes)
  BY DEF ParamOK, Segmented
<1>2. encode(source) = source /\ encode(source) \in Seq(Units) /\ Len(source) \in Nat
  BY <1>1, EncodeBytes, EncodeType, BytesAreRunes
<1>3. SubSeq(encode(source), 1, n) \in Seq(Units) /\ Len(SubSeq(encode(source), 1, n)) = n
  BY <1>2
<1> QED BY <1>1, <1>2, <1>3

LEMMA ReaderFailsInv ==
  ASSUME Inv, ReaderFails
  PROVE  Inv'
<1>1. /\ pc \in {"write", "end"} /\ pc' = "dangling" /\ UNCHANGED param /\ UNCHANGED fetch
      /\ taken' = taken /\ off' = off /\ firstFrame' = firstFrame
      /\ store' = store /\ cut' = cut /\ changed' = changed
  BY DEF ReaderFails
<1>2. /\ ParamOK' /\ form' = form /\ source' = source /\ Whole' = Whole
      /\ Segmented' = Segmented /\ \A n : Pre(n)' = Pre(n)
  BY <1>1, ParamKept DEF Inv
<1>3. ParamOK /\ WriterOK /\ FramesOK /\ source \in Seq(Runes) /\ Len(source) \in Nat
  BY DEF Inv, ParamOK
<1>4. StoreOK' /\ FetchOK'
  BY <1>1, StoreKept, FetchKept DEF Late, Early
<1>5. FlagsOK'
  BY <1>1, <1>2 DEF Inv, FlagsOK
<1>6. WriterOK'
  <2>1. Pre(taken)' = Pre(taken)
    BY <1>1, <1>2 DEF Pre
  <2> QED BY <1>1, <1>2, <1>3, <2>1 DEF WriterOK
<1>7. DanglingOK' /\ FramesOK'
  <2>1. CASE frames' = frames
    <3>1. FramesOK'
      BY <1>2, <1>3, <2>1 DEF FramesOK
    <3>2. missing = 0
      BY <1>1, <1>3 DEF WriterOK
    <3>3. missing' = missing
      BY <1>2, <2>1 DEF missing
    <3>4. \E n \in 0 .. Len(source) : stored(frames) = encode(Pre(n))
      <4>1. CASE pc = "write"
        BY <1>3, <4>1 DEF WriterOK
      <4>2. CASE pc = "end"
        <5>1. stored(frames) = Whole
          BY <1>3, <4>2 DEF WriterOK
        <5>2. CASE Content = source
          <6>1. Pre(Len(source)) = source /\ Len(source) \in 0 .. Len(source)
            BY <1>3, SubSeqFull DEF Pre
          <6>2. stored(frames) = encode(Pre(Len(source)))
            BY <5>1, <5>2, <6>1 DEF Whole
          <6> QED BY <6>1, <6>2
        <5>3. CASE Content # source
          <6>1. form.length \in 0 .. Len(source) /\ Content = Pre(form.length)
            BY <5>3 DEF Content, Pre
          <6> QED BY <5>1, <6>1 DEF Whole
        <5> QED BY <5>2, <5>3
      <4> QED BY <1>1, <4>1, <4>2
    <3>5. \E n \in 0 .. Len(source') : stored(frames') = encode(Pre(n)')
      BY <1>2, <2>1, <3>4
    <3>6. DanglingOK'
      BY <3>2, <3>3, <3>5 DEF DanglingOK
    <3> QED BY <3>1, <3>6
  <2>2. CASE form.reader /\ ~Segmented
             /\ \E n \in 0 .. Len(source) :
                  n < form.length /\ frames' = <<frame("create", 0, SubSeq(encode(source), 1, n))>>
    <3>1. PICK n \in 0 .. Len(source) :
            n < form.length /\ frames' = <<frame("create", 0, SubSeq(encode(source), 1, n))>>
      BY <2>2
    <3>2. Short(n)'
      BY <1>2, <2>2, <3>1 DEF Short
    <3>3. DanglingOK'
      BY <1>2, <3>2 DEF DanglingOK
    <3>4. SubSeq(encode(source), 1, n) \in Seq(Units) /\ ~form.clob
      BY <1>3, <2>2, DeclaredFacts
    <3>5. frames' \in Seq(Frames)
      BY <3>1, <3>4, OneFrame
    <3>6. FramesOK'
      BY <1>2, <2>2, <3>4, <3>5 DEF FramesOK
    <3> QED BY <3>3, <3>6
  <2> QED BY <2>1, <2>2 DEF ReaderFails
<1> QED BY <1>1, <1>2, <1>4, <1>5, <1>6, <1>7 DEF Inv

LEMMA TransmitInv ==
  ASSUME Inv, Transmit
  PROVE  Inv'
<1>1. /\ pc = "end" /\ pc' = "stored" /\ UNCHANGED param /\ UNCHANGED fetch /\ UNCHANGED writer
      /\ cut' = cut /\ changed' = changed
      /\ store' = stored(frames)
  BY DEF Transmit
<1>2. ParamOK' /\ Whole' = Whole /\ WriterOK' /\ DanglingOK' /\ FramesOK' /\ firstFrame' = firstFrame
  BY <1>1, ParamKept, WriterKept DEF Inv
<1>3. store' = Whole /\ Whole \in Seq(Units)
  BY <1>1, ContentFacts DEF Inv, WriterOK
<1>4. StoreOK'
  <2>1. Whole = SubSeq(Whole, 1, Len(Whole)) /\ Len(Whole) <= Len(Whole)
    BY <1>3, SubSeqFull
  <2>2. store' \in Seq(Units \cup {"d"})
    BY <1>3, SeqMonotonic
  <2> QED BY <1>1, <1>2, <1>3, <2>1, <2>2 DEF StoreOK
<1>5. FetchOK'
  BY <1>1, FetchKept
<1>6. FlagsOK'
  BY <1>1, <1>2 DEF Inv, FlagsOK
<1> QED BY <1>1, <1>2, <1>4, <1>5, <1>6 DEF Inv

(* One frame of anything is stored as it is. *)
LEMMA OneCreate ==
  ASSUME NEW data, NEW f, f = frame("create", 0, data)
  PROVE  stored(<<f>>) = data
<1>1. <<>> \in Seq({f}) /\ <<f>> = Append(<<>>, f)
  OBVIOUS
<1>2. stored(Append(<<>>, f)) = applyFrame(stored(<<>>), f)
  BY <1>1, StoredAppend
<1>3. applyFrame(stored(<<>>), f) = data
  BY CreateStarts
<1> QED BY <1>1, <1>2, <1>3, Zenon

LEMMA CloseDanglingInv ==
  ASSUME Inv, CloseDangling
  PROVE  Inv'
<1>1. /\ pc = "dangling" /\ pc' = "closed" /\ UNCHANGED param /\ UNCHANGED fetch
      /\ UNCHANGED writer /\ cut' = cut /\ changed' = changed
  BY DEF CloseDangling
<1>2. /\ ParamOK' /\ form' = form /\ source' = source /\ Segmented' = Segmented
      /\ WriterOK' /\ DanglingOK' /\ FramesOK' /\ firstFrame' = firstFrame
  BY <1>1, ParamKept, WriterKept DEF Inv
<1>3. ParamOK /\ source \in Seq(Runes) /\ Len(source) \in Nat /\ store = <<>>
      /\ store \in Seq(Units \cup {"d"})
  BY <1>1 DEF Inv, ParamOK, StoreOK
<1> DEFINE Cutoff(l)   == \E n \in 0 .. Len(source) : l = encode(SubSeq(source, 1, n))
           Stuffed(l) == /\ form.reader /\ ~Segmented /\ Len(l) = form.length
                         /\ \E n \in 0 .. Len(source) :
                              /\ form.length - n \in 1 .. CloseUnits
                              /\ l = SubSeq(encode(source), 1, n)
                                      \o [i \in 1 .. form.length - n |-> "d"]
<1>4. ASSUME NEW n \in 0 .. Len(source)
      PROVE  encode(SubSeq(source, 1, n)) \in Seq(Units \cup {"d"})
  <2>1. SubSeq(source, 1, n) \in Seq(Runes)
    BY <1>3
  <2>3. encode(SubSeq(source, 1, n)) \in Seq(Units)
    BY <2>1, EncodeType
  <2> QED BY <2>3, SeqMonotonic
<1>5. /\ store' \in Seq(Units \cup {"d"})
      /\ Cutoff(store') \/ Stuffed(store')
  <2>1. CASE store' = store
    <3>1. 0 \in 0 .. Len(source) /\ SubSeq(source, 1, 0) = <<>>
      BY <1>3
    <3>2. store' = encode(SubSeq(source, 1, 0))
      BY <1>3, <2>1, <3>1, EncodeEmpty, Zenon
    <3> QED BY <1>3, <2>1, <3>1, <3>2
  <2>2. CASE missing = 0 /\ store' = stored(frames)
    <3>1. ~ \E n \in 0 .. Len(source) : Short(n)
      <4> SUFFICES ASSUME NEW n \in 0 .. Len(source), Short(n) PROVE FALSE
        OBVIOUS
      <4> DEFINE text == SubSeq(encode(source), 1, n)
      <4>1. text \in Seq(Units) /\ Len(text) = n /\ form.length \in Nat
        BY <1>3, DeclaredFacts DEF Short
      <4> HIDE DEF text
      <4>2. frames = <<frame("create", 0, text)>> /\ frames[1].data = text /\ frames # <<>>
        BY <4>1, OneFrame DEF Short, text
      <4>3. missing = form.length - n
        BY <4>1, <4>2 DEF missing, Short
      <4> QED BY <2>2, <4>1, <4>3 DEF Short
    <3>2. PICK n \in 0 .. Len(source) : stored(frames) = encode(Pre(n))
      BY <1>1, <3>1 DEF Inv, DanglingOK
    <3>3. store' = encode(SubSeq(source, 1, n))
      BY <2>2, <3>2 DEF Pre
    <3> QED BY <1>4, <3>3
  <2>3. CASE missing \in 1 .. CloseUnits /\ store' = stored(<<Filled>>)
    <3>1. missing # 0
      BY <2>3
    <3>2. PICK n \in 0 .. Len(source) : Short(n)
      BY <1>1, <3>1 DEF Inv, DanglingOK
    <3> DEFINE text == SubSeq(encode(source), 1, n)
               fill == [i \in 1 .. form.length - n |-> "d"]
    <3>3. text \in Seq(Units) /\ Len(text) = n /\ form.length \in Nat
      BY <1>3, <3>2, DeclaredFacts DEF Short
    <3>4. fill \in Seq({"d"}) /\ Len(fill) = form.length - n
      <4>1. form.length - n \in Nat
        BY <3>2, <3>3 DEF Short
      <4> QED BY <4>1
    <3> HIDE DEF text
    <3>5. frames = <<frame("create", 0, text)>> /\ frames[1].data = text /\ frames # <<>>
      BY <3>2, <3>3, OneFrame DEF Short, text
    <3>6. missing = form.length - n
      BY <3>2, <3>3, <3>5 DEF missing, Short
    <3>7. Filled = frame("create", 0, text \o fill)
      BY <3>5, <3>6 DEF Filled
    <3> HIDE DEF fill
    <3>8. stored(<<Filled>>) = text \o fill
      BY <3>7, OneCreate
    <3>9. text \in Seq(Units \cup {"d"}) /\ fill \in Seq(Units \cup {"d"})
      BY <3>3, <3>4, SeqMonotonic
    <3>10. text \o fill \in Seq(Units \cup {"d"}) /\ Len(text \o fill) = form.length
      BY <3>3, <3>4, <3>9
    <3>11. Stuffed(store')
      BY <2>3, <3>2, <3>6, <3>8, <3>10 DEF Short, text, fill
    <3> QED BY <2>3, <3>8, <3>10, <3>11
  <2> QED BY <2>1, <2>2, <2>3 DEF CloseDangling
<1>6. StoreOK'
  <2>1. Truncated' \/ FilledUp'
    BY <1>2, <1>5 DEF Truncated, FilledUp
  <2> QED BY <1>1, <1>5, <2>1 DEF StoreOK
<1>7. FetchOK'
  BY <1>1, FetchKept
<1>8. FlagsOK'
  BY <1>1, <1>2 DEF Inv, FlagsOK
<1> QED BY <1>1, <1>2, <1>6, <1>7, <1>8 DEF Inv

-----------------------------------------------------------------------------
(***************************************************************************)
(* fetchLob.                                                               *)
(***************************************************************************)

(* The answer to GET_LENGTH, whole or cut off. *)
LEMMA LengthInv ==
  ASSUME Inv, FetchLength \/ FetchLengthCut
  PROVE  Inv'
<1>1. /\ pc = "stored" /\ pc' = "get" /\ UNCHANGED param /\ UNCHANGED writer
      /\ store' = store /\ changed' = changed
      /\ pos' = pos /\ got' = got /\ result' = result
      /\ \/ length' = Len(store) /\ cut' = cut
         \/ length' \in 0 .. Len(store) /\ cut' \in {"lost", "deadline"}
  BY DEF FetchLength, FetchLengthCut
<1>2. /\ ParamOK' /\ Whole' = Whole /\ Content' = Content
      /\ WriterOK' /\ DanglingOK' /\ FramesOK' /\ firstFrame' = firstFrame
  BY <1>1, ParamKept, WriterKept DEF Inv
<1>3. Whole \in Seq(Units) /\ Len(Whole) \in Nat
  BY ContentFacts DEF Inv
<1>4. store = Whole /\ pos = 0 /\ cut = "none" /\ ~changed
  BY <1>1 DEF Inv, StoreOK, FetchOK
<1>5. StoreOK'
  BY <1>1, StoreKept DEF Late, Early
<1>6. FetchOK'
  <2>1. length' \in 0 .. Len(Whole) /\ pos' \in 0 .. length' /\ (cut' = "none" => length' = Len(Whole))
    BY <1>1, <1>3, <1>4
  <2> QED BY <1>1, <1>2, <2>1 DEF Inv, FetchOK
<1>7. FlagsOK'
  <2>1. firstFrame' \in BOOLEAN /\ changed' \in BOOLEAN
    BY <1>1, <1>2 DEF Inv, FlagsOK
  <2>2. cut' \in Cuts
    BY <1>1 DEF Inv, FlagsOK, Cuts
  <2> QED BY <2>1, <2>2 DEF FlagsOK
<1> QED BY <1>1, <1>2, <1>5, <1>6, <1>7 DEF Inv

(* A block is what comes next of the content, and empty only when the LOB  *)
(* was shortened.                                                          *)
LEMMA BlockFacts ==
  ASSUME Inv, pc = "get", pos < length, NEW block \in Answers
  PROVE  /\ Len(block) \in Nat /\ pos + Len(block) \in 0 .. length
         /\ got \o block = SubSeq(Whole, 1, pos + Len(block))
         /\ block = <<>> => cut # "none" \/ changed
<1>1. Whole \in Seq(Units) /\ Len(Whole) \in Nat /\ MaxChunk \in Nat /\ MaxChunk >= 2
  BY ContentFacts, LobBounds DEF Inv
<1>2. /\ length \in 0 .. Len(Whole) /\ pos \in 0 .. length /\ got = SubSeq(Whole, 1, pos)
      /\ cut = "none" => length = Len(Whole)
  BY DEF Inv, FetchOK
<1>3. /\ store \in Seq(Units) /\ Len(store) \in Nat /\ Len(store) <= Len(Whole)
      /\ store = SubSeq(Whole, 1, Len(store)) /\ (~changed => store = Whole)
  BY DEF Inv, StoreOK
<1> DEFINE c == chunkLength
           end == IF pos + c > Len(store) THEN Len(store) ELSE pos + c
<1>4. c \in 1 .. length - pos
  BY <1>1, <1>2 DEF chunkLength
<1>5. block \in IF end <= pos THEN {<<>>} ELSE {SubSeq(store, pos + 1, e) : e \in pos + 1 .. end}
  BY DEF Answers
<1> HIDE DEF c
<1>6. cut = "none" /\ ~changed => end > pos
  BY <1>2, <1>3, <1>4
<1>7. CASE end <= pos
  <2>1. block = <<>>
    BY <1>5, <1>7
  <2>2. Len(block) = 0
    BY <2>1
  <2>3. pos + Len(block) = pos
    BY <1>2, <2>2
  <2>4. got \o <<>> = got
    <3>1. got \in Seq(Units)
      BY <1>1, <1>2
    <3> QED BY <3>1, ConcatEmptySeq
  <2>5. cut # "none" \/ changed
    BY <1>2, <1>3, <1>4, <1>6, <1>7
  <2> QED BY <1>2, <2>1, <2>2, <2>3, <2>4, <2>5
<1>8. CASE ~(end <= pos)
  <2>1. PICK e \in pos + 1 .. end : block = SubSeq(store, pos + 1, e)
    BY <1>5, <1>8
  <2>2. e \in Int /\ pos + 1 <= e /\ e <= length /\ e <= Len(store) /\ e <= Len(Whole)
    BY <1>2, <1>3, <1>4, <2>1
  <2>3. block \in Seq(Units) /\ Len(block) = e - pos
    BY <1>2, <1>3, <2>1, <2>2
  <2>4. block = SubSeq(Whole, pos + 1, e)
    <3>1. \A i \in pos + 1 .. e : store[i] = Whole[i]
      BY <1>1, <1>2, <1>3, <2>2
    <3>2. SubSeq(Whole, pos + 1, e) \in Seq(Units) /\ Len(SubSeq(Whole, pos + 1, e)) = e - pos
      BY <1>1, <1>2, <2>2
    <3>3. ASSUME NEW i \in 1 .. e - pos
          PROVE  SubSeq(store, pos + 1, e)[i] = SubSeq(Whole, pos + 1, e)[i]
      <4>1. pos + i \in pos + 1 .. e
        BY <1>2, <2>2
      <4>2. SubSeq(store, pos + 1, e)[i] = store[pos + i]
        BY <1>2, <1>3, <2>2
      <4>3. SubSeq(Whole, pos + 1, e)[i] = Whole[pos + i]
        BY <1>1, <1>2, <2>2
      <4> QED BY <3>1, <4>1, <4>2, <4>3
    <3> QED BY <2>1, <2>3, <3>2, <3>3, SeqEqual
  <2>5. got \o block = SubSeq(Whole, 1, e)
    <3>1. 1 \in 1 .. Len(Whole) + 1 /\ pos \in 1 - 1 .. Len(Whole) /\ e \in pos .. Len(Whole)
      BY <1>1, <1>2, <2>2
    <3>2. SubSeq(Whole, 1, pos) \o SubSeq(Whole, pos + 1, e) = SubSeq(Whole, 1, e)
      BY <1>1, <3>1, ConcatAdjacentSubSeq
    <3> QED BY <1>2, <2>4, <3>2
  <2>6. pos + Len(block) = e /\ e \in 0 .. length /\ Len(block) \in Nat /\ block # <<>>
    BY <1>2, <2>2, <2>3
  <2> QED BY <2>5, <2>6
<1> QED BY <1>7, <1>8

(* A block arrives, or its answer is cut off. *)
LEMMA BlockInv ==
  ASSUME Inv, FetchBlock \/ FetchBlockCut
  PROVE  Inv'
<1>1. /\ pc = "get" /\ pos < length /\ UNCHANGED param /\ UNCHANGED writer
      /\ store' = store /\ changed' = changed
      /\ length' = length /\ result' = result
  BY DEF FetchBlock, FetchBlockCut
<1>2. PICK block :
        /\ fetchedBlock(block)
        /\ \/ block \in Answers /\ cut' = cut
           \/ block = <<>> /\ cut' \in {"lost", "deadline"}
  BY DEF FetchBlock, FetchBlockCut
<1>3. /\ got' = got \o block /\ pos' = pos + Len(block)
      /\ pc' = IF block = <<>> THEN "decode" ELSE pc
  BY <1>2 DEF fetchedBlock
<1>4. /\ ParamOK' /\ Whole' = Whole /\ Content' = Content
  BY <1>1, ParamKept DEF Inv
<1>5. WriterOK' /\ DanglingOK' /\ FramesOK' /\ firstFrame' = firstFrame
  BY <1>1, <1>3, WriterKept
<1>6. Whole \in Seq(Units)
  BY ContentFacts DEF Inv
<1>7. /\ length \in 0 .. Len(Whole) /\ pos \in 0 .. length /\ got = SubSeq(Whole, 1, pos)
      /\ cut = "none" => length = Len(Whole)
  BY <1>1 DEF Inv, FetchOK
<1>8. /\ pos' \in 0 .. length /\ got' = SubSeq(Whole, 1, pos')
      /\ block = <<>> => cut' # "none" \/ changed'
  <2>1. CASE block \in Answers /\ cut' = cut
    BY <1>1, <1>3, <2>1, BlockFacts
  <2>2. CASE block = <<>> /\ cut' \in {"lost", "deadline"}
    <3>1. got \in Seq(Units) /\ Len(<<>>) = 0
      BY <1>6, <1>7
    <3>2. got \o <<>> = got
      BY <3>1, ConcatEmptySeq
    <3>3. pos' = pos
      BY <1>3, <1>7, <2>2, <3>1
    <3> QED BY <1>3, <1>7, <2>2, <3>2, <3>3
  <2> QED BY <1>2, <2>1, <2>2
<1>9. cut # "none" => cut' # "none"
  BY <1>2
<1>10. FetchOK'
  BY <1>1, <1>3, <1>4, <1>7, <1>8, <1>9 DEF Inv, FetchOK
<1>11. StoreOK'
  <2>1. pc' \in {"get", "decode"}
    BY <1>1, <1>3
  <2> QED BY <1>1, <2>1, StoreKept DEF Late, Early
<1>12. FlagsOK'
  <2>1. firstFrame' \in BOOLEAN /\ changed' \in BOOLEAN
    BY <1>1, <1>5 DEF Inv, FlagsOK
  <2>2. cut' \in Cuts
    BY <1>2 DEF Inv, FlagsOK, Cuts
  <2> QED BY <2>1, <2>2 DEF FlagsOK
<1> QED BY <1>1, <1>3, <1>4, <1>5, <1>10, <1>11, <1>12 DEF Inv

LEMMA FetchFailsInv ==
  ASSUME Inv, FetchFails
  PROVE  Inv'
<1>1. /\ pc \in {"stored", "get"} /\ pc' = "failed" /\ UNCHANGED param /\ UNCHANGED fetch /\ UNCHANGED writer
      /\ store' = store /\ cut' = cut /\ changed' = changed
  BY DEF FetchFails
<1>2. ParamOK' /\ WriterOK' /\ DanglingOK' /\ FramesOK' /\ firstFrame' = firstFrame
  BY <1>1, ParamKept, WriterKept DEF Inv
<1>3. StoreOK' /\ FetchOK'
  BY <1>1, StoreKept, FetchKept DEF Late, Early
<1>4. FlagsOK'
  BY <1>1, <1>2 DEF Inv, FlagsOK
<1> QED BY <1>1, <1>2, <1>3, <1>4 DEF Inv

LEMMA FetchReturnsInv ==
  ASSUME Inv, FetchReturns
  PROVE  Inv'
<1>1. /\ pc = "decode" \/ (pc = "get" /\ pos >= length)
      /\ pc' = "fetched" /\ UNCHANGED param /\ UNCHANGED writer
      /\ store' = store /\ cut' = cut /\ changed' = changed
      /\ length' = length /\ pos' = pos /\ got' = got
      /\ result' = IF form.clob THEN decode(got) ELSE got
  BY DEF FetchReturns
<1>2. /\ ParamOK' /\ Whole' = Whole /\ Content' = Content
      /\ WriterOK' /\ DanglingOK' /\ FramesOK' /\ firstFrame' = firstFrame
  BY <1>1, ParamKept, WriterKept DEF Inv
<1>3. /\ Content \in Seq(Runes) /\ Whole \in Seq(Units) /\ Len(Whole) \in Nat
      /\ ~form.clob => Content \in Seq(Bytes) /\ Whole = Content
  BY ContentFacts DEF Inv
<1>4. /\ length \in 0 .. Len(Whole) /\ pos \in 0 .. length /\ got = SubSeq(Whole, 1, pos)
      /\ pc = "get" /\ cut = "none" => length = Len(Whole)
      /\ pc = "decode" => cut # "none" \/ changed
  BY DEF Inv, FetchOK
<1>5. result' \in Seq(Chars)
  <2>1. CASE form.clob
    <3>1. got \in Seq(Units)
      BY <1>3, <1>4
    <3> QED BY <1>1, <2>1, <3>1, DecodeType
  <2>2. CASE ~form.clob
    <3>1. got \in Seq(Bytes)
      BY <1>3, <1>4, <2>2
    <3> QED BY <1>1, <2>2, <3>1, BytesAreRunes
  <2> QED BY <2>1, <2>2
<1>6. ASSUME cut = "none", ~changed PROVE result' = Content
  <2>1. pos = Len(Whole)
    BY <1>1, <1>3, <1>4, <1>6
  <2>2. got = Whole
    BY <1>3, <1>4, <2>1, SubSeqFull
  <2>3. decode(Whole) = Content
    BY <1>3, DecodeEncode DEF Whole
  <2> QED BY <1>1, <1>3, <2>2, <2>3
<1>7. FetchOK'
  BY <1>1, <1>2, <1>4, <1>5, <1>6 DEF FetchOK
<1>8. StoreOK'
  BY <1>1, StoreKept DEF Late, Early
<1>9. FlagsOK'
  BY <1>1, <1>2 DEF Inv, FlagsOK
<1> QED BY <1>1, <1>2, <1>7, <1>8, <1>9 DEF Inv

LEMMA ShortenInv ==
  ASSUME Inv, Shorten
  PROVE  Inv'
<1>1. /\ pc = "get" /\ pc' = pc /\ UNCHANGED param /\ UNCHANGED writer /\ UNCHANGED fetch
      /\ cut' = cut /\ changed' = TRUE
  BY DEF Shorten
<1>2. PICK n \in 0 .. Len(store) - 1 : store' = SubSeq(store, 1, n)
  BY DEF Shorten
<1>3. /\ ParamOK' /\ Whole' = Whole /\ Content' = Content
      /\ WriterOK' /\ DanglingOK' /\ FramesOK' /\ firstFrame' = firstFrame
  BY <1>1, ParamKept, WriterKept DEF Inv
<1>4. Whole \in Seq(Units) /\ Len(Whole) \in Nat
  BY ContentFacts DEF Inv
<1>5. /\ store \in Seq(Units) /\ Len(store) \in Nat /\ Len(store) <= Len(Whole)
      /\ store = SubSeq(Whole, 1, Len(store))
  BY <1>1 DEF Inv, StoreOK
<1>6. StoreOK'
  <2>1. n \in Nat /\ n <= Len(store) /\ n <= Len(Whole)
    BY <1>4, <1>5
  <2>2. store' \in Seq(Units) /\ Len(store') = n
    BY <1>2, <1>5, <2>1
  <2>3. SubSeq(Whole, 1, n) \in Seq(Units) /\ Len(SubSeq(Whole, 1, n)) = n
    BY <1>4, <2>1
  <2>4. ASSUME NEW i \in 1 .. n PROVE store'[i] = SubSeq(Whole, 1, n)[i]
    <3>1. store'[i] = store[i]
      BY <1>2, <1>5, <2>1
    <3>2. i \in 1 .. Len(store)
      BY <1>5, <2>1
    <3>3. SubSeq(Whole, 1, Len(store))[i] = Whole[i]
      BY <1>4, <1>5, <3>2
    <3>4. SubSeq(Whole, 1, n)[i] = Whole[i]
      BY <1>4, <2>1
    <3> QED BY <1>5, <3>1, <3>3, <3>4
  <2>5. store' = SubSeq(Whole, 1, n)
    BY <2>2, <2>3, <2>4, SeqEqual
  <2>6. store' \in Seq(Units \cup {"d"})
    BY <2>2, SeqMonotonic
  <2> QED BY <1>1, <1>3, <2>1, <2>2, <2>5, <2>6 DEF StoreOK
<1>7. FetchOK'
  <2>1. length' = length /\ pos' = pos /\ got' = got /\ result' = result
    BY <1>1 DEF fetch
  <2> QED BY <1>1, <1>3, <2>1 DEF Inv, FetchOK
<1>8. FlagsOK'
  BY <1>1, <1>3 DEF Inv, FlagsOK
<1> QED BY <1>1, <1>3, <1>6, <1>7, <1>8 DEF Inv

-----------------------------------------------------------------------------
LEMMA NextInv == Inv /\ [LobNext]_lobVars => Inv'
<1> SUFFICES ASSUME Inv, [LobNext]_lobVars PROVE Inv'
  OBVIOUS
<1>1. CASE WriteWhole
  BY <1>1, WriteWholeInv
<1>2. CASE WriteChunk
  BY <1>2, WriteChunkInv
<1>3. CASE WriteEOF
  BY <1>3, WriteEOFInv
<1>4. CASE SocketFails
  BY <1>4, SocketFailsInv
<1>12. CASE ReaderFails
  BY <1>12, ReaderFailsInv
<1>13. CASE CloseDangling
  BY <1>13, CloseDanglingInv
<1>5. CASE Transmit
  BY <1>5, TransmitInv
<1>6. CASE FetchLength \/ FetchLengthCut
  BY <1>6, LengthInv
<1>7. CASE FetchBlock \/ FetchBlockCut
  BY <1>7, BlockInv
<1>8. CASE FetchFails
  BY <1>8, FetchFailsInv
<1>9. CASE FetchReturns
  BY <1>9, FetchReturnsInv
<1>10. CASE Shorten
  BY <1>10, ShortenInv
<1>11. CASE UNCHANGED lobVars
  <2>1. /\ UNCHANGED param /\ UNCHANGED writer /\ UNCHANGED fetch
        /\ pc' = pc /\ store' = store
        /\ cut' = cut /\ changed' = changed
    BY <1>11 DEF lobVars, param, writer, fetch
  <2>2. ParamOK' /\ Whole' = Whole /\ Content' = Content
    BY <2>1, ParamKept DEF Inv
  <2>3. WriterOK' /\ DanglingOK' /\ FramesOK' /\ firstFrame' = firstFrame
    BY <2>1, WriterKept
  <2>4. StoreOK'
    <3>1. form' = form /\ source' = source /\ Segmented' = Segmented
      BY <2>1, ParamKept DEF Inv
    <3>2. (Truncated \/ FilledUp) => (Truncated \/ FilledUp)'
      BY <2>1, <3>1 DEF Truncated, FilledUp
    <3> QED BY <2>1, <2>2, <3>2 DEF Inv, StoreOK
  <2>5. FetchOK'
    BY <2>1, <2>2 DEF Inv, FetchOK, fetch
  <2>6. FlagsOK'
    BY <2>1, <2>3 DEF Inv, FlagsOK
  <2> QED BY <2>1, <2>2, <2>3, <2>4, <2>5, <2>6 DEF Inv
<1> QED BY <1>1, <1>2, <1>3, <1>4, <1>5, <1>6, <1>7, <1>8, <1>9, <1>10, <1>11,
        <1>12, <1>13 DEF LobNext

LEMMA AlwaysInv == LobSpec => []Inv
BY InitInv, NextInv, PTL DEF LobSpec

LEMMA InvType == Inv => LobTypeOK
<1> SUFFICES ASSUME Inv PROVE LobTypeOK
  OBVIOUS
<1>1. ParamOK /\ FlagsOK /\ WriterOK /\ FramesOK /\ StoreOK /\ FetchOK
  BY DEF Inv
<1>2. source \in Seq(Runes) /\ Len(source) \in Nat /\ Whole \in Seq(Units)
  BY <1>1, ContentFacts DEF ParamOK
<1>3. taken \in 0 .. Len(source)
  BY <1>1 DEF WriterOK
<1>4. off \in 0 .. Len(encode(source))
  <2> DEFINE n == Len(source) - taken
             e == encode(Pre(taken))
             w == encode(Rest(n))
  <2>1. n \in 0 .. Len(source) - taken /\ taken + n = Len(source)
    BY <1>2, <1>3
  <2>2. e \in Seq(Units) /\ w \in Seq(Units) /\ encode(Pre(taken + n)) = e \o w
    BY <1>1, <1>3, <2>1, RestFacts
  <2>3. Pre(Len(source)) = source
    BY <1>2, SubSeqFull DEF Pre
  <2>4. encode(source) = e \o w
    BY <2>1, <2>2, <2>3
  <2>5. off = Len(e)
    BY <1>1 DEF WriterOK
  <2> HIDE DEF n, e, w
  <2>6. Len(e \o w) = Len(e) + Len(w) /\ Len(e) \in Nat /\ Len(w) \in Nat
    BY <2>2
  <2>7. Len(encode(source)) = Len(e) + Len(w)
    BY <2>4, <2>6, Zenon
  <2> QED BY <2>5, <2>6, <2>7
<1>5. \A i \in DOMAIN frames :
        frames[i] \in [op : {"create", "set"}, off : Nat, data : Seq(Units)]
  <2>1. frames \in Seq(Frames)
    BY <1>1 DEF FramesOK
  <2>2. \A i \in DOMAIN frames : frames[i] \in Frames
    BY <2>1
  <2> QED BY <2>2 DEF Frames
<1>6. length \in 0 .. Len(Whole) /\ pos \in 0 .. length /\ got = SubSeq(Whole, 1, pos)
      /\ result \in Seq(Chars)
  BY <1>1 DEF FetchOK
<1>7. length \in Nat /\ got \in Seq(Units)
  BY <1>2, <1>6
<1>8. result \in Seq({"b", "s", "?"})
  BY <1>6, Zenon DEF Chars
<1>9. store \in Seq(Units \cup {"d"})
  BY <1>1 DEF StoreOK
<1>10. pc \in {"write", "end", "stored", "get", "decode", "fetched", "failed", "dangling", "closed"}
  BY DEF Inv
<1>11. firstFrame \in BOOLEAN /\ (firstFrame <=> taken = 0)
  BY <1>1, Zenon DEF FlagsOK, WriterOK
<1>12. cut \in {"none", "lost", "deadline"} /\ changed \in BOOLEAN
  BY <1>1 DEF FlagsOK, Cuts
<1> QED BY <1>3, <1>4, <1>5, <1>6, <1>7, <1>8, <1>9, <1>10, <1>11, <1>12, Zenon DEF LobTypeOK

LEMMA InvText == Inv => FramesAreText
<1> SUFFICES ASSUME Inv, NEW i \in DOMAIN frames
             PROVE  /\ Segmented => Len(frames[i].data) <= MaxChunk
                    /\ form.clob => ~Contains(decode(frames[i].data), "?")
  BY DEF FramesAreText
<1>1. /\ i \in 1 .. Len(frames)
      /\ Segmented => Len(frames[i].data) <= MaxChunk
      /\ form.clob => \E t \in Seq(Runes) : frames[i].data = encode(t)
  BY DEF Inv, FramesOK
<1>2. ASSUME form.clob PROVE ~Contains(decode(frames[i].data), "?")
  <2>1. PICK t \in Seq(Runes) : frames[i].data = encode(t)
    BY <1>1, <1>2
  <2>2. decode(frames[i].data) = t
    BY <2>1, DecodeEncode
  <2>3. \A k \in 1 .. Len(t) : t[k] # "?"
    BY ElementOfSeq DEF Runes
  <2> QED BY <2>2, <2>3 DEF Contains
<1> QED BY <1>1, <1>2

LEMMA InvFaithful == Inv => FetchIsFaithful
<1> SUFFICES ASSUME Inv PROVE FetchIsFaithful
  OBVIOUS
<1>1. Whole \in Seq(Units) /\ Len(Whole) \in Nat
  BY ContentFacts DEF Inv
<1>2. /\ length \in 0 .. Len(Whole) /\ pos \in 0 .. length /\ got = SubSeq(Whole, 1, pos)
      /\ pc = "fetched" /\ cut = "none" /\ ~changed => result = Content
  BY DEF Inv, FetchOK
<1>3. got \in Seq(Units) /\ Len(got) = pos /\ pos <= Len(Whole)
  BY <1>1, <1>2
<1>4. SubSeq(got, 1, Len(got)) = got
  BY <1>3, SubSeqFull
<1>5. IsPrefix(got, Whole)
  BY <1>2, <1>3, <1>4 DEF IsPrefix
<1> QED BY <1>2, <1>5 DEF FetchIsFaithful, Whole

-----------------------------------------------------------------------------
(* Lob is type correct: neither writeLobCreate nor fetchLob runs past the  *)
(* end of its input.                                                       *)
THEOREM LobTypeCorrect == LobSpec => []LobTypeOK
BY AlwaysInv, InvType, PTL

(* For content and chunks of any size, the CREATE and SET frames that      *)
(* writeLobCreate and its reader variants write leave exactly the caller's *)
(* content on the server, however the reader delivers it; and what         *)
(* conn.Close may have the server store after a failed reader is a prefix  *)
(* of it, or one filled up to the declared length.                         *)
THEOREM ContentIsStored == LobSpec => []StoredIsSent
<1>1. Inv => StoredIsSent
  BY DEF Inv, StoreOK, StoredIsSent, Whole
<1> QED BY <1>1, AlwaysInv, PTL

(* No frame of a streamed LOB exceeds maxLobChunk, and readUTF16Chunk      *)
(* never ends one between the halves of a surrogate pair.                  *)
THEOREM ChunksAreText == LobSpec => []FramesAreText
BY AlwaysInv, InvText, PTL

(* fetchLob collects a prefix of the content, block after block, and       *)
(* returns all of it unless the LOB was shortened or an answer cut off.    *)
THEOREM FetchedIsStored == LobSpec => []FetchIsFaithful
BY AlwaysInv, InvFaithful, PTL

-----------------------------------------------------------------------------
(***************************************************************************)
(* LobParams: a statement that succeeds has bound the content its caller   *)
(* passed, although temporary ids are used again.                          *)
(***************************************************************************)

-----------------------------------------------------------------------------
(***************************************************************************)
(* The inductive invariant.                                                *)
(***************************************************************************)
(* Only QueryUpdatable writes to the caller's slice. *)
ArgsOK == ~reused => args = meant

BindInv == BindTypeOK /\ ArgsOK /\ BindsOwnPayload /\ PayloadTravels

-----------------------------------------------------------------------------
(***************************************************************************)
(* Values, and the ids prepareLobParams gives.                             *)
(***************************************************************************)
LEMMA SlotFacts ==
  ASSUME NEW v \in Slots
  PROVE  /\ v.kind = "ref" => v.id \in Ids
         /\ v.kind = "raw" => v.data \in Payloads
         /\ v.kind # "raw" => v.data = "none"
         /\ v \in Inputs => v.kind # "ref"
<1>1. CASE v \in {Null, Bad}
  BY <1>1 DEF Null, Bad
<1>2. CASE \E p \in Payloads : v = Raw(p)
  BY <1>2 DEF Raw
<1>3. CASE \E id \in Ids : v = Ref(id)
  <2>1. v.kind = "ref" /\ v.id \in Ids /\ v.data = "none"
    BY <1>3 DEF Ref
  <2>2. v \notin Inputs
    BY <2>1 DEF Inputs, Null, Bad, Raw
  <2> QED BY <2>1, <2>2
<1> QED BY <1>1, <1>2, <1>3 DEF Slots, Inputs

(* The parameters before i that need an id. *)
before(i) == {j \in raws : j < i}

(* nextLobID gives every parameter an id of its own, and the ids of one    *)
(* request stay above the position the sequence is left at.                *)
LEMMA IdFacts ==
  ASSUME BindTypeOK, NEW c \in Conns, Fits(c)
  PROVE  /\ Cardinality(raws) \in Nat
         /\ nextLobID(lobIDSeq[c], Cardinality(raws)) \in -MaxIDs - 1 .. -1
         /\ \A i \in raws : idOf(lobIDSeq[c], i) \in Ids
         /\ \A i, j \in raws : i # j => idOf(lobIDSeq[c], i) # idOf(lobIDSeq[c], j)
<1>0. lobIDSeq[c] \in -MaxIDs - 1 .. -1 /\ MaxIDs \in Nat /\ NumParams \in Nat
  BY LobParamsBounds DEF BindTypeOK
<1>1. raws \subseteq Params /\ Params \subseteq Int
  BY DEF raws, reached, Params
<1>2. IsFiniteSet(raws)
  <2>1. IsFiniteSet(Params)
    BY <1>0, FS_Interval DEF Params
  <2> QED BY <1>1, <2>1, FS_Subset
<1>3. Cardinality(raws) \in Nat
  BY <1>2, FS_CardinalityType
<1>4. ASSUME NEW i \in raws
      PROVE  /\ IsFiniteSet(before(i)) /\ Cardinality(before(i)) \in Nat
             /\ Cardinality(before(i)) < Cardinality(raws)
  <2>1. before(i) \subseteq raws /\ i \in Int
    BY <1>1 DEF before
  <2>2. i \notin before(i)
    BY <2>1 DEF before
  <2>3. IsFiniteSet(before(i)) /\ Cardinality(before(i)) \in Nat
    BY <1>2, <2>1, FS_Subset, FS_CardinalityType
  <2>4. /\ Cardinality(before(i)) <= Cardinality(raws)
        /\ Cardinality(before(i)) # Cardinality(raws)
    BY <1>2, <2>1, <2>2, FS_Subset
  <2> QED BY <1>3, <2>3, <2>4
<1>5. \A i \in raws : idOf(lobIDSeq[c], i) = lobIDSeq[c] - Cardinality(before(i))
  BY DEF idOf, nextLobID, before
<1>6. ASSUME NEW i \in raws PROVE idOf(lobIDSeq[c], i) \in Ids
  BY <1>0, <1>3, <1>4, <1>5 DEF Fits, Ids
<1>7. ASSUME NEW i \in raws, NEW j \in raws, i < j
      PROVE  idOf(lobIDSeq[c], i) # idOf(lobIDSeq[c], j)
  <2>1. before(i) \subseteq before(j) /\ i \in before(j) /\ i \notin before(i)
    <3>1. i \in Int /\ j \in Int /\ raws \subseteq Int
      BY <1>1
    <3>2. ASSUME NEW k \in before(i) PROVE k \in before(j)
      <4>1. k \in raws /\ k < i /\ k \in Int
        BY <3>1 DEF before
      <4>2. k < j
        BY <1>7, <3>1, <4>1
      <4> QED BY <4>1, <4>2 DEF before
    <3>3. i \in before(j)
      BY <1>7 DEF before
    <3>4. i \notin before(i)
      BY <3>1 DEF before
    <3> QED BY <3>2, <3>3, <3>4
  <2>2. Cardinality(before(i)) # Cardinality(before(j))
    BY <1>4, <2>1, FS_Subset
  <2> QED BY <1>0, <1>4, <1>5, <2>2
<1>8. ASSUME NEW i \in raws, NEW j \in raws, i # j
      PROVE  idOf(lobIDSeq[c], i) # idOf(lobIDSeq[c], j)
  <2>1. i < j \/ j < i
    BY <1>1, <1>8
  <2> QED BY <1>7, <2>1
<1>9. nextLobID(lobIDSeq[c], Cardinality(raws)) \in -MaxIDs - 1 .. -1
  BY <1>0, <1>3 DEF Fits, nextLobID
<1> QED BY <1>3, <1>6, <1>8, <1>9

(* The request after prepareLobParams: new references in place of the      *)
(* contents, every other value as it was.                                  *)
LEMMA ValuesFacts ==
  ASSUME BindTypeOK, NEW c \in Conns, Fits(c)
  PROVE  LET values == prepareLobParams(lobIDSeq[c]) IN
         /\ values \in [Params -> Slots]
         /\ \A i \in raws : /\ i \in Params /\ args[i].data \in Payloads
                            /\ values[i].kind = "ref"
                            /\ values[i].id = idOf(lobIDSeq[c], i)
         /\ \A i \in Params \ raws : values[i] = args[i]
<1> DEFINE values == prepareLobParams(lobIDSeq[c])
<1>1. raws \subseteq Params
  BY DEF raws, reached
<1>2. \A i \in Params : values[i] = IF i \in raws THEN Ref(idOf(lobIDSeq[c], i)) ELSE args[i]
  BY DEF prepareLobParams
<1>3. ASSUME NEW i \in raws
      PROVE  Ref(idOf(lobIDSeq[c], i)) \in Slots /\ args[i].data \in Payloads
  <2>1. idOf(lobIDSeq[c], i) \in Ids
    BY IdFacts
  <2>2. args[i].kind = "raw" /\ args[i] \in Slots
    BY <1>1 DEF BindTypeOK, raws
  <2> QED BY <2>1, <2>2, SlotFacts DEF Slots
<1>4. values \in [Params -> Slots]
  BY <1>3 DEF prepareLobParams, BindTypeOK
<1> HIDE DEF values
<1>5. ASSUME NEW i \in raws
      PROVE  values[i].kind = "ref" /\ values[i].id = idOf(lobIDSeq[c], i)
  <2>1. values[i] = Ref(idOf(lobIDSeq[c], i))
    BY <1>1, <1>2
  <2> QED BY <2>1 DEF Ref
<1> QED BY <1>1, <1>2, <1>3, <1>4, <1>5 DEF values

(* The server has the content of every parameter under its own id, and     *)
(* what it had before under the others.                                    *)
LEMMA ReceivedFacts ==
  ASSUME BindTypeOK, NEW c \in Conns, Fits(c)
  PROVE  LET values == prepareLobParams(lobIDSeq[c])
             after  == received(c, values)
         IN  /\ after \in [Conns -> [Ids -> Payloads \cup {"none"}]]
             /\ \A i \in raws : after[c][values[i].id] = args[i].data
<1> DEFINE values == prepareLobParams(lobIDSeq[c])
           hit(id) == CHOOSE i \in raws : /\ values[i].id = id
                                          /\ \A j \in raws : values[j].id = id => j <= i
           block == [id \in Ids |-> IF \E i \in raws : values[i].id = id
                                    THEN args[hit(id)].data ELSE temp[c][id]]
<1>1. raws \subseteq Int
  BY DEF raws, reached, Params
<1>2. \A i \in raws : args[i].data \in Payloads /\ values[i].id \in Ids
  BY ValuesFacts, IdFacts
<1>3. \A i, j \in raws : values[i].id = values[j].id => i = j
  BY ValuesFacts, IdFacts
<1>4. received(c, values) = [temp EXCEPT ![c] = block]
  BY DEF received
<1> HIDE DEF values
<1>5. ASSUME NEW i \in raws PROVE hit(values[i].id) = i
  <2>1. \A j \in raws : values[j].id = values[i].id => j <= i
    BY <1>1, <1>3
  <2>2. ASSUME NEW k \in raws, values[k].id = values[i].id PROVE k = i
    BY <1>3, <2>2
  <2> QED BY <2>1, <2>2
<1>6. ASSUME NEW id \in Ids, \E i \in raws : values[i].id = id
      PROVE  hit(id) \in raws
  BY <1>5, <1>6
<1> HIDE DEF hit
<1>7. block \in [Ids -> Payloads \cup {"none"}]
  <2>1. temp[c] \in [Ids -> Payloads \cup {"none"}]
    BY DEF BindTypeOK
  <2> QED BY <1>2, <1>6, <2>1
<1>8. \A i \in raws : block[values[i].id] = args[i].data
  BY <1>2, <1>5
<1> HIDE DEF block
<1>9. received(c, values) \in [Conns -> [Ids -> Payloads \cup {"none"}]]
  BY <1>4, <1>7 DEF BindTypeOK
<1>10. received(c, values)[c] = block
  BY <1>4 DEF BindTypeOK
<1> QED BY <1>8, <1>9, <1>10 DEF values

-----------------------------------------------------------------------------
(***************************************************************************)
(* The steps.                                                              *)
(***************************************************************************)
LEMMA NoExecFacts ==
  /\ NoExec.how = "none" /\ NoExec.again = FALSE /\ NoExec.sent = {} /\ NoExec.ids = {}
  /\ NoExec.bound \in [Params -> Payloads \cup {"none"}]
  /\ LET failed == [NoExec EXCEPT !.how = "error"] IN
       /\ failed.how = "error" /\ failed.again = FALSE /\ failed.sent = {} /\ failed.ids = {}
       /\ failed.bound \in [Params -> Payloads \cup {"none"}]
  BY DEF NoExec

(* What a step leaves in last when nothing was executed successfully. *)
LEMMA NothingBound ==
  ASSUME last' = NoExec \/ last' = [NoExec EXCEPT !.how = "error"]
  PROVE  /\ last'.how \in {"none", "ok", "error"} /\ last'.again \in BOOLEAN
         /\ last'.sent \subseteq Ids /\ last'.ids \subseteq Ids
         /\ last'.bound \in [Params -> Payloads \cup {"none"}]
         /\ BindsOwnPayload' /\ PayloadTravels'
<1>1. /\ last'.how \in {"none", "error"} /\ last'.again = FALSE
      /\ last'.sent = {} /\ last'.ids = {}
      /\ last'.bound \in [Params -> Payloads \cup {"none"}]
  BY NoExecFacts
<1> QED BY <1>1 DEF BindsOwnPayload, PayloadTravels

(* What the three outcomes of an execution do to the connection's sequence *)
(* and to the caller's slice.                                              *)
LEMMA CallFacts ==
  ASSUME BindInv, NEW c \in Conns, NEW path \in Paths, Fits(c),
         args' = argsAfter(path, prepareLobParams(lobIDSeq[c])),
         reused' = (reused \/ path = "updatable"),
         lobIDSeq' = [lobIDSeq EXCEPT ![c] = nextLobID(@, Cardinality(raws))],
         meant' = meant
  PROVE  /\ args' \in [Params -> Slots] /\ reused' \in BOOLEAN /\ ArgsOK'
         /\ lobIDSeq' \in [Conns -> -MaxIDs - 1 .. -1]
<1>1. args' \in [Params -> Slots]
  <2>1. args \in [Params -> Slots] /\ prepareLobParams(lobIDSeq[c]) \in [Params -> Slots]
    BY ValuesFacts DEF BindInv, BindTypeOK
  <2> QED BY <2>1 DEF argsAfter
<1>2. reused' \in BOOLEAN
  BY Zenon
<1>3. ArgsOK'
  <2>1. ~reused' => ~reused /\ path # "updatable"
    BY Zenon
  <2>2. path # "updatable" => args' = args
    BY DEF argsAfter
  <2> QED BY <2>1, <2>2 DEF BindInv, ArgsOK
<1>4. lobIDSeq' \in [Conns -> -MaxIDs - 1 .. -1]
  <2>1. nextLobID(lobIDSeq[c], Cardinality(raws)) \in -MaxIDs - 1 .. -1
    BY IdFacts DEF BindInv
  <2> QED BY <2>1 DEF BindInv, BindTypeOK
<1> QED BY <1>1, <1>2, <1>3, <1>4

LEMMA InitBind == BindInit => BindInv
<1> SUFFICES ASSUME BindInit PROVE BindInv
  OBVIOUS
<1>0. MaxIDs \in Nat /\ MaxFails \in Nat
  BY LobParamsBounds
<1>1. BindTypeOK
  <2>1. lobIDSeq \in [Conns -> -MaxIDs - 1 .. -1] /\ fails \in 0 .. MaxFails
    BY <1>0 DEF BindInit
  <2>2. args \in [Params -> Slots] /\ meant \in [Params -> Inputs]
    BY DEF BindInit, Slots
  <2>3. /\ last.how \in {"none", "ok", "error"} /\ last.again \in BOOLEAN
        /\ last.sent \subseteq Ids /\ last.ids \subseteq Ids
        /\ last.bound \in [Params -> Payloads \cup {"none"}]
    BY NoExecFacts DEF BindInit
  <2>4. temp \in [Conns -> [Ids -> Payloads \cup {"none"}]]
    BY DEF BindInit
  <2>5. brokenConns \subseteq Conns /\ reused \in BOOLEAN
    BY DEF BindInit
  <2> QED BY <2>1, <2>2, <2>3, <2>4, <2>5, Zenon DEF BindTypeOK
<1>2. ArgsOK
  BY DEF BindInit, ArgsOK
<1>3. BindsOwnPayload /\ PayloadTravels
  BY NoExecFacts DEF BindInit, BindsOwnPayload, PayloadTravels
<1> QED BY <1>1, <1>2, <1>3 DEF BindInv

LEMMA ExecuteRefusedInv ==
  ASSUME BindInv, NEW c \in Conns, NEW path \in Paths, ExecuteRefused(c, path)
  PROVE  BindInv'
<1>1. /\ args' \in [Params -> Slots] /\ reused' \in BOOLEAN /\ ArgsOK'
      /\ lobIDSeq' \in [Conns -> -MaxIDs - 1 .. -1]
  BY CallFacts DEF ExecuteRefused
<1>2. /\ last'.how \in {"none", "ok", "error"} /\ last'.again \in BOOLEAN
      /\ last'.sent \subseteq Ids /\ last'.ids \subseteq Ids
      /\ last'.bound \in [Params -> Payloads \cup {"none"}]
      /\ BindsOwnPayload' /\ PayloadTravels'
  BY NothingBound DEF ExecuteRefused
<1>3. brokenConns' \subseteq Conns
  BY DEF ExecuteRefused, BindInv, BindTypeOK
<1>4. BindTypeOK'
  BY <1>1, <1>2, <1>3, Zenon DEF ExecuteRefused, BindInv, BindTypeOK
<1> QED BY <1>1, <1>2, <1>4 DEF BindInv

LEMMA ExecuteFailsInv ==
  ASSUME BindInv, NEW c \in Conns, NEW path \in Paths, ExecuteFails(c, path)
  PROVE  BindInv'
<1>1. /\ args' \in [Params -> Slots] /\ reused' \in BOOLEAN /\ ArgsOK'
      /\ lobIDSeq' \in [Conns -> -MaxIDs - 1 .. -1]
  BY CallFacts DEF ExecuteFails
<1>2. /\ last'.how \in {"none", "ok", "error"} /\ last'.again \in BOOLEAN
      /\ last'.sent \subseteq Ids /\ last'.ids \subseteq Ids
      /\ last'.bound \in [Params -> Payloads \cup {"none"}]
      /\ BindsOwnPayload' /\ PayloadTravels'
  BY NothingBound DEF ExecuteFails
<1>3. brokenConns' \subseteq Conns /\ fails' \in 0 .. MaxFails
  BY LobParamsBounds DEF ExecuteFails, BindInv, BindTypeOK
<1>4. temp' \in [Conns -> [Ids -> Payloads \cup {"none"}]]
  BY ReceivedFacts DEF ExecuteFails, BindInv, BindTypeOK
<1>5. BindTypeOK'
  BY <1>1, <1>2, <1>3, <1>4, Zenon DEF ExecuteFails, BindInv, BindTypeOK
<1> QED BY <1>1, <1>2, <1>5 DEF BindInv

(* A slice that was not reused holds contents and NULLs, so that every     *)
(* reference of the request is new, has its payload in the transmission    *)
(* and resolves to its own parameter.                                      *)
LEMMA ExecuteInv ==
  ASSUME BindInv, NEW c \in Conns, NEW path \in Paths, Execute(c, path)
  PROVE  BindInv'
<1> DEFINE values == prepareLobParams(lobIDSeq[c])
<1>0. BindTypeOK /\ Fits(c) /\ reached = Params
  BY DEF BindInv, Execute
<1>1. /\ args' \in [Params -> Slots] /\ reused' \in BOOLEAN /\ ArgsOK'
      /\ lobIDSeq' \in [Conns -> -MaxIDs - 1 .. -1]
  BY CallFacts DEF Execute
<1>2. /\ temp' \in [Conns -> [Ids -> Payloads \cup {"none"}]]
      /\ \A i \in raws : temp'[c][values[i].id] = args[i].data
  BY <1>0, ReceivedFacts DEF Execute
<1>3. /\ values \in [Params -> Slots]
      /\ \A i \in raws : i \in Params /\ values[i].kind = "ref" /\ values[i].id \in Ids
      /\ \A i \in Params \ raws : values[i] = args[i]
  BY <1>0, ValuesFacts, IdFacts
<1>4. \A i \in Params : values[i].kind = "ref" => values[i].id \in Ids
  BY <1>3, SlotFacts
<1>5. /\ last'.again = reused /\ last'.how \in {"ok", "error"}
      /\ last'.sent = {values[i].id : i \in raws} /\ last'.ids = ids(values)
      /\ last'.bound = [i \in Params |-> IF values[i].kind = "ref"
                                         THEN temp'[c][values[i].id] ELSE "none"]
  BY DEF Execute
<1> HIDE DEF values
<1>6. BindTypeOK'
  <2>1. last'.sent \subseteq Ids /\ last'.ids \subseteq Ids
    BY <1>3, <1>4, <1>5 DEF ids
  <2>2. last'.bound \in [Params -> Payloads \cup {"none"}]
    BY <1>2, <1>4, <1>5
  <2>3. last'.again \in BOOLEAN
    BY <1>5, Zenon DEF BindInv, BindTypeOK
  <2>4. last'.how \in {"none", "ok", "error"}
    BY <1>5
  <2> QED BY <1>1, <1>2, <2>1, <2>2, <2>3, <2>4, Zenon DEF Execute, BindInv, BindTypeOK
<1>7. ASSUME ~reused
      PROVE  \A i \in Params : /\ args[i] = meant[i]
                               /\ args[i].kind # "ref"
                               /\ i \notin raws => args[i].data = "none"
  <2> SUFFICES ASSUME NEW i \in Params
               PROVE  /\ args[i] = meant[i]
                      /\ args[i].kind # "ref"
                      /\ i \notin raws => args[i].data = "none"
    OBVIOUS
  <2>1. args[i] = meant[i] /\ args[i] \in Inputs /\ args[i] \in Slots
    BY <1>7 DEF BindInv, ArgsOK, BindTypeOK, Slots
  <2>2. i \notin raws => args[i].kind # "raw"
    BY <1>0 DEF raws
  <2> QED BY <2>1, <2>2, SlotFacts
<1>8. BindsOwnPayload'
  <2> SUFFICES ASSUME ~reused, NEW i \in Params PROVE last'.bound[i] = meant[i].data
    BY <1>5 DEF BindsOwnPayload, Execute
  <2>1. CASE i \in raws
    <3>1. last'.bound[i] = args[i].data
      BY <1>2, <1>3, <1>5, <2>1
    <3> QED BY <1>7, <3>1
  <2>2. CASE i \notin raws
    <3>1. values[i].kind # "ref"
      BY <1>3, <1>7, <2>2
    <3>2. last'.bound[i] = "none"
      BY <1>5, <3>1
    <3> QED BY <1>7, <2>2, <3>2
  <2> QED BY <2>1, <2>2
<1>9. PayloadTravels'
  <2> SUFFICES ASSUME ~reused, NEW i \in Params, values[i].kind = "ref"
               PROVE  values[i].id \in last'.sent
    BY <1>5 DEF PayloadTravels, ids
  <2>1. i \in raws
    BY <1>3, <1>7
  <2> QED BY <1>5, <2>1
<1> QED BY <1>1, <1>6, <1>8, <1>9 DEF BindInv

LEMMA ResetSessionInv ==
  ASSUME BindInv, NEW c \in Conns, ResetSession(c)
  PROVE  BindInv'
<1>1. /\ last'.how \in {"none", "ok", "error"} /\ last'.again \in BOOLEAN
      /\ last'.sent \subseteq Ids /\ last'.ids \subseteq Ids
      /\ last'.bound \in [Params -> Payloads \cup {"none"}]
      /\ BindsOwnPayload' /\ PayloadTravels'
  BY NothingBound DEF ResetSession
<1>2. lobIDSeq' \in [Conns -> -MaxIDs - 1 .. -1]
  BY LobParamsBounds DEF ResetSession, BindInv, BindTypeOK
<1>3. BindTypeOK'
  BY <1>1, <1>2, Zenon DEF ResetSession, BindInv, BindTypeOK
<1>4. ArgsOK'
  BY DEF ResetSession, BindInv, ArgsOK
<1> QED BY <1>1, <1>3, <1>4 DEF BindInv

LEMMA NewArgsInv ==
  ASSUME BindInv, NEW values \in [Params -> Inputs], NewArgs(values)
  PROVE  BindInv'
<1>1. /\ last'.how \in {"none", "ok", "error"} /\ last'.again \in BOOLEAN
      /\ last'.sent \subseteq Ids /\ last'.ids \subseteq Ids
      /\ last'.bound \in [Params -> Payloads \cup {"none"}]
      /\ BindsOwnPayload' /\ PayloadTravels'
  BY NothingBound DEF NewArgs
<1>2. args' \in [Params -> Slots] /\ meant' \in [Params -> Inputs]
  BY DEF NewArgs, Slots
<1>3. reused' \in BOOLEAN
  BY DEF NewArgs
<1>4. BindTypeOK'
  BY <1>1, <1>2, <1>3, Zenon DEF NewArgs, BindInv, BindTypeOK
<1>5. ArgsOK'
  BY DEF NewArgs, ArgsOK
<1> QED BY <1>1, <1>4, <1>5 DEF BindInv

-----------------------------------------------------------------------------
(***************************************************************************)
(* The theorems.                                                           *)
(***************************************************************************)
LEMMA StepBind == BindInv /\ [BindNext]_bindVars => BindInv'
<1> SUFFICES ASSUME BindInv, [BindNext]_bindVars PROVE BindInv'
  OBVIOUS
<1>1. ASSUME NEW c \in Conns, NEW path \in Paths,
             Execute(c, path) \/ ExecuteRefused(c, path) \/ ExecuteFails(c, path)
      PROVE  BindInv'
  BY <1>1, ExecuteInv, ExecuteRefusedInv, ExecuteFailsInv
<1>2. ASSUME NEW c \in Conns, ResetSession(c) PROVE BindInv'
  BY <1>2, ResetSessionInv
<1>3. ASSUME NEW values \in [Params -> Inputs], NewArgs(values) PROVE BindInv'
  BY <1>3, NewArgsInv
<1>4. CASE UNCHANGED bindVars
  BY <1>4, Zenon DEF bindVars, BindInv, BindTypeOK, ArgsOK, BindsOwnPayload, PayloadTravels
<1> QED BY <1>1, <1>2, <1>3, <1>4 DEF BindNext

LEMMA AlwaysBind == BindSpec => []BindInv
  BY InitBind, StepBind, PTL DEF BindSpec

(* Every variable stays in its type; the ids nextLobID gives are negative  *)
(* and never reach those of stored LOBs.                                   *)
THEOREM LobParamsTypeCorrect == BindSpec => []BindTypeOK
<1>1. BindInv => BindTypeOK
  BY DEF BindInv
<1> QED BY <1>1, AlwaysBind, PTL

(* prepareLobParams gives each content an id of its own, so a statement    *)
(* that succeeds binds to every parameter what its caller passed, whatever *)
(* a reset sequence or a failed exchange left in the session under the     *)
(* same ids, unless QueryUpdatable had the slice before.                   *)
THEOREM ContentsAreBound == BindSpec => []BindsOwnPayload
<1>1. BindInv => BindsOwnPayload
  BY DEF BindInv
<1> QED BY <1>1, AlwaysBind, PTL

(* Every id a request binds has its payload in the same transmission, as   *)
(* the comment on prepareLobParams says, with the same exception.          *)
THEOREM PayloadsTravelWithIds == BindSpec => []PayloadTravels
<1>1. BindInv => PayloadTravels
  BY DEF BindInv
<1> QED BY <1>1, AlwaysBind, PTL
=============================================================================
