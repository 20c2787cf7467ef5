---------------------------- MODULE ParamsProofs ----------------------------
(***************************************************************************)
(* Proofs about Params for every signature, every declaration of the       *)
(* caller's variables, every set of calls and every range of numbers: the  *)
(* type invariant, that the values the procedure returned reach the        *)
(* caller's destinations, and that the caller's values reach the           *)
(* procedure.                                                              *)
(***************************************************************************)
EXTENDS Params, TLAPS

-----------------------------------------------------------------------------
(***************************************************************************)
(* Conversions.                                                            *)
(***************************************************************************)

(* Whole is the identity on the even numbers, which are its values.        *)
LEMMA WholeFacts ==
  ASSUME NEW n \in Int
  PROVE  /\ Whole(n) \in Int /\ Whole(n) % 2 = 0
         /\ n % 2 = 0 => Whole(n) = n
         /\ Whole(n) = n => n % 2 = 0
BY DEF Whole

(* Division with a remainder. *)
LEMMA DivMod ==
  ASSUME NEW m \in Nat \ {0}, NEW a \in Int
  PROVE  /\ a \div m \in Int /\ a % m \in 0 .. m - 1
         /\ a = (m * (a \div m)) + (a % m)
OBVIOUS

(* A remainder in range is the number itself. *)
LEMMA ModInRange ==
  ASSUME NEW m \in Nat, NEW k \in 0 .. m - 1
  PROVE  k % m = k
OBVIOUS

(* Whole multiples of the divisor do not change the remainder. *)
LEMMA ModShift ==
  ASSUME NEW m \in Nat \ {0}, NEW a \in Int, NEW q \in Int
  PROVE  ((m * q) + a) % m = a % m
<1> DEFINE k == a % m
           p == q + (a \div m)
<1>1. k \in 0 .. m - 1 /\ p \in Int /\ a = (m * (a \div m)) + k
  BY DivMod
<1>2. (m * q) + a = (m * p) + k
  BY <1>1, DivMod
<1> HIDE DEF k, p
<1> DEFINE b == (m * p) + k
<1>3. b \in Int
  BY <1>1
<1>4. b = (m * (b \div m)) + (b % m) /\ b % m \in 0 .. m - 1 /\ b \div m \in Int
  BY <1>3, DivMod
<1> DEFINE d == (b \div m) - p
           r == b % m
<1>5. m * d = k - r /\ d \in Int /\ r \in 0 .. m - 1
  BY <1>1, <1>4
<1> HIDE DEF d, r
<1>6. d = 0
  <2>1. CASE d >= 1
    <3>1. m * d >= m
      BY <1>5, <2>1
    <3> QED BY <1>1, <1>5, <3>1
  <2>2. CASE d <= -1
    <3>1. m * d <= -m
      BY <1>5, <2>2
    <3> QED BY <1>1, <1>5, <3>1
  <2> QED BY <1>5, <2>1, <2>2
<1>7. b % m = k
  BY <1>1, <1>5, <1>6 DEF r
<1> QED BY <1>2, <1>7 DEF b, k

(* Wrapping an even number yields the even number of the width with the    *)
(* same low bits: itself, when it fits.                                    *)
LEMMA WrapFacts ==
  ASSUME NEW w \in Nat \ {0}, NEW n \in Int, n % 2 = 0
  PROVE  /\ Within(Wrap(n, w), w)
         /\ LowBits(Wrap(n, w), w) = LowBits(n, w)
         /\ Within(n, w) => Wrap(n, w) = n
<1> DEFINE h == n \div 2
           m == 2 * w
           r == (h + w) % m
           q == (h + w) \div m
<1>1. n = 2 * h /\ h \in Int /\ m \in Nat \ {0}
  OBVIOUS
<1>2. r \in 0 .. m - 1 /\ q \in Int /\ h + w = (m * q) + r
  <2> HIDE DEF m, h
  <2>1. h + w \in Int
    BY <1>1
  <2> QED BY <1>1, <2>1, DivMod
<1>3. Wrap(n, w) = 2 * (r - w)
  BY DEF Wrap
<1>4. Within(Wrap(n, w), w)
  BY <1>2, <1>3 DEF Within
<1>5. Wrap(n, w) \div 2 = r - w
  BY <1>2, <1>3
<1>6. r - w = (m * (-q)) + h
  <2> HIDE DEF m, h, r, q
  <2> QED BY <1>1, <1>2
<1> HIDE DEF h, m, r, q
<1>7. (r - w) % m = h % m
  <2>1. -q \in Int
    BY <1>2
  <2>2. ((m * (-q)) + h) % m = h % m
    BY <1>1, <2>1, ModShift
  <2> QED BY <1>6, <2>2
<1>8. Within(n, w) => Wrap(n, w) = n
  <2> SUFFICES ASSUME Within(n, w) PROVE r = h + w
    BY <1>1, <1>2, <1>3
  <2>1. h + w \in 0 .. m - 1
    BY <1>1 DEF Within, m
  <2> QED BY <1>1, <2>1, ModInRange DEF r
<1>9. LowBits(Wrap(n, w), w) = LowBits(n, w)
  BY <1>5, <1>7 DEF h, m, LowBits
<1> QED BY <1>4, <1>8, <1>9

(* A double converts to an even number; near an int64, to its whole part.  *)
LEMMA ToInt64Facts ==
  ASSUME NEW n \in Int, NEW z \in ToInt64(n)
  PROVE  z \in Int /\ z % 2 = 0 /\ (Within(Whole(n), Long) => z = Whole(n))
<1>1. Long \in Nat
  BY ParamsBounds
<1>2. CASE Within(Whole(n), Long)
  BY <1>2, WholeFacts DEF ToInt64
<1>3. CASE ~Within(Whole(n), Long)
  <2>1. z \in {-2 * Long, 0, 2 * Long - 2}
    BY <1>3 DEF ToInt64
  <2> QED BY <1>1, <1>3, <2>1
<1> QED BY <1>2, <1>3

(* The kinds an argument may have. *)
ArgKinds == GoKinds \cup {"int", "int32", "float32", "array", "struct"}

(* Numbers that an argument of an integer varKind, a text or a Boolean stands *)
(* for.                                                                    *)
Input(v) ==
  /\ v.n \in Int /\ v.k \in ArgKinds
  /\ v.k \in {"int64", "int", "int32"} => v.n % 2 = 0
  /\ v.k = "int64" => v.n \in Int64s
  /\ v.k = "bool" => v.n \in {0, 2}

(* What asInt64 makes of a kind it knows. *)
LEMMA AsInt64Facts ==
  ASSUME NEW v, Input(v), v.k \in {"int64", "int", "int32", "bool", "float64"}, NEW z \in asInt64(v)
  PROVE  z \in Int /\ z % 2 = 0 /\ (~BeyondInt64(v) => z = Whole(v.n))
<1>1. v.n \in Int
  BY DEF Input
<1>2. CASE v.k = "float64"
  BY <1>1, <1>2, ToInt64Facts DEF asInt64, BeyondInt64
<1>3. CASE v.k # "float64"
  <2>1. z = v.n /\ v.n % 2 = 0
    BY <1>3 DEF asInt64, Input
  <2> QED BY <1>1, <2>1, WholeFacts
<1> QED BY <1>2, <1>3

(* A coercion that does not refuse a value keeps it, as far as Arrives     *)
(* says.                                                                   *)
LEMMA CoercedArrives ==
  ASSUME NEW c \in Columns, NEW v, Input(v), ~refused(c, v), NEW n \in coerced(c, v)
  PROVE  Arrives(c, v, n)
<1>0. v.k \in ArgKinds /\ v.n \in Int
  BY DEF Input
<1>1. CASE c \in IntegerColumns
  <2>1. Known(c) = {"int64", "int", "int32", "bool", "float64"}
    BY <1>1 DEF Known, IntegerColumns
  <2>2. Width(c) \in Nat \ {0}
    BY <1>1, ParamsBounds DEF Width, IntegerColumns
  <2>3. PICK z \in asInt64(v) : n = Wrap(z, Width(c))
    BY <1>1 DEF coerced, IntegerColumns
  <2>4. CASE v.k \in Known(c)
    <3>1. z \in Int /\ z % 2 = 0 /\ (~BeyondInt64(v) => z = Whole(v.n))
      BY <2>1, <2>3, <2>4, AsInt64Facts
    <3>2. /\ Within(n, Width(c))
          /\ LowBits(n, Width(c)) = LowBits(z, Width(c))
          /\ Within(z, Width(c)) => n = z
      BY <2>2, <2>3, <3>1, WrapFacts
    <3>3. ArrivesInteger(Width(c), v, n)
      BY <3>1, <3>2 DEF ArrivesInteger
    <3> QED BY <1>1, <2>4, <3>3 DEF Arrives, IntegerColumns
  <2>5. CASE v.k \notin Known(c)
    <3>1. z = 0
      BY <2>1, <2>3, <2>5 DEF asInt64
    <3>2. Within(0, Width(c)) /\ 0 % 2 = 0
      BY <2>2 DEF Within
    <3>3. n = 0
      BY <2>2, <2>3, <3>1, <3>2, WrapFacts
    <3> QED BY <2>5, <3>3, Zenon DEF Arrives
  <2> QED BY <2>4, <2>5
<1>2. CASE c = "double"
  <2>1. n = asFloat64(v) /\ Known(c) = {"float64", "float32", "int64"}
    BY <1>2 DEF coerced, Known, IntegerColumns
  <2>2. v.k = "int64" /\ ~BeyondDoubles(v) => Nearest[v.n] = v.n
    BY DoublesRound DEF BeyondDoubles, Input
  <2> QED BY <1>2, <2>1, <2>2 DEF Arrives, asFloat64, BeyondDoubles, IntegerColumns
<1>3. CASE c = "bool"
  <2>1. n = asBool(v) /\ Known(c) = {"bool", "int64"}
    BY <1>3 DEF coerced, Known, IntegerColumns
  <2>2. v.k \in Known(c) => (n = 0 <=> v.n = 0)
    BY <2>1 DEF asBool
  <2>3. v.k \notin Known(c) => n = 0
    BY <2>1 DEF asBool
  <2> QED BY <1>3, <2>2, <2>3 DEF Arrives, IntegerColumns
<1>4. CASE c = "dec"
  <2>1. n = asDecimal(v) /\ v.k \in Known(c)
    BY <1>0, <1>4 DEF coerced, Known, IntegerColumns, ArgKinds
  <2> QED BY <1>4, <2>1 DEF Arrives, asDecimal, IntegerColumns
<1>5. CASE c = "time"
  <2>1. n = asTime(v) /\ Known(c) = {"time"}
    BY <1>5 DEF coerced, Known, IntegerColumns
  <2> QED BY <1>5, <2>1 DEF Arrives, asTime, IntegerColumns
<1>6. CASE c = "bin"
  <2>1. n = asBytes(v) /\ Known(c) = {"bytes", "string"}
    BY <1>6 DEF coerced, Known, IntegerColumns
  <2> QED BY <1>6, <2>1 DEF Arrives, asBytes, IntegerColumns
<1>7. CASE c \in {"char", "array"}
  <2>1. n = v.n /\ v.k \in Known(c)
    BY <1>0, <1>7 DEF coerced, Known, IntegerColumns, ArgKinds, asString
  <2> QED BY <1>7, <2>1 DEF Arrives, IntegerColumns
<1> QED BY <1>1, <1>2, <1>3, <1>4, <1>5, <1>6, <1>7 DEF Columns, IntegerColumns

(* What a variable holds before the call, and what database/sql passes.    *)
LEMMA HeldFacts ==
  ASSUME NEW k \in GoKinds, k # "any", NEW v \in Held(k)
  PROVE  \E n \in Numbers : /\ v = Go(k, n)
                            /\ k # "float64" => Whole(n) = n
                            /\ Holdable(k, n)
                            /\ k = "bool" => n \in {0, 2}
<1>1. PICK n \in HeldNumbers(k) : v = Go(k, n)
  BY DEF Held
<1> QED BY <1>1 DEF HeldNumbers

LEMMA HeldInput ==
  ASSUME NEW k \in GoKinds, NEW v \in Held(k), v # Nil
  PROVE  Input(v)
<1>0. Numbers \subseteq Int
  BY ParamsBounds
<1>1. CASE k = "any"
  <2>1. v \in {Go("int", 2), Go("int8", 2), Go("float32", 3), Go("struct", 0)}
    BY <1>1 DEF Held
  <2> QED BY <2>1 DEF Go, Input, ArgKinds, GoKinds
<1>2. CASE k # "any"
  <2>1. PICK n \in Numbers : /\ v = Go(k, n)
                             /\ k # "float64" => Whole(n) = n
                             /\ Holdable(k, n)
                             /\ k = "bool" => n \in {0, 2}
    BY <1>2, HeldFacts
  <2>2. n \in Int /\ v.k = k /\ v.n = n /\ k \in ArgKinds
    BY <1>0, <2>1 DEF Go, ArgKinds
  <2>3. k = "float64" \/ n % 2 = 0
    BY <2>1, <2>2, WholeFacts
  <2>4. k = "int64" => n \in Int64s
    BY <2>1, <2>2, <2>3 DEF Holdable, Within, Int64s
  <2> QED BY <2>1, <2>2, <2>3, <2>4 DEF Input
<1> QED BY <1>1, <1>2

LEMMA PlainInput ==
  ASSUME NEW v \in Plain, v # Nil
  PROVE  Input(v)
<1>0. Numbers \subseteq Int /\ \A z \in Int64s : z \in Int /\ z % 2 = 0
  BY ParamsBounds DEF Int64s
<1>1. CASE v \in {Go("time", 2), Go("array", 4), Go("string", NotNumber), Go("bool", 2)}
  BY <1>1 DEF Go, Input, NotNumber, ArgKinds, GoKinds
<1>2. ASSUME NEW n \in Numbers \cap Int64s, v = Go("int64", n)
      PROVE  Input(v)
  BY <1>0, <1>2 DEF Go, Input, ArgKinds, GoKinds
<1>3. ASSUME NEW k \in {"string", "bytes"}, NEW n \in {m \in Numbers : Whole(m) = m}, v = Go(k, n)
      PROVE  Input(v)
  BY <1>0, <1>3 DEF Go, Input, ArgKinds, GoKinds
<1>4. ASSUME NEW n \in Doubles, v = Go("float64", n)
      PROVE  Input(v)
  BY <1>0, <1>4 DEF Go, Input, ArgKinds, GoKinds, Doubles
<1> QED BY <1>1, <1>2, <1>3, <1>4 DEF Plain

-----------------------------------------------------------------------------
(***************************************************************************)
(* Destinations.                                                           *)
(***************************************************************************)

(* A value of kind k, as CallTypeOK has it. *)
Typed(k, v) ==
  k # "any" => /\ v \in {Zero(k), Go(k, v.n)}
               /\ k \in IntegerKinds => v.n % 2 = 0 /\ Holdable(k, v.n)

(* v is what a destination of kind k holds for the value w. *)
Shows(k, v, w) ==
  IF w = Nil THEN v = Zero(k)
  ELSE IF k \in IntegerKinds THEN BeyondInt64(w) \/ v.n = Whole(w.n)
  ELSE v.n = IF k = "float64" /\ BeyondDoubles(w) THEN Nearest[w.n] ELSE w.n

LEMMA ZeroTyped ==
  ASSUME NEW k \in GoKinds
  PROVE  Typed(k, Zero(k))
<1>1. Small \in Nat \ {0} /\ Long \in Nat \ {0}
  BY ParamsBounds
<1>2. Zero(k).n = 0
  BY DEF Zero, Go, Nil
<1>3. Holdable(k, 0)
  BY <1>1 DEF Holdable, Within
<1> QED BY <1>2, <1>3 DEF Typed

LEMMA HeldTyped ==
  ASSUME NEW k \in GoKinds, NEW v \in Held(k)
  PROVE  Typed(k, v)
<1> SUFFICES ASSUME k # "any"
             PROVE  /\ v \in {Zero(k), Go(k, v.n)}
                    /\ k \in IntegerKinds => v.n % 2 = 0 /\ Holdable(k, v.n)
  BY DEF Typed
<1>1. PICK n \in Numbers : /\ v = Go(k, n)
                           /\ k # "float64" => Whole(n) = n
                           /\ Holdable(k, n)
  BY HeldFacts
<1>2. n \in Int /\ v.n = n
  BY <1>1, ParamsBounds DEF Go
<1> QED BY <1>1, <1>2, WholeFacts DEF IntegerKinds

(* A value of the response is NULL or shows one of the numbers. *)
LEMMA ServerValueFacts ==
  ASSUME NEW c \in Columns, NEW w \in ServerValues(c), w # Nil
  PROVE  /\ w.n \in Int /\ w = Go(w.k, w.n)
         /\ w.k \in {"int64", "float64", "string", "bytes", "bool", "time"}
         /\ w.k = "int64" => w.n \in Int64s
         /\ w.k = "bool" => w.n \in {0, 2}
<1>0. Numbers \subseteq Int
  BY ParamsBounds
<1>1. PICK n \in Numbers : /\ w = Go(KindOf(c), n)
                           /\ c \notin {"double", "dec"} => Whole(n) = n
                           /\ c \in IntegerColumns => Within(n, Width(c))
                           /\ c = "bool" => n \in {0, 2}
  BY DEF ServerValues
<1>2. w.k = KindOf(c) /\ w.n = n /\ n \in Int
  BY <1>0, <1>1 DEF Go
<1>3. KindOf(c) \in {"int64", "float64", "string", "bytes", "bool", "time"}
  BY DEF KindOf, Columns, IntegerColumns
<1>4. KindOf(c) = "int64" => c \in IntegerColumns
  BY DEF KindOf, Columns, IntegerColumns
<1>5. KindOf(c) = "bool" => c = "bool"
  BY DEF KindOf, Columns, IntegerColumns
<1>6. c \in IntegerColumns => n \in Int64s
  <2> SUFFICES ASSUME c \in IntegerColumns PROVE n \in Int64s
    OBVIOUS
  <2>1. Width(c) \in Nat /\ Width(c) <= Long /\ Long \in Nat
    BY ParamsBounds DEF Width, IntegerColumns
  <2>2. n % 2 = 0
    BY <1>1, <1>2, WholeFacts DEF IntegerColumns
  <2> QED BY <1>1, <1>2, <2>1, <2>2 DEF Within, Int64s
<1> QED BY <1>1, <1>2, <1>3, <1>4, <1>5, <1>6

(* What asOutInt64 makes of a value: an even number, and the whole part    *)
(* unless the value is beyond int64.                                       *)
LEMMA OutIntegerFacts ==
  ASSUME NEW c \in Columns, NEW w \in ServerValues(c), w # Nil, NEW z \in asOutInt64(w)
  PROVE  z % 2 = 0 /\ (~BeyondInt64(w) => z = Whole(w.n))
<1>1. w.n \in Int /\ (w.k = "int64" => w.n \in Int64s) /\ (w.k = "bool" => w.n \in {0, 2})
  BY ServerValueFacts
<1>2. CASE w.k = "float64"
  <2>1. z \in ToInt64(w.n)
    BY <1>2 DEF asOutInt64
  <2> QED BY <1>1, <1>2, <2>1, ToInt64Facts DEF BeyondInt64
<1>3. CASE w.k # "float64"
  <2>1. w.k \in {"int64", "bool"} /\ z = w.n
    BY <1>3 DEF asOutInt64
  <2>2. w.n % 2 = 0
    BY <1>1, <2>1 DEF Int64s
  <2> QED BY <1>1, <2>1, <2>2, WholeFacts
<1> QED BY <1>2, <1>3

(* What assignOutValue stores is of the destination's kind and shows the   *)
(* value.                                                                  *)
LEMMA AssignExact ==
  ASSUME NEW k \in GoKinds, NEW c \in Columns, NEW w \in ServerValues(c),
         NEW r \in assignOutValue(k, w), r.ok
  PROVE  Typed(k, r.v) /\ Shows(k, r.v, w)
<1>1. CASE w = Nil
  <2>1. r = Ok(Zero(k))
    BY <1>1 DEF assignOutValue, Zero, Fail
  <2> QED BY <1>1, <2>1, ZeroTyped DEF Ok, Shows
<1>2. CASE w # Nil /\ k = "any"
  <2>1. r = Ok(w)
    BY <1>2 DEF assignOutValue
  <2> QED BY <1>2, <2>1 DEF Ok, Typed, Shows, IntegerKinds
<1>3. CASE w # Nil /\ k \in IntegerKinds
  <2>1. r \in assignInteger(k, w)
    BY <1>3 DEF assignOutValue, IntegerKinds
  <2>2. PICK z \in asOutInt64(w) : r = IF Holdable(k, z) THEN Ok(Go(k, z)) ELSE Fail
    BY <2>1 DEF assignInteger, Fail
  <2>3. r.v = Go(k, z) /\ r.v.n = z /\ Holdable(k, z)
    BY <2>2 DEF Ok, Fail, Go
  <2>4. z % 2 = 0 /\ (~BeyondInt64(w) => z = Whole(w.n))
    BY <1>3, <2>2, OutIntegerFacts
  <2>5. Typed(k, r.v)
    BY <2>3, <2>4 DEF Typed
  <2> QED BY <1>3, <2>3, <2>4, <2>5 DEF Shows
<1>4. CASE w # Nil /\ k # "any" /\ k \notin IntegerKinds
  <2>1. /\ w.n \in Int /\ w = Go(w.k, w.n)
        /\ w.k = "int64" => w.n \in Int64s
    BY <1>4, ServerValueFacts
  <2>2. r = CASE k = "bytes" /\ w.k \in {"bytes", "string"}  -> Ok(Go(k, w.n))
              [] k = "string"                              -> Ok(Go(k, w.n))
              [] k = "float64" /\ w.k = "float64"           -> Ok(w)
              [] k = "float64" /\ w.k = "int64"             -> Ok(Go(k, Nearest[w.n]))
              [] k \in {"time", "bool"} /\ w.k = k           -> Ok(w)
              [] OTHER                                     -> Fail
    BY <1>4 DEF assignOutValue
  <2>3. \/ r.v = Go(k, w.n) /\ ~(k = "float64" /\ w.k = "int64")
        \/ k = "float64" /\ w.k = "int64" /\ r.v = Go(k, Nearest[w.n])
    BY <2>1, <2>2 DEF Ok, Fail
  <2>4. w.k = "int64" /\ ~BeyondDoubles(w) => Nearest[w.n] = w.n
    BY <2>1, DoublesRound DEF BeyondDoubles
  <2>5. r.v = Go(k, r.v.n)
    BY <2>3 DEF Go
  <2>6. r.v.n = IF k = "float64" /\ BeyondDoubles(w) THEN Nearest[w.n] ELSE w.n
    BY <2>3, <2>4 DEF Go, BeyondDoubles
  <2> QED BY <1>4, <2>5, <2>6 DEF Typed, Shows
<1> QED BY <1>1, <1>2, <1>3, <1>4

-----------------------------------------------------------------------------
(***************************************************************************)
(* The inductive invariant.                                                *)
(***************************************************************************)

(* The call: its signature, its variables and its arguments. *)
CallOK ==
  /\ column \in [Positions -> Columns] /\ varKind \in [Vars -> GoKinds]
  /\ arg \in [Positions -> Args]
  /\ DOMAIN mem = Vars /\ \A x \in Vars : old[x] \in Held(varKind[x])

(* What has happened by each point of the call. *)
FlowOK ==
  /\ at \in {"call", "send", "run"} => mem = old /\ ~ran /\ ~dropped /\ todo = {}
  /\ at # "returned" => err = "none"
  /\ at = "apply" => ran
  /\ at = "returned" /\ err = "none" => todo = {} /\ (ran \/ Outs = {})
  /\ err \in {"arg", "encode"} => ~ran /\ mem = old
  /\ err = "arg" => ~dropped

(* From the send on, the server has an encoding of what the caller intended,  *)
(* none of which was refused.                                              *)
SentOK ==
  at \in {"run", "apply"} \/ ran =>
    \A i \in Positions : /\ delivered[i] \in Sent(column[i], intended(i))
                         /\ intended(i) = Nil \/ ~refused(column[i], intended(i))

(* While the destinations are filled, the response is there. *)
RowOK ==
  at = "apply" => /\ todo \subseteq Outs
                  /\ \A i \in Outs : outRow[i] \in ServerValues(column[i])

(* A variable that changed, or that was stored to, holds the value of a    *)
(* position bound to it that has been applied.                             *)
StoredOK ==
  \A x \in Vars :
    \/ mem[x] # old[x]
    \/ /\ at = "apply" \/ (at = "returned" /\ err = "none")
       /\ \E i \in Outs \ todo : arg[i].var = x
    => ran /\ \E i \in Outs \ todo : arg[i].var = x /\ Holds(x, outRow[i])

Inv == CallTypeOK /\ CallOK /\ FlowOK /\ SentOK /\ RowOK /\ StoredOK

(* The variables hold numbers that their kinds can represent. *)
MemTyped == \A x \in Vars : Typed(varKind[x], mem[x])

ControlTyped ==
  /\ at \in {"call", "send", "run", "apply", "returned"}
  /\ err \in {"none", "arg", "encode", "io", "server", "out"}
  /\ todo \subseteq Positions /\ ran \in BOOLEAN /\ dropped \in BOOLEAN

LEMMA TypeParts ==
  /\ CallTypeOK <=> MemTyped /\ ControlTyped
  /\ CallTypeOK' <=> MemTyped' /\ ControlTyped'
<1>1. CallTypeOK <=> MemTyped /\ ControlTyped
  BY DEF CallTypeOK, MemTyped, Typed, ControlTyped
<1>2. CallTypeOK' <=> MemTyped' /\ ControlTyped'
  BY DEF CallTypeOK, MemTyped, Typed, ControlTyped
<1> QED BY <1>1, <1>2

(* Nothing but the arguments of a sql.Out has a destination or an input    *)
(* of its own.                                                             *)
LEMMA ArgFacts ==
  ASSUME NEW a \in Args
  PROVE  /\ a.out \in BOOLEAN /\ a.in \in BOOLEAN
         /\ a.in => a.out
         /\ a.out => a.var \in Vars
         /\ ~a.out => a.v \in Plain
<1>1. ASSUME NEW w \in Plain, a = [out |-> FALSE, in |-> FALSE, var |-> NoVar, v |-> w]
      PROVE  a.out = FALSE /\ a.in = FALSE /\ a.v \in Plain
  BY <1>1
<1>2. ASSUME NEW in \in BOOLEAN, NEW y \in Vars,
             a = [out |-> TRUE, in |-> in, var |-> y, v |-> Nil]
      PROVE  a.out = TRUE /\ a.in = in /\ a.var \in Vars
  BY <1>2
<1>3. \/ \E w \in Plain : a = [out |-> FALSE, in |-> FALSE, var |-> NoVar, v |-> w]
      \/ \E in \in BOOLEAN, y \in Vars : a = [out |-> TRUE, in |-> in, var |-> y, v |-> Nil]
  BY SMT DEF Args
<1> QED BY <1>1, <1>2, <1>3

LEMMA OutsFacts ==
  ASSUME CallOK
  PROVE  Outs \subseteq Positions /\ \A i \in Outs : arg[i].var \in Vars
BY ArgFacts DEF CallOK, Outs

LEMMA InitInv == CallInit => Inv
<1> SUFFICES ASSUME CallInit PROVE Inv
  OBVIOUS
<1>1. column \in [Positions -> Columns] /\ varKind \in [Vars -> GoKinds]
  BY ParamsBounds DEF CallInit
<1>2. /\ mem = old /\ DOMAIN mem = Vars /\ \A x \in Vars : old[x] \in Held(varKind[x])
      /\ at = "call" /\ err = "none" /\ ran = FALSE /\ todo = {} /\ dropped = FALSE
  BY DEF CallInit
<1>3. arg \in [Positions -> Args]
  <2>1. Nil \in Plain
    BY DEF Plain
  <2> DEFINE z == [out |-> FALSE, in |-> FALSE, var |-> NoVar, v |-> Nil]
             plain == {[out |-> FALSE, in |-> FALSE, var |-> NoVar, v |-> w] : w \in Plain}
  <2>2. z \in plain
    BY <2>1, Zenon
  <2>3. \A t : t \in plain => t \in Args
    BY SMT DEF Args
  <2> HIDE DEF z
  <2>4. z \in Args
    BY <2>2, <2>3, Zenon
  <2> QED BY <2>4 DEF CallInit, z
<1>4. MemTyped
  BY <1>1, <1>2, HeldTyped DEF MemTyped
<1>5. CallTypeOK
  BY <1>2, <1>4, TypeParts DEF ControlTyped
<1>6. CallOK
  BY <1>1, <1>2, <1>3 DEF CallOK
<1>7. FlowOK
  BY <1>2 DEF FlowOK
<1>8. SentOK /\ RowOK
  BY <1>2 DEF SentOK, RowOK
<1>9. StoredOK
  BY <1>2 DEF StoredOK
<1> QED BY <1>5, <1>6, <1>7, <1>8, <1>9 DEF Inv

-----------------------------------------------------------------------------
(***************************************************************************)
(* Each operation preserves it.                                            *)
(***************************************************************************)
LEMMA ExecuteInv ==
  ASSUME Inv, NEW args \in Calls, ExecuteCall(args)
  PROVE  Inv'
<1>1. /\ at = "call" /\ arg' = args
      /\ column' = column /\ varKind' = varKind /\ mem' = mem /\ old' = old
      /\ delivered' = delivered /\ ran' = ran /\ outRow' = outRow
      /\ todo' = todo /\ dropped' = dropped
  BY DEF ExecuteCall
<1>2. (at' = "returned" /\ err' = "arg") \/ (at' = "send" /\ err' = err)
  BY DEF ExecuteCall, Return
<1>3. mem = old /\ ~ran /\ ~dropped /\ todo = {} /\ err = "none"
  BY <1>1 DEF Inv, FlowOK
<1>4. arg' \in [Positions -> Args]
  BY <1>1, CallsAreArguments
<1>5. CallOK'
  BY <1>1, <1>4 DEF Inv, CallOK
<1>6. MemTyped' /\ ran \in BOOLEAN /\ dropped \in BOOLEAN
  BY <1>1, TypeParts DEF Inv, MemTyped, ControlTyped
<1>7. CallTypeOK'
  <2>1. at' \in {"call", "send", "run", "apply", "returned"}
    BY <1>2
  <2>2. err' \in {"none", "arg", "encode", "io", "server", "out"}
    BY <1>2, <1>3
  <2>3. todo' \subseteq Positions /\ ran' \in BOOLEAN /\ dropped' \in BOOLEAN
    BY <1>1, <1>3, <1>6
  <2> QED BY <1>6, <2>1, <2>2, <2>3, TypeParts DEF ControlTyped
<1>8. FlowOK'
  BY <1>1, <1>2, <1>3 DEF FlowOK
<1>9. SentOK' /\ RowOK' /\ StoredOK'
  BY <1>1, <1>2, <1>3 DEF SentOK, RowOK, StoredOK
<1> QED BY <1>5, <1>7, <1>8, <1>9 DEF Inv

LEMMA SendInv ==
  ASSUME Inv, Send
  PROVE  Inv'
<1>1. /\ at = "send"
      /\ column' = column /\ varKind' = varKind /\ old' = old /\ arg' = arg
      /\ mem' = mem /\ ran' = ran /\ outRow' = outRow /\ todo' = todo
  BY DEF Send, call
<1>2. mem = old /\ ~ran /\ ~dropped /\ todo = {} /\ err = "none"
  BY <1>1 DEF Inv, FlowOK
<1>3. \/ at' = "returned" /\ err' = "encode" /\ dropped' = TRUE
      \/ /\ at' = "run" /\ err' = "none" /\ dropped' = dropped
         /\ \A i \in Positions : delivered'[i] \in Sent(column[i], inputOf(arg[i]))
         /\ \A i \in Positions : inputOf(arg[i]) = Nil \/ ~refused(column[i], inputOf(arg[i]))
  BY <1>2 DEF Send, Return
<1>4. \A i \in Positions : inputOf(arg[i]) = intended(i)
  BY <1>2 DEF inputOf, intended
<1>5. \A i \in Positions : intended(i)' = intended(i)
  BY <1>1 DEF intended
<1>6. CallOK'
  BY <1>1 DEF Inv, CallOK
<1>7. MemTyped' /\ ran \in BOOLEAN /\ dropped \in BOOLEAN
  BY <1>1, TypeParts DEF Inv, MemTyped, ControlTyped
<1>8. CallTypeOK'
  <2>1. /\ at' \in {"call", "send", "run", "apply", "returned"}
        /\ err' \in {"none", "arg", "encode", "io", "server", "out"}
    BY <1>3
  <2>2. todo' \subseteq Positions /\ ran' \in BOOLEAN
    BY <1>1, <1>2, <1>7
  <2>3. dropped' \in BOOLEAN
    BY <1>3, <1>7
  <2> QED BY <1>7, <2>1, <2>2, <2>3, TypeParts DEF ControlTyped
<1>9. FlowOK'
  BY <1>1, <1>2, <1>3 DEF FlowOK
<1>10. SentOK'
  BY <1>1, <1>2, <1>3, <1>4, <1>5 DEF SentOK
<1>11. RowOK' /\ StoredOK'
  BY <1>1, <1>2, <1>3 DEF RowOK, StoredOK
<1> QED BY <1>6, <1>8, <1>9, <1>10, <1>11 DEF Inv

LEMMA CallResponseInv ==
  ASSUME Inv, CallResponse
  PROVE  Inv'
<1>1. /\ at = "run" /\ ran' = TRUE /\ todo' = Outs
      /\ column' = column /\ varKind' = varKind /\ old' = old /\ arg' = arg
      /\ mem' = mem /\ delivered' = delivered /\ dropped' = dropped
  BY DEF CallResponse, call
<1>2. mem = old /\ ~ran /\ ~dropped /\ err = "none"
  BY <1>1 DEF Inv, FlowOK
<1>3. IF Outs = {} THEN at' = "returned" /\ err' = "none" ELSE at' = "apply" /\ err' = err
  BY DEF CallResponse, Return
<1>4. \A i \in Outs : outRow'[i] \in ServerValues(column[i])
  BY DEF CallResponse, Outs
<1>5. Outs' = Outs /\ Outs \subseteq Positions
  BY <1>1 DEF Outs
<1>6. CallOK'
  BY <1>1 DEF Inv, CallOK
<1>7. MemTyped' /\ dropped \in BOOLEAN
  BY <1>1, TypeParts DEF Inv, MemTyped, ControlTyped
<1>8. CallTypeOK'
  <2>1. /\ at' \in {"call", "send", "run", "apply", "returned"}
        /\ err' \in {"none", "arg", "encode", "io", "server", "out"}
    BY <1>2, <1>3
  <2>2. todo' \subseteq Positions /\ ran' \in BOOLEAN /\ dropped' \in BOOLEAN
    BY <1>1, <1>5, <1>7
  <2> QED BY <1>7, <2>1, <2>2, TypeParts DEF ControlTyped
<1>9. FlowOK'
  BY <1>1, <1>2, <1>3, <1>5 DEF FlowOK
<1>10. SentOK'
  <2>1. \A i \in Positions : intended(i)' = intended(i)
    BY <1>1 DEF intended
  <2> QED BY <1>1, <2>1 DEF Inv, SentOK
<1>11. RowOK'
  BY <1>1, <1>4, <1>5 DEF RowOK
<1>12. StoredOK'
  BY <1>1, <1>2, <1>5 DEF StoredOK
<1> QED BY <1>6, <1>8, <1>9, <1>10, <1>11, <1>12 DEF Inv

LEMMA OtherOutcomeInv ==
  ASSUME Inv, OtherOutcome
  PROVE  Inv'
<1>1. /\ at = "run" /\ at' = "returned"
      /\ column' = column /\ varKind' = varKind /\ old' = old /\ arg' = arg
      /\ mem' = mem /\ delivered' = delivered /\ outRow' = outRow /\ todo' = todo
  BY DEF OtherOutcome, call, Return
<1>2. mem = old /\ ~ran /\ ~dropped /\ todo = {} /\ err = "none"
  BY <1>1 DEF Inv, FlowOK
<1>3. /\ err' \in {"none", "out", "server", "io"}
      /\ err' = "none" => ran' /\ Outs = {}
  BY DEF OtherOutcome, Return
<1>4. ran \in BOOLEAN /\ dropped \in BOOLEAN
  BY TypeParts DEF Inv, ControlTyped
<1>5. ran' \in BOOLEAN /\ dropped' \in BOOLEAN
  BY <1>4, Zenon DEF OtherOutcome
<1>6. Outs' = Outs
  BY <1>1 DEF Outs
<1>7. CallOK' /\ MemTyped'
  BY <1>1, TypeParts DEF Inv, CallOK, MemTyped
<1>8. CallTypeOK'
  <2>1. /\ at' \in {"call", "send", "run", "apply", "returned"}
        /\ err' \in {"none", "arg", "encode", "io", "server", "out"}
        /\ todo' \subseteq Positions
    BY <1>1, <1>2, <1>3
  <2> QED BY <1>5, <1>7, <2>1, TypeParts DEF ControlTyped
<1>9. FlowOK'
  BY <1>1, <1>2, <1>3, <1>6 DEF FlowOK
<1>10. SentOK'
  <2>1. \A i \in Positions : intended(i)' = intended(i)
    BY <1>1 DEF intended
  <2> QED BY <1>1, <2>1 DEF Inv, SentOK
<1>11. RowOK' /\ StoredOK'
  BY <1>1, <1>2, <1>3, <1>6 DEF RowOK, StoredOK
<1> QED BY <1>7, <1>8, <1>9, <1>10, <1>11 DEF Inv

(* One destination is stored, or the loop ends with an error.              *)
LEMMA ApplyOutInv ==
  ASSUME Inv, NEW i \in Positions, ApplyOut(i)
  PROVE  Inv'
<1> DEFINE to == arg[i].var
<1>1. /\ at = "apply" /\ i \in todo
      /\ column' = column /\ varKind' = varKind /\ old' = old /\ arg' = arg
      /\ delivered' = delivered /\ ran' = ran /\ outRow' = outRow /\ dropped' = dropped
  BY DEF ApplyOut, call
<1>2. PICK r \in assignOutValue(varKind[to], outRow[i]) :
        IF r.ok
          THEN /\ mem' = [mem EXCEPT ![to] = r.v] /\ todo' = todo \ {i}
               /\ IF todo = {i} THEN at' = "returned" /\ err' = "none"
                  ELSE at' = at /\ err' = err
          ELSE at' = "returned" /\ err' = "out" /\ mem' = mem /\ todo' = todo
  BY DEF ApplyOut, Return, outValue
<1>3. ran /\ err = "none" /\ todo \subseteq Outs
  BY <1>1 DEF Inv, FlowOK, RowOK
<1>4. column[i] \in Columns /\ outRow[i] \in ServerValues(column[i])
  BY <1>1, <1>3 DEF Inv, CallOK, RowOK
<1>5. to \in Vars /\ varKind[to] \in GoKinds /\ DOMAIN mem = Vars
  BY <1>1, <1>3, OutsFacts DEF Inv, CallOK
<1>6. Outs' = Outs
  BY <1>1 DEF Outs
<1> HIDE DEF to
<1>7. r.ok => Typed(varKind[to], r.v) /\ Shows(varKind[to], r.v, outRow[i])
  BY <1>2, <1>4, <1>5, AssignExact
<1>8. CallOK'
  BY <1>1, <1>2, <1>5 DEF Inv, CallOK
<1>9. CallTypeOK'
  <2>1. MemTyped /\ ControlTyped
    BY TypeParts DEF Inv
  <2>2. MemTyped'
    <3>1. CASE r.ok
      BY <1>1, <1>2, <1>5, <1>7, <2>1, <3>1 DEF MemTyped
    <3>2. CASE ~r.ok
      BY <1>1, <1>2, <2>1, <3>2 DEF MemTyped
    <3> QED BY <3>1, <3>2
  <2>3. ran' \in BOOLEAN /\ dropped' \in BOOLEAN
    BY <1>1, <2>1 DEF ControlTyped
  <2>4. /\ at' \in {"call", "send", "run", "apply", "returned"}
        /\ err' \in {"none", "arg", "encode", "io", "server", "out"}
        /\ todo' \subseteq Positions
    BY <1>1, <1>2, <1>3, <2>1 DEF ControlTyped
  <2> QED BY <2>2, <2>3, <2>4, TypeParts DEF ControlTyped
<1>10. FlowOK'
  <2>1. at' \in {"apply", "returned"} /\ err' \in {"none", "out"}
    BY <1>1, <1>2, <1>3
  <2>2. at' = "returned" /\ err' = "none" => todo' = {}
    BY <1>1, <1>2
  <2>3. at' # "returned" => err' = "none"
    BY <1>1, <1>2, <1>3
  <2> QED BY <1>1, <1>3, <2>1, <2>2, <2>3 DEF FlowOK
<1>11. SentOK'
  <2>1. \A j \in Positions : intended(j)' = intended(j)
    BY <1>1 DEF intended
  <2> QED BY <1>1, <2>1 DEF Inv, SentOK
<1>12. RowOK'
  BY <1>1, <1>2, <1>3, <1>6 DEF Inv, RowOK
<1>13. StoredOK'
  <2> SUFFICES ASSUME NEW x \in Vars,
                      \/ mem'[x] # old[x]
                      \/ /\ at' = "apply" \/ (at' = "returned" /\ err' = "none")
                         /\ \E j \in Outs \ todo' : arg[j].var = x
               PROVE  \E j \in Outs \ todo' : arg[j].var = x /\ Holds(x, outRow[j])'
    BY <1>1, <1>3, <1>6 DEF StoredOK
  <2>1. CASE r.ok /\ x = to
    <3>1. i \in Outs \ todo' /\ arg[i].var = x
      BY <1>1, <1>2, <1>3, <2>1 DEF to
    <3>2. Holds(x, outRow[i])'
      BY <1>1, <1>2, <1>5, <1>7, <2>1 DEF Holds, Shows
    <3> QED BY <3>1, <3>2
  <2>2. CASE ~(r.ok /\ x = to)
    <3>1. mem'[x] = mem[x] /\ todo' \subseteq todo
      BY <1>2, <1>5, <2>2
    <3>2. mem[x] # old[x] \/ \E j \in Outs \ todo : arg[j].var = x
      <4>1. CASE r.ok
        BY <1>1, <1>2, <2>2, <3>1, <4>1 DEF to
      <4>2. CASE ~r.ok
        BY <1>1, <1>2, <3>1, <4>2
      <4> QED BY <4>1, <4>2
    <3>3. PICK j \in Outs \ todo : arg[j].var = x /\ Holds(x, outRow[j])
      BY <1>1, <3>2 DEF Inv, StoredOK
    <3>4. Holds(x, outRow[j])'
      BY <1>1, <3>1, <3>3 DEF Holds
    <3> QED BY <3>1, <3>3, <3>4
  <2> QED BY <2>1, <2>2
<1> QED BY <1>8, <1>9, <1>10, <1>11, <1>12, <1>13 DEF Inv

LEMMA NextInv == Inv /\ [CallNext]_callVars => Inv'
<1> SUFFICES ASSUME Inv, [CallNext]_callVars PROVE Inv'
  OBVIOUS
<1>1. CASE \E args \in Calls : ExecuteCall(args)
  BY <1>1, ExecuteInv
<1>2. CASE Send
  BY <1>2, SendInv
<1>3. CASE CallResponse
  BY <1>3, CallResponseInv
<1>4. CASE OtherOutcome
  BY <1>4, OtherOutcomeInv
<1>5. CASE \E i \in Positions : ApplyOut(i)
  BY <1>5, ApplyOutInv
<1>6. CASE UNCHANGED callVars
  <2>1. /\ CallTypeOK' /\ CallOK' /\ FlowOK' /\ RowOK'
    BY <1>6, TypeParts DEF callVars, Inv, MemTyped, ControlTyped, CallOK, FlowOK, RowOK, Outs
  <2>2. SentOK'
    BY <1>6 DEF callVars, Inv, SentOK, intended
  <2>3. StoredOK'
    BY <1>6 DEF callVars, Inv, StoredOK, Outs, Holds
  <2> QED BY <2>1, <2>2, <2>3 DEF Inv
<1> QED BY <1>1, <1>2, <1>3, <1>4, <1>5, <1>6 DEF CallNext

LEMMA AlwaysInv == CallSpec => []Inv
BY InitInv, NextInv, PTL DEF CallSpec

(* The destinations are exact when the call has returned.                  *)
LEMMA InvExact == Inv => OutsAreExact
<1> SUFFICES ASSUME Inv, at = "returned", NEW x \in Vars,
                    \/ mem[x] # old[x]
                    \/ {i \in Outs : arg[i].var = x} # {} /\ err = "none"
             PROVE  ran /\ \E i \in {j \in Outs : arg[j].var = x} : Holds(x, outRow[i])
  BY DEF OutsAreExact
<1>1. err = "none" => todo = {}
  BY DEF Inv, FlowOK
<1>2. PICK i \in Outs \ todo : ran /\ arg[i].var = x /\ Holds(x, outRow[i])
  BY <1>1 DEF Inv, StoredOK
<1> QED BY <1>2

(* What reached the server is what the caller intended. *)
LEMMA InvArrive == Inv => InputsArrive
<1> SUFFICES ASSUME Inv PROVE InputsArrive
  OBVIOUS
<1>1. ASSUME ran, NEW i \in Positions
      PROVE  IF intended(i) = Nil THEN delivered[i] = Nil
             ELSE /\ delivered[i] = Go(KindOf(column[i]), delivered[i].n)
                  /\ Arrives(column[i], intended(i), delivered[i].n)
  <2>1. /\ delivered[i] \in Sent(column[i], intended(i))
        /\ intended(i) = Nil \/ ~refused(column[i], intended(i))
    BY <1>1 DEF Inv, SentOK
  <2>2. column[i] \in Columns /\ arg[i] \in Args
    BY DEF Inv, CallOK
  <2>3. intended(i) # Nil => Input(intended(i))
    <3>1. CASE ~arg[i].out
      BY <2>2, <3>1, ArgFacts, PlainInput DEF intended
    <3>2. CASE arg[i].out /\ arg[i].in
      <4>1. arg[i].var \in Vars
        BY <2>2, <3>2, ArgFacts
      <4>2. varKind[arg[i].var] \in GoKinds /\ old[arg[i].var] \in Held(varKind[arg[i].var])
        BY <4>1 DEF Inv, CallOK
      <4> QED BY <3>2, <4>2, HeldInput DEF intended
    <3>3. CASE arg[i].out /\ ~arg[i].in
      BY <3>3 DEF intended
    <3> QED BY <3>1, <3>2, <3>3
  <2>4. CASE intended(i) = Nil
    BY <2>1, <2>4 DEF Sent
  <2>5. CASE intended(i) # Nil
    <3>1. PICK n \in coerced(column[i], intended(i)) : delivered[i] = Go(KindOf(column[i]), n)
      BY <2>1, <2>5 DEF Sent
    <3>2. Arrives(column[i], intended(i), n)
      BY <2>1, <2>2, <2>3, <2>5, <3>1, CoercedArrives
    <3>3. delivered[i].n = n
      BY <3>1 DEF Go
    <3> QED BY <2>5, <3>1, <3>2, <3>3
  <2> QED BY <2>4, <2>5
<1>2. /\ err \in {"arg", "encode"} => ~ran /\ mem = old
      /\ err = "arg" => ~dropped
  BY DEF Inv, FlowOK
<1> QED BY <1>1, <1>2 DEF InputsArrive

-----------------------------------------------------------------------------
(* Params is type correct: in particular no Go variable of the caller ever *)
(* holds a number that its kind cannot represent, whatever the procedure   *)
(* returns (assignOutValue's range checks).                                *)
THEOREM ParamsTypeCorrect == CallSpec => []CallTypeOK
<1>1. Inv => CallTypeOK
  BY DEF Inv
<1> QED BY <1>1, AlwaysInv, PTL

(* The values of a CALL_RESPONSE reach the destinations bound to their     *)
(* positions, in whatever order applyOutParams takes them and wherever it  *)
(* stops: exactly, but for doubles beyond int64 in integers and large      *)
(* BIGINTs in float64 variables, of which Holds says what is stored.       *)
THEOREM DestinationsAreExact == CallSpec => []OutsAreExact
BY AlwaysInv, InvExact, PTL

(* The procedure runs with the caller's values, each as Arrives says:      *)
(* unchanged where the column can hold it, and else its low bits, the      *)
(* nearest double, zero or the digits of its text; a refused call changes  *)
(* nothing.                                                                *)
THEOREM ArgumentsArrive == CallSpec => []InputsArrive
BY AlwaysInv, InvArrive, PTL
=============================================================================
