------------------------------- MODULE Params -------------------------------
(***************************************************************************)
(* The parameters of a prepared CALL: how arguments become wire values     *)
(* (stmt.execute, splitOutParams, prepareArrayParams and the coercions of  *)
(* WriteValue) and how the values of the CALL_RESPONSE reach the caller's  *)
(* OUT and INOUT destinations (applyOutParams, assignOutValue), one        *)
(* destination at a time, in the order Go's map iteration happens to take. *)
(*                                                                         *)
(* A Go value is [k, n]: its kind and the number it stands for, counted in *)
(* halves, so that even numbers are the integers and TRUE is 2.  A string  *)
(* or []byte stands for the number its text shows; NotNumber is a text     *)
(* that shows none.  Integers and floating point numbers have the limits   *)
(* of their kinds: what a conversion makes of a number beyond them is a    *)
(* set, where Go leaves the choice to the processor.  LOB parameters are   *)
(* in module LobParams.                                                    *)
(***************************************************************************)
EXTENDS Integers, FiniteSets

CONSTANTS Positions,   \* positions of the CALL's parameters
          Vars,        \* Go variables that destinations may point to
          Declarations,  \* kinds the variables may have
          Signatures,  \* type classes the parameters may have
          Calls,       \* arguments of the calls
          Numbers,     \* numbers, in halves
          Small,       \* SMALLINT is -Small .. Small - 1, and so is int8
          Wide,        \* INTEGER is -Wide .. Wide - 1
          Long,        \* BIGINT is -Long .. Long - 1, and so is int64
          Exact,       \* integers from -Exact to Exact are doubles (2^53)
          Nearest,     \* the double nearest to an int64
          Printed      \* the whole number parseDecimal reads in a double's %v

GoKinds == {"any", "time", "bytes", "string", "int8", "int64", "uint8", "float64", "bool"}
Columns == {"small", "int", "big", "double", "bool", "char", "dec", "time", "bin", "array"}

Whole(n) == IF n >= 0 THEN n - (n % 2) ELSE n + (n % 2)   \* toward zero
Within(n, w) == n \in -2 * w .. 2 * w - 2
Wrap(n, w) == 2 * ((((n \div 2) + w) % (2 * w)) - w)
Int64s == {n \in -2 * Long .. 2 * Long - 2 : n % 2 = 0}
NotNumber == 999

ASSUME ParamsBounds ==
  /\ Small \in Nat \ {0} /\ {Wide, Long, Exact} \subseteq Nat
  /\ Small <= Wide /\ Wide <= Long
  /\ Numbers \subseteq Int /\ NotNumber \notin Numbers
  /\ Declarations \subseteq [Vars -> GoKinds] /\ Signatures \subseteq [Positions -> Columns]

ASSUME DoublesRound ==
  /\ Nearest \in [Int64s -> Int] /\ Printed \in [Numbers -> Int]
  /\ \A n \in Int64s : n \in -2 * Exact .. 2 * Exact => Nearest[n] = n

Nil == [k |-> "nil", n |-> 0]
Go(k, n) == [k |-> k, n |-> n]

(* Numbers that are doubles. *)
Doubles == {n \in Numbers : n \in Int64s => Nearest[n] = n}

(* int64(x) of a double: beyond int64 (a NaN included) amd64 gives the     *)
(* least int64, arm64 the nearer end, or zero for a NaN.                   *)
ToInt64(n) == IF Within(Whole(n), Long) THEN {Whole(n)} ELSE {-2 * Long, 0, 2 * Long - 2}

-----------------------------------------------------------------------------
(***************************************************************************)
(* Arguments to wire values: the coercions, which fall back on a zero      *)
(* value, except for decimals and arrays.                                  *)
(***************************************************************************)
asInt64(v)   == CASE v.k \in {"int64", "int", "int32", "bool"} -> {v.n}
                  [] v.k = "float64" -> ToInt64(v.n)
                  [] OTHER -> {0}
asFloat64(v) == CASE v.k \in {"float64", "float32"} -> v.n
                  [] v.k = "int64" -> Nearest[v.n]
                  [] OTHER -> 0
asBool(v)    == IF v.k \in {"bool", "int64"} /\ v.n # 0 THEN 2 ELSE 0
asBytes(v)   == IF v.k \in {"bytes", "string"} THEN v.n ELSE 0
asTime(v)    == IF v.k = "time" THEN v.n ELSE 0
asString(v)  == v.n

(* asDecimal reads a double in the text %v gives it, which from 10^6 on    *)
(* has an exponent; the decimal's scale is zero.                           *)
asDecimal(v) == IF v.k = "float64" THEN Printed[v.n] ELSE v.n

(* asDecimal and prepareArrayParams refuse what they cannot convert.       *)
refused(c, v) ==
  \/ c = "dec" /\ (v.k \notin {"string", "bytes", "int64", "float64"} \/ asDecimal(v) = NotNumber)
  \/ c = "array" /\ v.k # "array"

(* Kind of the driver value that a column decodes to. *)
IntegerColumns == {"small", "int", "big"}
Width(c) == CASE c = "small" -> Small [] c = "int" -> Wide [] c = "big" -> Long

KindOf(c) ==
  CASE c \in IntegerColumns           -> "int64"
    [] c = "double"                   -> "float64"
    [] c \in {"char", "dec", "array"} -> "string"
    [] c = "bin"                      -> "bytes"
    [] c \in {"bool", "time"}         -> c

coerced(c, v) ==
  CASE c \in IntegerColumns -> {Wrap(n, Width(c)) : n \in asInt64(v)}
    [] c = "double" -> {asFloat64(v)}
    [] c = "bool"   -> {asBool(v)}
    [] c = "char"   -> {asString(v)}
    [] c = "dec"    -> {asDecimal(v)}
    [] c = "time"   -> {asTime(v)}
    [] c = "bin"    -> {asBytes(v)}
    [] c = "array"  -> {v.n}

Sent(c, v) == IF v = Nil THEN {Nil} ELSE {Go(KindOf(c), n) : n \in coerced(c, v)}

-----------------------------------------------------------------------------
(***************************************************************************)
(* Wire values to destinations: the results [ok, v] an assignment may have. *)
(***************************************************************************)
Zero(k) == IF k \in {"any", "bytes"} THEN Nil ELSE Go(k, 0)
IntegerKinds == {"int8", "int64", "uint8"}

(* OverflowInt and OverflowUint, which an int64 never trips for *int64.    *)
Holdable(k, n) ==
  CASE k = "int8"  -> Within(n, Small)
    [] k = "int64" -> Within(n, Long)
    [] k = "uint8" -> n \in 0 .. 4 * Small - 2
    [] OTHER       -> TRUE

Ok(v) == [ok |-> TRUE, v |-> v]
Fail  == [ok |-> FALSE, v |-> Nil]

asOutInt64(v) ==
  CASE v.k \in {"int64", "bool"} -> {v.n} [] v.k = "float64" -> ToInt64(v.n) [] OTHER -> {}

\* Variant: an integer is stored in whatever it fits or does not fit.
assignOutUnchecked(k, v) ==
  IF v = Nil THEN {Ok(Zero(k))}
  ELSE IF k \in IntegerKinds THEN {Ok(Go(k, n)) : n \in asOutInt64(v)} ELSE {Fail}

assignInteger(k, v) ==
  IF asOutInt64(v) = {} THEN {Fail}
  ELSE {IF Holdable(k, n) THEN Ok(Go(k, n)) ELSE Fail : n \in asOutInt64(v)}

assignOutValue(k, v) ==
  CASE k = "any" -> {Ok(v)}
    [] k # "any" /\ v = Nil -> {IF k = "time" THEN Fail ELSE Ok(Zero(k))}
    [] k # "any" /\ v # Nil ->
         IF k \in IntegerKinds THEN assignInteger(k, v)
         ELSE { CASE k = "bytes" /\ v.k \in {"bytes", "string"}  -> Ok(Go(k, v.n))
                  [] k = "string"                              -> Ok(Go(k, v.n))
                  [] k = "float64" /\ v.k = "float64"           -> Ok(v)
                  [] k = "float64" /\ v.k = "int64"             -> Ok(Go(k, Nearest[v.n]))
                  [] k \in {"time", "bool"} /\ v.k = k           -> Ok(v)
                  [] OTHER                                     -> Fail }

-----------------------------------------------------------------------------
VARIABLES
  column,    \* class of every parameter
  varKind,   \* kind of every variable
  mem, old,  \* the variables; what they held when the call began
  arg,       \* argument of every position: [out, in, var, v]
  at,        \* "call", "send", "run", "apply" or "returned"
  err,       \* what the driver reports: "none", "arg", "encode", "io", "server", "out"
  delivered, \* the wire values the server runs the procedure with
  ran,       \* the procedure ran
  outRow,    \* the parameter values of the response
  todo,      \* positions applyOutParams has still to store
  dropped    \* conn.broken

callVars == <<column, varKind, mem, old, arg, at, err, delivered, ran, outRow, todo, dropped>>

call == <<column, varKind, old, arg>>

Outs == {i \in Positions : arg[i].out}

(* Values a Go variable may hold before the call; an interface also those  *)
(* of other kinds.                                                         *)
HeldNumbers(k) ==
  {m \in Numbers : /\ IF k = "float64" THEN m \in Doubles ELSE Whole(m) = m
                   /\ Holdable(k, m) /\ (k = "bool" => m \in {0, 2})}
Held(k) ==
  IF k = "any" THEN {Nil, Go("int", 2), Go("int8", 2), Go("float32", 3), Go("struct", 0)}
  ELSE {Go(k, n) : n \in HeldNumbers(k)}

(* Arguments that are no sql.Out have been converted to driver values by   *)
(* database/sql; an Array passes CheckNamedValue.                          *)
Plain ==
  {Nil, Go("time", 2), Go("array", 4), Go("string", NotNumber), Go("bool", 2)}
           \cup {Go("int64", n) : n \in Numbers \cap Int64s}
           \cup {Go(k, n) : k \in {"string", "bytes"}, n \in {m \in Numbers : Whole(m) = m}}
           \cup {Go("float64", n) : n \in Doubles}

(* sql.Out comes with a pointer to a variable; in makes it INOUT.          *)
NoVar == CHOOSE x \in Vars : TRUE

Args ==
  {[out |-> FALSE, in |-> FALSE, var |-> NoVar, v |-> v] : v \in Plain}
          \cup {[out |-> TRUE, in |-> in, var |-> x, v |-> Nil] : in \in BOOLEAN, x \in Vars}

ASSUME CallsAreArguments == Calls \subseteq [Positions -> Args]

CallInit ==
  /\ column \in Signatures /\ varKind \in Declarations
  /\ mem \in [Vars -> UNION {Held(k) : k \in GoKinds}]
  /\ \A x \in Vars : mem[x] \in Held(varKind[x])
  /\ old = mem
  /\ arg = [i \in Positions |-> [out |-> FALSE, in |-> FALSE, var |-> NoVar, v |-> Nil]]
  /\ at = "call" /\ err = "none" /\ ran = FALSE /\ todo = {} /\ dropped = FALSE
  /\ delivered = [i \in Positions |-> Nil] /\ outRow = [i \in Positions |-> Nil]

Return(e) == at' = "returned" /\ err' = e

(* checkOutInputValue. *)
acceptedInput(v) ==
  v.k \in {"nil", "bool", "string", "bytes", "time", "int", "int8", "int32", "int64",
           "float32", "float64"}

\* Variant: a pure OUT parameter sends what its destination holds.
inputOfAny(a) == IF a.out THEN mem[a.var] ELSE a.v

(* The input of a position: the variable for INOUT, NULL for a pure OUT.   *)
inputOf(a) == IF ~a.out THEN a.v ELSE IF a.in THEN mem[a.var] ELSE Nil

(* stmt.execute up to splitOutParams, with the arguments the application   *)
(* passes for each position.                                               *)
ExecuteCall(args) ==
  /\ at = "call"
  /\ arg' = args
  /\ IF \E i \in Positions : args[i].in /\ ~acceptedInput(mem[args[i].var])
       THEN Return("arg")
       ELSE at' = "send" /\ UNCHANGED err
  /\ UNCHANGED <<column, varKind, mem, old, delivered, ran, outRow, todo, dropped>>

(* conn.send: an argument that cannot be encoded fails the exchange, and   *)
(* with it the connection.                                                 *)
Send ==
  /\ at = "send"
  /\ LET in == [i \in Positions |-> inputOf(arg[i])]
     IN  IF \E i \in Positions : in[i] # Nil /\ refused(column[i], in[i])
           THEN Return("encode") /\ dropped' = TRUE /\ UNCHANGED delivered
           ELSE /\ delivered' \in [Positions -> UNION {Sent(column[i], in[i]) : i \in Positions}]
                /\ \A i \in Positions : delivered'[i] \in Sent(column[i], in[i])
                /\ at' = "run" /\ UNCHANGED <<err, dropped>>
  /\ UNCHANGED <<call, mem, ran, outRow, todo>>

(* The server's (external) values of a parameter.                          *)
ServerValues(c) ==
  {Nil} \cup {Go(KindOf(c), n) : n \in
     {m \in Numbers : /\ IF c = "double" THEN m \in Doubles ELSE c = "dec" \/ Whole(m) = m
                      /\ c \in IntegerColumns => Within(m, Width(c))
                      /\ c = "bool" => m \in {0, 2}}}

(* The server runs the procedure and answers with the values of all the    *)
(* parameters; those that are no destination it has from the request.      *)
CallResponse ==
  /\ at = "run" /\ ran' = TRUE
  /\ \E values \in [Outs -> UNION {ServerValues(column[i]) : i \in Outs}] :
       /\ \A i \in Outs : values[i] \in ServerValues(column[i])
       /\ outRow' = [i \in Positions |-> IF i \in Outs THEN values[i] ELSE delivered[i]]
  /\ todo' = Outs
  /\ IF Outs = {} THEN Return("none") ELSE at' = "apply" /\ UNCHANGED err
  /\ UNCHANGED <<call, mem, delivered, dropped>>

(* Any other outcome: the statement is no CALL, the server answers with an *)
(* ERROR, or the exchange fails, before or after the procedure ran.        *)
OtherOutcome ==
  /\ at = "run"
  /\ \/ Return(IF Outs = {} THEN "none" ELSE "out") /\ ran' = TRUE /\ UNCHANGED dropped
     \/ Return("server") /\ UNCHANGED <<ran, dropped>>
     \/ Return("io") /\ ran' \in BOOLEAN /\ dropped' = TRUE
  /\ UNCHANGED <<call, mem, delivered, outRow, todo>>

\* Variant: values are taken in the order of the OUT parameters alone.
outValueDense(i) ==
  outRow[CHOOSE j \in Positions : Cardinality({o \in Outs : o <= i}) = j]

outValue(i) == outRow[i]

(* One round of the loop of applyOutParams, which ends at the first error: *)
(* what was stored before stays.                                           *)
ApplyOut(i) ==
  /\ at = "apply" /\ i \in todo
  /\ LET to == arg[i].var
     IN  \E r \in assignOutValue(varKind[to], outValue(i)) :
           IF r.ok
             THEN /\ mem' = [mem EXCEPT ![to] = r.v] /\ todo' = todo \ {i}
                  /\ IF todo = {i} THEN Return("none") ELSE UNCHANGED <<at, err>>
             ELSE Return("out") /\ UNCHANGED <<mem, todo>>
  /\ UNCHANGED <<call, delivered, ran, outRow, dropped>>

CallNext ==
  \/ \E args \in Calls : ExecuteCall(args)
  \/ Send \/ CallResponse \/ OtherOutcome
  \/ \E i \in Positions : ApplyOut(i)

CallSpec == CallInit /\ [][CallNext]_callVars

-----------------------------------------------------------------------------
(***************************************************************************)
(* Properties.                                                             *)
(***************************************************************************)

(* Every variable stays in its type; a Go variable never holds a number    *)
(* that its kind cannot represent.                                         *)
CallTypeOK ==
  /\ \A x \in Vars : varKind[x] # "any" =>
       /\ mem[x] \in {Zero(varKind[x]), Go(varKind[x], mem[x].n)}
       /\ varKind[x] \in IntegerKinds => mem[x].n % 2 = 0 /\ Holdable(varKind[x], mem[x].n)
  /\ at \in {"call", "send", "run", "apply", "returned"}
  /\ err \in {"none", "arg", "encode", "io", "server", "out"}
  /\ todo \subseteq Positions /\ {ran, dropped} \subseteq BOOLEAN

(* Numbers that lose something: a double that no int64 is near to, and an  *)
(* int64 that may be no double.                                            *)
BeyondInt64(v)   == v.k = "float64" /\ ~Within(Whole(v.n), Long)
BeyondDoubles(v) == v.k = "int64" /\ v.n \notin -2 * Exact .. 2 * Exact

(* The variable holds the value: zero for NULL, in an integer the whole    *)
(* part, otherwise the same number.  Two exceptions raise no error: a      *)
(* double beyond int64 leaves another number in an integer variable, and a *)
(* large BIGINT is rounded in a float64.                                   *)
Holds(x, v) ==
  IF v = Nil THEN mem[x] = Zero(varKind[x])
  ELSE IF varKind[x] \in IntegerKinds THEN BeyondInt64(v) \/ mem[x].n = Whole(v.n)
  ELSE mem[x].n = IF varKind[x] = "float64" /\ BeyondDoubles(v) THEN Nearest[v.n] ELSE v.n

(* Whatever the order of the assignments and wherever they stop, a         *)
(* variable that a call changed holds what the procedure returned for a    *)
(* position bound to it (with the exceptions of Holds), and after a call   *)
(* without error every destination does.                                   *)
OutsAreExact ==
  at = "returned" =>
    \A x \in Vars :
      LET bound == {i \in Outs : arg[i].var = x}
      IN  mem[x] # old[x] \/ (bound # {} /\ err = "none")
            => ran /\ \E i \in bound : Holds(x, outRow[i])

(* What the caller means by the argument at a position.                    *)
intended(i) == IF ~arg[i].out THEN arg[i].v ELSE IF arg[i].in THEN old[arg[i].var] ELSE Nil

(* GoKinds that a column's coercion knows.                                   *)
Known(c) ==
  CASE c \in IntegerColumns   -> {"int64", "int", "int32", "bool", "float64"}
    [] c = "double"           -> {"float64", "float32", "int64"}
    [] c = "bool"             -> {"bool", "int64"}
    [] c = "time"             -> {"time"}
    [] c = "bin"              -> {"bytes", "string"}
    [] c \in {"char", "dec", "array"} -> GoKinds \cup {"int", "int32", "float32", "array", "struct"}

(* What arrives of the value v: the number itself (its whole part in an    *)
(* integer column), but                                                    *)
(*   - zero of a kind the coercion does not know, int8 and int16 among     *)
(*     them, which checkOutInputValue lets pass;                           *)
(*   - of an integer that does not fit the column, the low bits;           *)
(*   - of a double beyond int64, any integer;                              *)
(*   - of a large int64 in a DOUBLE, the nearest double;                   *)
(*   - of a double in a DECIMAL, what its text shows before an exponent.   *)
LowBits(n, w) == (n \div 2) % (2 * w)

ArrivesInteger(w, v, n) ==
  /\ Within(n, w)
  /\ BeyondInt64(v) \/ LowBits(n, w) = LowBits(Whole(v.n), w)
  /\ ~BeyondInt64(v) /\ Within(Whole(v.n), w) => n = Whole(v.n)

Arrives(c, v, n) ==
  IF v.k \notin Known(c) THEN n = 0
  ELSE /\ c \in IntegerColumns => ArrivesInteger(Width(c), v, n)
       /\ c = "double" => n = IF BeyondDoubles(v) THEN Nearest[v.n] ELSE v.n
       /\ c = "bool" => (n = 0 <=> v.n = 0)
       /\ c = "dec" => n = IF v.k = "float64" THEN Printed[v.n] ELSE v.n
       /\ c \in {"char", "time", "bin", "array"} => n = v.n

(* The server runs the procedure with the caller's values, each at its own *)
(* position (what Arrives says of it), NULL for a pure OUT; and where the  *)
(* driver refuses the arguments nothing is run and no variable changed,    *)
(* nor is the connection given up before anything was encoded.             *)
InputsArrive ==
  /\ ran => \A i \in Positions :
       IF intended(i) = Nil THEN delivered[i] = Nil
       ELSE /\ delivered[i] = Go(KindOf(column[i]), delivered[i].n)
            /\ Arrives(column[i], intended(i), delivered[i].n)
  /\ err \in {"arg", "encode"} => ~ran /\ mem = old
  /\ err = "arg" => ~dropped

(* checkOutInputValue "rejects INOUT input values the wire encoder would   *)
(* otherwise silently coerce to a zero value": the procedure never runs    *)
(* with zero for another integer that fits the parameter.                  *)
InoutIsNotZeroed ==
  ran => \A i \in Positions :
    LET v == intended(i)
    IN  /\ arg[i].in /\ v.k \in {"int", "int8", "int32", "int64"}
        /\ column[i] \in IntegerColumns /\ Within(v.n, Width(column[i]))
        => (delivered[i].n = 0 => v.n = 0)
=============================================================================
