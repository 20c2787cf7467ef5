------------------------------- MODULE MCWire -------------------------------
(***************************************************************************)
(* TLC instance of Wire: one-byte shorts, two-byte ints, three-byte longs, *)
(* days of two hours of two minutes of two seconds, values at the limits   *)
(* of every type, every mode, and a stream that ends after any byte.       *)
(***************************************************************************)
EXTENDS Wire

Simply(code) == [code |-> code, base |-> "all", prec |-> 0, scale |-> 0]
ArrayOf(base) == [code |-> "array", base |-> base, prec |-> 0, scale |-> 0]
Full(t) == [t EXCEPT !.prec = 300, !.scale = -1]

Clocks == {<<3, 2, 5, 0>>, <<0, 1, 0, 3>>, <<-2, 7, 9, -3>>}

Samples(t) ==
  {Null} \cup
  CASE t.code = "char"   -> {<<<<>>>>, <<<<0, 65, 127, 128>>>>, <<<<2047, 2048, 65535>>>>,
                             <<<<65536, 1114111>>>>, <<<<55296, 65>>>>}
    [] t.code = "small"  -> {<<-128>>, <<127>>}
    [] t.code = "int"    -> {<<-32768>>, <<32767>>, <<-1>>}
    [] t.code = "big"    -> {<<-8388608>>, <<8388607>>}
    [] t.code = "bool"   -> {<<0>>, <<1>>}
    [] t.code = "dec"    -> {<<0, 0>>, <<127, 1>>, <<128, 2>>, <<-128, 0>>, <<-129, 3>>,
                             <<32768, -1>>, <<-32769, 0>>}
    [] t.code \in {"date", "time", "timetz", "ts", "tstz"} -> Clocks
    [] t.code \in {"bin", "bit"} -> {<<<<>>>>, <<<<255, 0>>>>}
    [] t.code = "lob"    -> {<<-3>>}
    [] t.code = "all"    -> {<<0>>}
    [] t.code \in Months  -> {<<m>> : m \in {x \in {0, 14, -14, 24} : x % Last(Units(t.code)) = 0}}
    [] t.code \in Seconds ->
         LET unit == Last(Units(t.code))
         IN  {<<x, n>> \in {19, -19, 1, -20, 16, 0} \X {0, 3, -3} :
                /\ x % unit = 0 /\ (unit # 1 => n = 0) /\ (x > 0 => n >= 0) /\ (x < 0 => n <= 0)}
    [] t.code = "geometry" -> {<<7>>}
    [] t = ArrayOf("char") -> {<<<<>>>>, <<<<Null, <<<<97, Comma, 98>>>>>>>>,
                               <<<<<<<<Quote, Backslash>>>>, <<<<NullToken>>>>, <<<<>>>>>>>>,
                               <<<<<<<<Close, Comma, Open>>>>>>>>}
    [] t = ArrayOf("int")  -> {<<<<<<-20>>, Null, <<7>>>>>>}
    [] t = ArrayOf("bin")  -> {<<<<<<<<>>>>, <<<<171, 18>>>>>>>>, <<<<<<<<18>>>>, <<<<>>>>>>>>}
    [] t = ArrayOf("geometry") -> {<<<<Null, <<7>>>>>>}

Types == {Simply(c) : c \in Scalars \cup {"geometry"}}
           \cup {ArrayOf(b) : b \in {"char", "int", "bin", "geometry"}}

Column(s) == [names |-> <<s, <<>>, <<>>, <<>>, s>>, attrs |-> 33]
Label(s)  == [names |-> <<s>>, attrs |-> 32]
Result(types, n) ==
  [kind |-> 1, count |-> n, types |-> [i \in DOMAIN types |-> Full(types[i])],
   cols |-> [i \in 1 .. n |-> Column(<<65>>)],
   idx |-> IF n = Len(types) THEN <<>> ELSE [i \in 1 .. n |-> i - 1]]
Codes2(kind, types) ==
  [kind |-> kind, count |-> Len(types), types |-> types, cols |-> <<>>, idx |-> <<>>]
Params(types) ==
  [kind |-> 4, count |-> Len(types), types |-> [i \in DOMAIN types |-> Full(types[i])],
   cols |-> [i \in DOMAIN types |-> Label(<<233>>)], idx |-> <<>>]
Nothing == [kind |-> 2, count |-> 0, types |-> <<>>, cols |-> <<>>, idx |-> <<>>]

DataFrame(mode, meta, rows) ==
  [mode |-> mode,
   fields |-> <<<<"long", 9>>, <<"int", 0>>, <<"int", 1>>, <<"u8", 8>>,
                <<"meta", meta>>, <<"rows", <<<<9, Len(rows), 0>>, rows>>>>>>]
SimpleFrame(mode, meta, rows) ==
  [mode |-> mode,
   fields |-> <<<<"int", 0>>, <<"int", 1>>, <<"long", 5>>, <<"short", 0>>,
                <<"meta", meta>>, <<"simple", rows>>>>]
Count(n) == [mode |-> 1, fields |-> <<<<"int", n>>>>]
Error(mode) == [mode |-> mode, fields |-> <<<<"str", <<88>>>>, <<"str", <<>>>>, <<"int", -5>>>>]

(* One value of every kind, beside a string that shows a misread length.   *)
Values ==
  {<<DataFrame(3, Result(<<t, Simply("char")>>, n), <<<<v, <<<<66>>>>>>>>)>> :
     <<t, v, n>> \in {x \in UNION {{t} \X Samples(t) \X {1, 2} : t \in Types} : TRUE}}

Rows2 == <<<<<<7>>, Null>>, <<Null, <<<<67>>>>>>>>
IntChar == <<Simply("int"), Simply("char")>>
Others ==
  {<<Count(3), DataFrame(20, Codes2(2, IntChar), Rows2)>>,
   <<DataFrame(15, Codes2(3, IntChar), Rows2), Error(19), Count(0)>>,
   <<[mode |-> 14, fields |-> <<<<"meta", Codes2(2, IntChar)>>, <<"rows", <<<<9, 4, 2>>, <<>>>>>>>>]>>,
   <<Error(2)>>,
   <<[mode |-> 4, fields |-> <<<<"u8", 2>>, <<"long", 77>>, <<"u8", 0>>,
        <<"meta", Nothing>>, <<"meta", Params(<<ArrayOf("int"), Simply("dec")>>)>>>>]>>,
   <<[mode |-> 43, fields |-> <<<<"int", 0>>, <<"int", 0>>, <<"long", 5>>, <<"u8", 0>>, <<"u8", 0>>,
        <<"meta", Params(IntChar)>>, <<"simple", Rows2>>>>],
     DataFrame(3, Result(IntChar, 2), Rows2)>>,
   <<SimpleFrame(16, Codes2(2, <<Simply("int")>>), <<<<<<1>>>>, <<<<-2>>>>>>)>>,
   <<SimpleFrame(6, Codes2(2, IntChar), Rows2)>>, <<[mode |-> 6, fields |-> <<>>]>>,
   <<[mode |-> 38, fields |-> <<>>]>>, <<[mode |-> 42, fields |-> <<>>]>>,
   <<[mode |-> 11, fields |-> <<<<"int", 1>>, <<"long", 600>>, <<"str", <<100>>>>,
        <<"str", <<>>>>, <<"int", -9>>>>]>>,
   <<SimpleFrame(16, [Nothing EXCEPT !.kind = 5, !.count = 2, !.idx = <<2, 1>>], <<>>)>>,
   <<SimpleFrame(16, [Nothing EXCEPT !.kind = 6, !.count = 1,
                                     !.cols = <<[names |-> <<<<75>>>>, attrs |-> 0]>>], <<>>)>>}

MCTransmissions == Values \cup Others
=============================================================================
