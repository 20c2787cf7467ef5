-------------------------------- MODULE Wire --------------------------------
(***************************************************************************)
(* The wire codec (internal/proto): frames, result metadata, row sets and  *)
(* the encoding of every column type, with conn.receive, which reads a     *)
(* main frame, the frames chained to it and the NONE terminator.           *)
(*                                                                         *)
(* The stream is a sequence of bytes.  Widths are parameters, so that TLC  *)
(* meets the limits of every integer with small numbers: an n-byte integer *)
(* holds -256^n/2 .. 256^n/2 - 1, and Go's conversions truncate.  Day, Hour*)
(* and Minute are the seconds of each.                                     *)
(*                                                                         *)
(* A value is a tuple, Null the empty one: <<n>> for an integer, a boolean,*)
(* the bits of a double or the id of a LOB, <<s>> for a string (code       *)
(* points) or bytes, <<unscaled, scale>> for a decimal, <<day, second of   *)
(* the day, nanos, zone>> for a wall clock, <<elements>> for an array,     *)
(* <<months>> or <<seconds, nanos>> for an interval.                       *)
(*                                                                         *)
(* A transmission of the server is a sequence of frames [mode, fields]; a  *)
(* field is a pair <<kind, value>>.  The server (external) writes its      *)
(* fields with the encodings of this module, which mirror Java's.          *)
(***************************************************************************)
EXTENDS Arrays

CONSTANTS ShortLen, IntLen, LongLen,  \* bytes of Java's integers
          Day, Hour, Minute,          \* their seconds
          Transmissions               \* what the server may send

ASSUME WireBounds ==
  /\ ShortLen \in 1 .. IntLen /\ IntLen \in 1 .. LongLen /\ LongLen \in Nat
  /\ {Minute, Hour, Day} \subseteq Nat \ {0}
  /\ Hour % Minute = 0 /\ Day % Hour = 0

Null == <<>>

-----------------------------------------------------------------------------
(***************************************************************************)
(* Primitives of RowOutput.                                                *)
(***************************************************************************)
Shift(v, n) ==       \* v >> 8 * n
  LET by[k \in 0 .. n] == IF k = 0 THEN v ELSE by[k - 1] \div 256
  IN  by[n]

PutNum(n, v) == [i \in 1 .. n |-> Shift(v, n - i) % 256]

PutNums(ns, xs) == FlattenSeq([i \in DOMAIN xs |-> PutNum(ns[i], xs[i])])

WriteBytes(b) == PutNum(IntLen, Len(b)) \o b

ThreeBytes(u) == <<224 + (u \div 4096), 128 + ((u \div 64) % 64), 128 + (u % 64)>>

\* Variant: characters beyond 16 bits are not split into surrogates.
encodeRuneUnsplit(u) == IF u < 128 /\ u # 0 THEN <<u>> ELSE ThreeBytes(u)

encodeRune(u) ==
  IF u = 0 THEN <<192, 128>>
  ELSE IF u < 128 THEN <<u>>
  ELSE IF u < 2048 THEN <<192 + (u \div 64), 128 + (u % 64)>>
  ELSE IF u < 65536 THEN ThreeBytes(u)
  ELSE ThreeBytes(55296 + ((u - 65536) \div 1024)) \o ThreeBytes(56320 + ((u - 65536) % 1024))

encodeModifiedUTF8(s) == FlattenSeq([i \in DOMAIN s |-> encodeRune(s[i])])

(* Bytes of the magnitude of v, one more if its top bit is set: a byte too *)
(* many for -128, -32768, ..., which Java's toByteArray writes shorter.    *)
ByteLen(m) == CHOOSE n \in 1 .. m + 1 : Shift(m, n) = 0 /\ (n > 1 => Shift(m, n - 1) # 0)

bigIntToTwosComplement(v) ==
  LET m == IF v < 0 THEN -v ELSE v
      n == ByteLen(m)
  IN  PutNum(IF Shift(m, n - 1) >= 128 THEN n + 1 ELSE n, v)

-----------------------------------------------------------------------------
(***************************************************************************)
(* Primitives of RowInput: what is left to read, the sticky error and the  *)
(* value read last.                                                        *)
(***************************************************************************)
RowInput(buf, err, val, meta) == [buf |-> buf, err |-> err, val |-> val, meta |-> meta]

NewRowInput(b) == RowInput(b, FALSE, Null, <<>>)

MapVal(q, f(_)) == RowInput(q.buf, q.err, f(q.val), q.meta)
SetVal(q, v)    == RowInput(q.buf, q.err, v, q.meta)
Fail(q, v)      == RowInput(q.buf, TRUE, v, q.meta)

read(r, n) ==
  IF r.err \/ Len(r.buf) < n THEN Fail(r, <<>>)
  ELSE RowInput(SubSeq(r.buf, n + 1, Len(r.buf)), FALSE, SubSeq(r.buf, 1, n), r.meta)

(* An integer whose first byte is 128 or more is negative.                 *)
GetNum(b) ==
  LET num[i \in 0 .. Len(b)] ==
        IF i = 0 THEN IF b # <<>> /\ b[1] >= 128 THEN -1 ELSE 0
        ELSE 256 * num[i - 1] + b[i]
  IN  num[Len(b)]

ReadNum(r, n) == MapVal(read(r, n), GetNum)

ReadU8(r) == MapVal(read(r, 1), LAMBDA b : IF b = <<>> THEN 0 ELSE b[1])

(* Reads one value per item; the value of the result is the sequence of    *)
(* the values.  A loop that stops at the first error reads no more than    *)
(* this one, whose reads change nothing after an error.                    *)
ReadEach(r, items, one(_, _)) ==
  LET next(q, item) == MapVal(one(q, item), LAMBDA v : Append(q.val, v))
      after[i \in 0 .. Len(items)] ==
        IF i = 0 THEN SetVal(r, <<>>) ELSE next(after[i - 1], items[i])
  IN  after[Len(items)]

Times(n, item) == [i \in 1 .. n |-> item]

readSized(n) == IF n.err \/ n.val < 0 THEN SetVal(n, <<>>) ELSE read(n, n.val)

ReadBytes(r) == readSized(ReadNum(r, IntLen))

isHigh(u) == 55296 <= u /\ u < 56320     \* the surrogates
isLow(u)  == 56320 <= u /\ u < 57344

(* Go's conversion of a rune to a string: no surrogates.                   *)
goRune(u) == IF isHigh(u) \/ isLow(u) THEN 65533 ELSE u

leads(c)      == 224 <= c /\ c < 240
isTwo(b, i)   == 192 <= b[i] /\ b[i] < 224 /\ i < Len(b)
isThree(b, i) == leads(b[i]) /\ i + 2 <= Len(b)
three(b, i)   == (b[i] % 16) * 4096 + (b[i + 1] % 64) * 64 + (b[i + 2] % 64)
isPair(b, i)  ==      \* a high surrogate, then a low one
  /\ isThree(b, i) /\ isHigh(three(b, i))
  /\ i + 5 <= Len(b) /\ leads(b[i + 3])
  /\ isLow(three(b, i + 3))

decodeRune(b, i) ==
  IF isTwo(b, i) THEN (b[i] % 32) * 64 + (b[i + 1] % 64)
  ELSE IF isPair(b, i) THEN 65536 + (three(b, i) - 55296) * 1024 + three(b, i + 3) - 56320
  ELSE IF isThree(b, i) THEN goRune(three(b, i)) ELSE b[i]
runeWidth(b, i) ==
  IF isTwo(b, i) THEN 2 ELSE IF isPair(b, i) THEN 6 ELSE IF isThree(b, i) THEN 3 ELSE 1

decodeModifiedUTF8(b) ==
  ScanFrom(Len(b), LAMBDA i : decodeRune(b, i), LAMBDA i : i + runeWidth(b, i))

ReadString(r) == MapVal(ReadBytes(r), decodeModifiedUTF8)

-----------------------------------------------------------------------------
(***************************************************************************)
(* Times.  A wall clock <<day, sod, nanos, zone>> is zone seconds ahead of *)
(* UTC.                                                                    *)
(***************************************************************************)
Unix(t) == t[1] * Day + t[2] - t[4]
InZone(unix, nanos, zone) ==
  <<(unix + zone) \div Day, (unix + zone) % Day, nanos, zone>>

\* Variant: the date of the instant in UTC.
dateSecondsUTC(t) == (Unix(t) \div Day) * Day

(* The date of the wall clock, as midnight UTC.                            *)
dateSeconds(t) == t[1] * Day

-----------------------------------------------------------------------------
(***************************************************************************)
(* Values.  The codes of the source that share an encoding share a name.   *)
(***************************************************************************)
Months  == {"year", "month", "year_to_month"}
Seconds == {"day", "hour", "minute", "second", "day_to_hour", "day_to_minute",
            "day_to_second", "hour_to_minute", "hour_to_second", "minute_to_second"}
Scalars == {"char", "small", "int", "big", "bool", "dec", "date", "time", "timetz",
            "ts", "tstz", "bin", "bit", "lob", "all"} \cup Months \cup Seconds

OfNums == {"small", "int", "big", "lob", "date", "time", "timetz", "ts", "tstz"}
            \cup Months \cup Seconds

\* Widths of the integers of a code that consists of integers.
Widths(code) ==
  CASE code = "small"  -> <<ShortLen>>
    [] code = "int"    -> <<IntLen>>
    [] code \in {"big", "lob", "date"} \cup Months -> <<LongLen>>
    [] code = "time"   -> <<IntLen, IntLen>>
    [] code = "timetz" -> <<IntLen, IntLen, IntLen>>
    [] code \in {"ts"} \cup Seconds -> <<LongLen, IntLen>>
    [] code = "tstz"   -> <<LongLen, IntLen, IntLen>>

ToNums(code, v) ==
  CASE code \in {"small", "int", "big", "lob"} \cup Months -> <<v[1]>>
    [] code \in Seconds -> <<v[1], v[2]>>
    [] code = "date"   -> <<dateSeconds(v)>>
    [] code = "time"   -> <<v[2], v[3]>>
    [] code = "timetz" -> <<v[2], v[3], v[4]>>
    [] code = "ts"     -> <<Unix(v), v[3]>>
    [] code = "tstz"   -> <<Unix(v), v[3], v[4]>>

WriteScalar(code, v) ==
  CASE code = "all"    -> <<>>
    [] code = "char"   -> WriteBytes(encodeModifiedUTF8(v[1]))
    [] code = "bool"   -> <<v[1]>>
    [] code = "dec"    -> WriteBytes(bigIntToTwosComplement(v[1])) \o PutNum(IntLen, v[2])
    [] code = "bin"    -> WriteBytes(v[1])
    [] code = "bit"    -> PutNum(IntLen, 8 * Len(v[1])) \o v[1]
    [] code \in OfNums -> PutNums(Widths(code), ToNums(code, v))
    [] OTHER           -> v   \* a type of the server's alone

WriteFlagged(v, payload) == IF v = Null THEN <<0>> ELSE <<1>> \o payload

(* A type is [code, base], base the code of an array's elements.           *)
WriteValue(t, v) ==
  WriteFlagged(v,
    IF t.code # "array" THEN WriteScalar(t.code, v)
    ELSE PutNum(IntLen, Len(v[1]))
           \o FlattenSeq([i \in DOMAIN v[1] |->
                 WriteFlagged(v[1][i], WriteScalar(t.base, v[1][i]))]))

(* The units of the fields an interval prints.                             *)
Units(code) ==
  CASE code \in {"month", "second"}  -> <<1>>
    [] code = "year"                 -> <<12>>
    [] code = "year_to_month"        -> <<12, 1>>
    [] code = "day"                  -> <<Day>>
    [] code = "hour"                 -> <<Hour>>
    [] code = "minute"               -> <<Minute>>
    [] code = "day_to_hour"          -> <<Day, Hour>>
    [] code = "day_to_minute"        -> <<Day, Hour, Minute>>
    [] code = "day_to_second"        -> <<Day, Hour, Minute, 1>>
    [] code = "hour_to_minute"       -> <<Hour, Minute>>
    [] code = "hour_to_second"       -> <<Hour, Minute, 1>>
    [] code = "minute_to_second"     -> <<Minute, 1>>

(* A field holds what the one before it leaves; only SECOND drops what is  *)
(* beyond the minute although no field prints it.                          *)
fieldsOf(code, n) ==
  LET u == Units(code)
      left(i) == IF i > 1 THEN n % u[i - 1] ELSE IF code = "second" THEN n % Minute ELSE n
  IN  [i \in DOMAIN u |-> left(i) \div u[i]]

(* What is printed: the sign, the fields, and the fraction of the seconds. *)
formatYearMonthInterval(code, months) ==
  IF months < 0 THEN <<-1, fieldsOf(code, -months)>> ELSE <<1, fieldsOf(code, months)>>

formatDaySecondInterval(code, seconds, nanos) ==
  LET sign == IF seconds < 0 \/ nanos < 0 THEN -1 ELSE 1
  IN  <<sign, fieldsOf(code, sign * seconds), IF Last(Units(code)) = 1 THEN sign * nanos ELSE 0>>

FromNums(code, n) ==
  CASE code \in {"small", "int", "big", "lob"} -> n
    [] code \in Months  -> formatYearMonthInterval(code, n[1])
    [] code \in Seconds -> formatDaySecondInterval(code, n[1], n[2])
    [] code = "date"   -> InZone(n[1], 0, 0)
    [] code = "time"   -> InZone(n[1], n[2], 0)
    [] code = "timetz" -> InZone(n[1] - n[3], n[2], n[3])
    [] code = "ts"     -> InZone(n[1], n[2], 0)
    [] code = "tstz"   -> InZone(n[1], n[2], n[3])

ReadBits(n) == read(n, (n.val + 7) \div 8)
ReadScale(q) == MapVal(ReadNum(q, IntLen), LAMBDA scale : <<GetNum(q.val), scale>>)
readNums(q, code) == SetVal(q, IF q.err THEN Null ELSE FromNums(code, q.val))

readPayload(r, code) ==
  CASE code = "char" -> MapVal(ReadString(r), LAMBDA s : <<s>>)
    [] code = "bin"  -> MapVal(ReadBytes(r), LAMBDA b : <<b>>)
    [] code = "bit"  -> MapVal(ReadBits(ReadNum(r, IntLen)), LAMBDA b : <<b>>)
    [] code = "bool" -> MapVal(ReadU8(r), LAMBDA b : <<IF b # 0 THEN 1 ELSE 0>>)
    [] code = "dec"  -> ReadScale(ReadBytes(r))
    [] code \in OfNums -> readNums(ReadEach(r, Widths(code), ReadNum), code)
    [] code = "all"  -> SetVal(r, Null)
    [] OTHER         -> Fail(r, Null)

(* The presence flag; a NULL has nothing after it.                         *)
flagged(flag, payload(_)) == IF flag.val = 0 THEN SetVal(flag, Null) ELSE payload(flag)

ReadScalar(r, code) == flagged(ReadU8(r), LAMBDA q : readPayload(q, code))

readElements(n, base) ==
  MapVal(ReadEach(n, Times(n.val, base), ReadScalar), LAMBDA elements : <<elements>>)

ReadValue(r, t) ==
  IF t.code # "array" THEN ReadScalar(r, t.code)
  ELSE flagged(ReadU8(r), LAMBDA q : readElements(ReadNum(q, IntLen), t.base))

-----------------------------------------------------------------------------
(***************************************************************************)
(* Metadata: the names of types stand for their codes, CodeOf for the      *)
(* numbers.  A visible column is its five strings and attributes.          *)
(***************************************************************************)
Codes == <<"char", "small", "int", "big", "bool", "dec", "date", "time", "timetz",
           "ts", "tstz", "bin", "bit", "lob", "array", "geometry", "year", "month",
           "year_to_month", "day", "hour", "minute", "second", "day_to_hour",
           "day_to_minute", "day_to_second", "hour_to_minute", "hour_to_second",
           "minute_to_second">>
CodeOf(code) == IF code = "all" THEN 0 ELSE CHOOSE i \in DOMAIN Codes : Codes[i] = code
NameOf(i)    == IF i \in DOMAIN Codes THEN Codes[i] ELSE "all"

WriteDataTypeSimple(t) ==
  PutNum(ShortLen, CodeOf(t.code))
    \o IF t.code = "array" THEN PutNum(ShortLen, CodeOf(t.base)) ELSE <<>>

WriteDataType(t) == WriteDataTypeSimple(t) \o PutNums(<<LongLen, IntLen>>, <<t.prec, t.scale>>)

ColumnType(code, base, prec, scale) ==
  [code |-> code, base |-> base, prec |-> prec, scale |-> scale]

TypeOf(code, base) == ColumnType(code, base, 0, 0)

readBase(c) ==
  IF NameOf(c.val) # "array" THEN SetVal(c, TypeOf(NameOf(c.val), "all"))
  ELSE MapVal(ReadNum(c, ShortLen), LAMBDA b : TypeOf("array", NameOf(b)))

ReadDataTypeSimple(r) == readBase(ReadNum(r, ShortLen))

readSize(t) ==
  MapVal(ReadEach(t, <<LongLen, IntLen>>, ReadNum),
         LAMBDA n : ColumnType(t.val.code, t.val.base, n[1], n[2]))

ReadDataType(r) == readSize(ReadDataTypeSimple(r))

Strings(ss) == FlattenSeq([i \in DOMAIN ss |-> WriteBytes(encodeModifiedUTF8(ss[i]))])
Nums(n, xs) == PutNums([i \in DOMAIN xs |-> n], xs)
Flat(xs, write(_)) == FlattenSeq([i \in DOMAIN xs |-> write(xs[i])])

(* m is [kind, count, types, cols, idx]: count visible columns, the types  *)
(* of all (extended) columns, the strings and attributes of the visible    *)
(* ones, and the map between them.                                         *)
writeMetadata(m) ==
  LET column(c)  == Strings(c.names) \o <<c.attrs>>
      columns    == Flat(m.cols, column)
      indexes    == IF m.count = Len(m.types) THEN <<>> ELSE Nums(IntLen, m.idx)
  IN  PutNums(<<IntLen, IntLen>>, <<m.kind, m.count>>)
        \o CASE m.kind \in {2, 3} -> Flat(m.types, WriteDataTypeSimple)
             [] m.kind = 5 -> Nums(IntLen, m.idx)
             [] m.kind = 6 -> Flat(m.cols, LAMBDA c : Strings(c.names))
             [] m.kind = 4 -> FlattenSeq([i \in DOMAIN m.types |->
                                WriteDataType(m.types[i]) \o column(m.cols[i])])
             [] m.kind = 1 -> PutNum(IntLen, Len(m.types)) \o Flat(m.types, WriteDataType)
                                \o columns \o indexes

readAttrs(s) == MapVal(ReadU8(s), LAMBDA a : [names |-> s.val, attrs |-> a])
readName(r, x) == ReadString(r)
ReadColumn(r, strings) == readAttrs(ReadEach(r, Times(strings, 0), readName))

readLabel(t)    == MapVal(ReadColumn(t, 1), LAMBDA c : <<t.val, c>>)
ReadParam(r, x) == readLabel(ReadDataType(r))
simpleType(r, x) == ReadDataTypeSimple(r)
fullType(r, x)   == ReadDataType(r)

(* The map of the visible columns comes only when there are others.        *)
indexes(count, extended) == IF count = extended THEN 0 ELSE count

Meta(kind, count, types, cols, idx) ==
  [kind |-> kind, count |-> count, types |-> types, cols |-> cols, idx |-> idx]

(* After the kind and the count: the branches of readMetadata.             *)
readIndexes(c, kind, count, types) ==
  MapVal(ReadEach(c, Times(indexes(count, Len(types)), IntLen), ReadNum),
         LAMBDA idx : Meta(kind, count, types, c.val, idx))
readColumns(t, kind, count) ==
  readIndexes(ReadEach(t, Times(count, 5), ReadColumn), kind, count, t.val)
readTypes(n) == ReadEach(n, Times(n.val, 0), fullType)

readBranch(k, kind, count) ==
  CASE kind \in {2, 3} -> MapVal(ReadEach(k, Times(count, 0), simpleType),
                                LAMBDA ts : Meta(kind, count, ts, <<>>, <<>>))
    [] kind = 5 -> MapVal(ReadEach(k, Times(count, IntLen), ReadNum),
                          LAMBDA ns : Meta(kind, count, <<>>, <<>>, ns))
    [] kind = 6 -> MapVal(ReadEach(k, Times(count, 0), readName),
                          LAMBDA ss : Meta(kind, count, <<>>,
                            [i \in DOMAIN ss |-> [names |-> <<ss[i]>>, attrs |-> 0]], <<>>))
    [] kind = 4 -> MapVal(ReadEach(k, Times(count, 0), ReadParam),
                          LAMBDA ps : Meta(kind, count, [i \in DOMAIN ps |-> ps[i][1]],
                                           [i \in DOMAIN ps |-> ps[i][2]], <<>>))
    [] kind = 1 -> readColumns(readTypes(ReadNum(k, IntLen)), kind, count)
    [] OTHER    -> Fail(k, Meta(kind, count, <<>>, <<>>, <<>>))

readHead(k)     == readBranch(k, k.val[1], k.val[2])
readMetadata(r) == readHead(ReadEach(r, <<IntLen, IntLen>>, ReadNum))

-----------------------------------------------------------------------------
(***************************************************************************)
(* Results.  The fields of a response, by the mode of its frame.           *)
(***************************************************************************)
ReadRow(r, types) == ReadEach(r, types, ReadValue)

(* One value per type of the metadata read before.                         *)
readCounted(n) == ReadEach(n, Times(n.val, n.meta.types), ReadRow)
readRowSetSimple(r) == readCounted(ReadNum(r, IntLen))

(* readRowSet: id, size and offset of the block before its rows.           *)
readBlock(h) == MapVal(readRowSetSimple(h), LAMBDA rows : <<h.val, rows>>)
readRowSet(r) == readBlock(ReadEach(r, <<LongLen, IntLen, IntLen>>, ReadNum))

keepMeta(q) == RowInput(q.buf, q.err, q.val, q.val)

ReadField(r, kind) ==
  CASE kind = "u8"     -> ReadU8(r)
    [] kind = "short"  -> ReadNum(r, ShortLen)
    [] kind = "int"    -> ReadNum(r, IntLen)
    [] kind = "long"   -> ReadNum(r, LongLen)
    [] kind = "str"    -> ReadString(r)
    [] kind = "meta"   -> keepMeta(readMetadata(r))
    [] kind = "simple" -> readRowSetSimple(r)
    [] kind = "rows"   -> readRowSet(r)

Data == <<"long", "int", "int", "u8", "meta", "rows">>
Simple == <<"int", "int", "long", "short", "meta", "simple">>

Layout ==
  [mode \in {1, 2, 3, 4, 6, 7, 11, 14, 15, 16, 19, 20, 38, 43} |->
     CASE mode = 1            -> <<"int">>
       [] mode \in {2, 19}    -> <<"str", "str", "int">>
       [] mode \in {3, 15, 20} -> Data
       [] mode = 14           -> <<"meta", "rows">>
       [] mode = 4            -> <<"u8", "long", "u8", "meta", "meta">>
       [] mode \in {6, 16}    -> Simple
       [] mode \in {7, 38}    -> <<>>
       [] mode = 11           -> <<"int", "long", "str", "str", "int">>
       [] mode = 43           -> <<"int", "int", "long", "u8", "u8", "meta", "simple">>]

DecodeResult(mode, payload) ==
  IF mode \notin DOMAIN Layout THEN Fail(NewRowInput(payload), Null)
  ELSE ReadEach(NewRowInput(payload),
                IF mode = 6 /\ payload = <<>> THEN <<>> ELSE Layout[mode], ReadField)

(* [mode][length][payload], the length its own bytes included; NONE alone. *)
split(s, length) ==
  IF length < IntLen \/ Len(s) < 1 + length THEN [err |-> TRUE]
  ELSE [err |-> FALSE, mode |-> s[1], payload |-> SubSeq(s, IntLen + 2, 1 + length),
        rest |-> SubSeq(s, 2 + length, Len(s))]

ReadFrame(s) ==
  IF s = <<>> THEN [err |-> TRUE]
  ELSE IF s[1] = 0 THEN [err |-> FALSE, mode |-> 0, rest |-> Tail(s)]
  ELSE IF Len(s) < IntLen + 1 THEN [err |-> TRUE]
  ELSE split(s, GetNum(SubSeq(s, 2, IntLen + 1)))

WriteFrame(mode, payload) == <<mode>> \o PutNum(IntLen, IntLen + Len(payload)) \o payload

-----------------------------------------------------------------------------
(***************************************************************************)
(* The server (external): its fields, in their order.  The types of a row  *)
(* are those of the metadata field before it.                              *)
(***************************************************************************)
PutRows(types, rows) ==
  PutNum(IntLen, Len(rows))
    \o Flat(rows, LAMBDA row : FlattenSeq([j \in DOMAIN types |-> WriteValue(types[j], row[j])]))

PutField(types, f) ==
  CASE f[1] = "u8"     -> <<f[2]>>
    [] f[1] = "short"  -> PutNum(ShortLen, f[2])
    [] f[1] = "int"    -> PutNum(IntLen, f[2])
    [] f[1] = "long"   -> PutNum(LongLen, f[2])
    [] f[1] = "str"    -> Strings(<<f[2]>>)
    [] f[1] = "meta"   -> writeMetadata(f[2])
    [] f[1] = "simple" -> PutRows(types, f[2])
    [] f[1] = "rows"   -> PutNums(<<LongLen, IntLen, IntLen>>, f[2][1])
                            \o PutRows(types, f[2][2])

(* Types of the rows of a frame.                                           *)
RowTypes(fields) ==
  LET metas == {i \in DOMAIN fields : fields[i][1] = "meta"}
  IN  IF metas = {} THEN <<>>
      ELSE fields[CHOOSE i \in metas : \A j \in metas : i <= j][2].types

Payload(f) == Flat(f.fields, LAMBDA x : PutField(RowTypes(f.fields), x))

Encode(frames) == Flat(frames, LAMBDA f : WriteFrame(f.mode, Payload(f))) \o <<0>>

(* What the server sends: values of their types, whose sizes fit the       *)
(* integers that announce them.  A string is code points: a pair of        *)
(* surrogates is one.  An interval is a multiple of its last field.        *)
IsSeq(s)   == Len(s) \in Nat /\ s = [i \in 1 .. Len(s) |-> s[i]]
Fits(n, v) == v \in Int /\ Shift(v, n - 1) \in -128 .. 127

Rune == {u \in Nat : u <= 1114111}

TextOK(s) ==
  /\ s \in Seq(Rune) /\ Fits(IntLen, Len(encodeModifiedUTF8(s)))
  /\ \A i \in 1 .. Len(s) - 1 : ~(isHigh(s[i]) /\ isLow(s[i + 1]))

Clock(v) == v \in Int \X (0 .. Day - 1) \X Int \X Int

ScalarOK(code, v) ==
  /\ CASE code = "char" -> v = <<v[1]>> /\ TextOK(v[1])
       [] code = "bool" -> v \in {<<0>>, <<1>>}
       [] code = "dec"  -> /\ v = <<v[1], v[2]>> /\ v[1] \in Int /\ Fits(IntLen, v[2])
                           /\ Fits(IntLen, Len(bigIntToTwosComplement(v[1])))
       [] code = "bin"  -> v = <<v[1]>> /\ v[1] \in Seq(0 .. 255) /\ Fits(IntLen, Len(v[1]))
       [] code = "bit"  -> v = <<v[1]>> /\ v[1] \in Seq(0 .. 255) /\ Fits(IntLen, 8 * Len(v[1]))
       [] code \in {"small", "int", "big", "lob"} \cup Months -> v = <<v[1]>>
       [] code \in Seconds -> v = <<v[1], v[2]>>
       [] code \in {"date", "time", "timetz", "ts", "tstz"} -> Clock(v)
       [] code = "all"  -> TRUE
       [] OTHER         -> v \in Seq(0 .. 255)
  /\ code \in OfNums => \A i \in DOMAIN Widths(code) : Fits(Widths(code)[i], ToNums(code, v)[i])
  /\ code \in Months \cup Seconds => v[1] % Last(Units(code)) = 0
  /\ code \in Seconds => /\ Last(Units(code)) # 1 => v[2] = 0
                         /\ v[1] > 0 => v[2] >= 0
                         /\ v[1] < 0 => v[2] <= 0

ValueOK(t, v) ==
  v # Null =>
    IF t.code # "array" THEN ScalarOK(t.code, v)
    ELSE /\ v = <<v[1]>> /\ IsSeq(v[1]) /\ Fits(IntLen, Len(v[1]))
         /\ \A i \in DOMAIN v[1] : v[1][i] # Null => ScalarOK(t.base, v[1][i])

RowsOK(types, rows) ==
  /\ IsSeq(rows) /\ Fits(IntLen, Len(rows))
  /\ \A i \in DOMAIN rows, j \in DOMAIN types : ValueOK(types[j], rows[i][j])

SimpleTypeOK(t) ==
  /\ t.code \in Scalars \cup {"array", "geometry"}
  /\ t.base \in IF t.code = "array" THEN Scalars \cup {"geometry"} ELSE {"all"}
  /\ t = TypeOf(t.code, t.base)

FullTypeOK(t) ==
  /\ SimpleTypeOK(TypeOf(t.code, t.base))
  /\ t = ColumnType(t.code, t.base, t.prec, t.scale)
  /\ Fits(LongLen, t.prec) /\ Fits(IntLen, t.scale)

ColumnOK(c, strings) ==
  /\ c = [names |-> c.names, attrs |-> c.attrs] /\ c.attrs \in 0 .. 255
  /\ IsSeq(c.names) /\ Len(c.names) = strings /\ \A i \in DOMAIN c.names : TextOK(c.names[i])

MetaOK(m) ==
  LET types(n, ok(_)) == Len(m.types) = n /\ \A i \in 1 .. n : ok(m.types[i])
      cols(n, strings) == Len(m.cols) = n /\ \A i \in 1 .. n : ColumnOK(m.cols[i], strings)
      idx(n)  == Len(m.idx) = n /\ \A i \in 1 .. n : Fits(IntLen, m.idx[i])
      none(x) == x = <<>>
  IN  /\ m = Meta(m.kind, m.count, m.types, m.cols, m.idx)
      /\ IsSeq(m.types) /\ IsSeq(m.cols) /\ IsSeq(m.idx)
      /\ m.count \in Nat /\ Fits(IntLen, m.count)
      /\ \/ m.kind \in {2, 3} /\ types(m.count, SimpleTypeOK) /\ none(m.cols) /\ none(m.idx)
         \/ m.kind = 5 /\ none(m.types) /\ none(m.cols) /\ idx(m.count)
         \/ m.kind = 6 /\ none(m.types) /\ cols(m.count, 1) /\ none(m.idx)
              /\ \A i \in 1 .. m.count : m.cols[i].attrs = 0
         \/ m.kind = 4 /\ types(m.count, FullTypeOK) /\ cols(m.count, 1) /\ none(m.idx)
         \/ m.kind = 1 /\ types(Len(m.types), FullTypeOK) /\ Fits(IntLen, Len(m.types))
              /\ m.count <= Len(m.types) /\ cols(m.count, 5) /\ idx(indexes(m.count, Len(m.types)))

FieldOK(types, f) ==
  /\ f = <<f[1], f[2]>>
  /\ CASE f[1] = "u8"     -> f[2] \in 0 .. 255
       [] f[1] = "short"  -> Fits(ShortLen, f[2])
       [] f[1] = "int"    -> Fits(IntLen, f[2])
       [] f[1] = "long"   -> Fits(LongLen, f[2])
       [] f[1] = "str"    -> TextOK(f[2])
       [] f[1] = "meta"   -> MetaOK(f[2])
       [] f[1] = "simple" -> RowsOK(types, f[2])
       [] f[1] = "rows"   -> /\ f[2] = <<f[2][1], f[2][2]>> /\ RowsOK(types, f[2][2])
                             /\ f[2][1] = <<f[2][1][1], f[2][1][2], f[2][1][3]>>
                             /\ Fits(LongLen, f[2][1][1])
                             /\ Fits(IntLen, f[2][1][2]) /\ Fits(IntLen, f[2][1][3])
       [] OTHER           -> FALSE

FrameOK(f) ==
  /\ f.mode \in 1 .. 255
  /\ IsSeq(f.fields) /\ \A j \in DOMAIN f.fields : FieldOK(RowTypes(f.fields), f.fields[j])
  /\ \/ f.mode \notin DOMAIN Layout
     \/ f.mode = 6 /\ f.fields = <<>>
     \/ [j \in DOMAIN f.fields |-> f.fields[j][1]] = Layout[f.mode]
  /\ Fits(IntLen, IntLen + Len(Payload(f)))

ASSUME ServerSends ==
  \A frames \in Transmissions :
    IsSeq(frames) /\ frames # <<>> /\ \A i \in DOMAIN frames : FrameOK(frames[i])

(* What follows on the connection: the next response.                      *)
NextResponse == WriteFrame(1, PutNum(IntLen, 7)) \o <<0>>

-----------------------------------------------------------------------------
(***************************************************************************)
(* conn.receive, then ScanArray of the arrays in the rows.                 *)
(***************************************************************************)
VARIABLES sent,     \* the frames of the transmission
          size,     \* their bytes
          kept,     \* bytes that arrive before the connection is lost
          stream,   \* bytes not read yet
          results,  \* the results decoded so far, each its fields
          pc,       \* "receive", "done", "failed" or "scanned"
          scanned   \* base types, elements and scanned slices of the arrays

vars == <<sent, size, kept, stream, results, pc, scanned>>

Init ==
  /\ sent \in Transmissions
  /\ LET bytes == Encode(sent)
     IN  /\ size = Len(bytes)
         /\ kept \in 0 .. size + Len(NextResponse)
         /\ stream = SubSeq(bytes \o NextResponse, 1, kept)
  /\ results = <<>> /\ pc = "receive" /\ scanned = {}

decoded(r) ==
  IF r.err THEN pc' = "failed" /\ UNCHANGED results
  ELSE results' = Append(results, r.val) /\ UNCHANGED pc

receive(f) ==
  IF f.err THEN pc' = "failed" /\ UNCHANGED <<stream, results>>
  ELSE IF f.mode = 0
    THEN /\ pc' = IF results = <<>> THEN "failed" ELSE "done"
         /\ stream' = f.rest /\ UNCHANGED results
    ELSE stream' = f.rest /\ decoded(DecodeResult(f.mode, f.payload))

(* One round of receive: the main frame, a chained one, or the terminator. *)
(* A main frame of mode NONE cannot be decoded.                            *)
Receive ==
  /\ pc = "receive"
  /\ receive(ReadFrame(stream))
  /\ UNCHANGED <<sent, size, kept, scanned>>

(* The array values of the rows of the main result, with their types.      *)
RowsOf(kind, value) == IF kind = "rows" THEN value[2] ELSE IF kind = "simple" THEN value ELSE <<>>

ArraysOf(fields, values) ==
  LET types == RowTypes(fields)
  IN  {<<types[j], row[j]>> : row \in UNION {ToSet(RowsOf(fields[i][1], values[i])) : i \in DOMAIN fields},
                              j \in {k \in DOMAIN types : types[k].code = "array"}}

(* resolveValue renders an array as text, ScanArray parses the text.       *)
Scan ==
  /\ pc = "done" /\ pc' = "scanned"
  /\ scanned' = {<<a[1].base, a[2][1], ScanArray(a[1].base, encodeArrayText(a[1].base, a[2][1]))>> :
                   a \in {b \in ArraysOf(sent[1].fields, results[1]) :
                            b[2] # Null /\ b[1].base \in Bases}}
  /\ UNCHANGED <<sent, size, kept, stream, results>>

Next == Receive \/ Scan

Spec == Init /\ [][Next]_vars

-----------------------------------------------------------------------------
(***************************************************************************)
(* Properties.                                                             *)
(***************************************************************************)

(* Every variable stays in its type: bytes are bytes.                      *)
TypeOK ==
  /\ sent \in Transmissions /\ size \in Nat /\ kept \in 0 .. size + Len(NextResponse)
  /\ stream \in Seq(0 .. 255) /\ Len(stream) <= kept
  /\ Len(results) <= Len(sent)
  /\ pc \in {"receive", "done", "failed", "scanned"}

(* The printed fields add up to the interval, each below the next larger   *)
(* unit, and the fraction is printed in the seconds.  SECOND from a minute *)
(* on is excepted: it prints the seconds beyond the minute alone.          *)
IntervalMeans(code, v, got) ==
  LET u == Units(code)
      sum[i \in 0 .. Len(u)] == IF i = 0 THEN 0 ELSE sum[i - 1] + u[i] * got[2][i]
      total == sum[Len(u)]
      lost  == code = "second" /\ v[1] \notin 1 - Minute .. Minute - 1
  IN  /\ ~lost => v[1] = got[1] * total
      /\ \A i \in DOMAIN u : got[2][i] >= 0 /\ (i > 1 => got[2][i] < u[i - 1] \div u[i])
      /\ code \in Seconds /\ Last(u) = 1 => got[3] >= 0 /\ v[2] = got[1] * got[3]

(* A string as Go holds it.                                                *)
GoText(s) == [i \in DOMAIN s |-> goRune(s[i])]

(* What a value that was sent is to the reader.  A date is midnight UTC of *)
(* the wall clock's date, a time its time of day, a timestamp its instant. *)
Means(code, v, got) ==
  IF v = Null \/ code = "all" THEN got = Null
  ELSE /\ got # Null
       /\ CASE code \in {"small", "int", "big", "bool", "dec", "bin", "bit", "lob", "tstz"} -> got = v
            [] code = "char"   -> got = <<GoText(v[1])>>
            [] code = "date"   -> got = <<v[1], 0, 0, 0>>
            [] code = "time"   -> got = <<0, v[2], v[3], 0>>
            [] code = "timetz" -> got = <<0, v[2], v[3], v[4]>>
            [] code = "ts"     -> Unix(got) = Unix(v) /\ got[2] \in 0 .. Day - 1
                                    /\ got[3] = v[3] /\ got[4] = 0
            [] code \in Months \cup Seconds -> IntervalMeans(code, v, got)
            [] OTHER -> FALSE

ValueArrives(t, v, got) ==
  IF t.code # "array" \/ v = Null THEN Means(t.code, v, got)
  ELSE /\ Len(got[1]) = Len(v[1])
       /\ \A i \in DOMAIN v[1] : Means(t.base, v[1][i], got[1][i])

RowsArrive(types, rows, got) ==
  /\ Len(got) = Len(rows)
  /\ \A i \in DOMAIN rows, j \in DOMAIN types : ValueArrives(types[j], rows[i][j], got[i][j])

(* Metadata arrives as it was sent, its names as strings of Go.             *)
GoColumn(c) == [names |-> [i \in DOMAIN c.names |-> GoText(c.names[i])], attrs |-> c.attrs]
GoMeta(m) ==
  Meta(m.kind, m.count, m.types, [i \in DOMAIN m.cols |-> GoColumn(m.cols[i])], m.idx)

FieldArrives(kind, types, v, got) ==
  CASE kind = "simple" -> RowsArrive(types, v, got)
    [] kind = "rows"   -> v[1] = got[1] /\ RowsArrive(types, v[2], got[2])
    [] kind = "str"    -> got = GoText(v)
    [] kind = "meta"   -> got = GoMeta(v)
    [] OTHER           -> got = v

(* A mode, or the type of a value, that the driver does not know.          *)
Unknown(frames) ==
  \E i \in DOMAIN frames :
    LET types == RowTypes(frames[i].fields)
    IN  \/ frames[i].mode \notin DOMAIN Layout
        \/ \E j \in DOMAIN frames[i].fields :
             \E row \in ToSet(RowsOf(frames[i].fields[j][1], frames[i].fields[j][2])) :
               \E k \in DOMAIN types :
                 /\ row[k] # Null
                 /\ "geometry" \in {types[k].code, types[k].base}

(* A response is decoded into what the server sent, frame by frame, field  *)
(* by field and value by value, whatever is chained to it, and leaves the  *)
(* stream at the next response; one that is cut short or has a value of an *)
(* unknown type is never decoded into anything.  Nothing else fails: no    *)
(* value of any type breaks a connection that works.                       *)
DecodesWhatWasSent ==
  /\ pc \in {"done", "scanned"} =>
       /\ Len(results) = Len(sent) /\ Len(stream) = kept - size
       /\ \A i \in DOMAIN sent :
            LET fields == sent[i].fields
            IN  /\ Len(results[i]) = Len(fields)
                /\ \A j \in DOMAIN fields :
                     FieldArrives(fields[j][1], RowTypes(fields), fields[j][2], results[i][j])
  /\ pc = "failed" => kept < size \/ Unknown(sent)

(* ScanArray of the text of an array restores its elements, NULL as the    *)
(* zero value, whatever its strings contain.  Exception of the code: empty *)
(* bytes at the end of an array, whose text is empty, are lost.            *)
ArraysAreLossless ==
  \A s \in scanned :
    LET base == s[1]  elements == s[2]
    IN  \/ s[3] = [i \in DOMAIN elements |->
                     IF elements[i] = Null THEN ZeroOf(base) ELSE elements[i][1]]
        \/ base = "bin" /\ elements # <<>> /\ Last(elements) = <<<<>>>>
=============================================================================
