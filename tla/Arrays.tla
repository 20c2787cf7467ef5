------------------------------- MODULE Arrays -------------------------------
(***************************************************************************)
(* The text form of ARRAY values (array.go): encodeArrayText, by which a   *)
(* row delivers them, and ScanArray, which parses it into a typed slice.   *)
(*                                                                         *)
(* A text is a sequence of characters (code points).  Elements are tuples, *)
(* as in module Wire: <<>> for NULL, <<n>> for an integer, <<s>> for a     *)
(* string or bytes.  strconv.Quote escapes quotes and backslashes here;    *)
(* the other characters it escapes contain no quote either.  The letters   *)
(* of NULL are one character.  Temporal, DECIMAL and INTERVAL elements are *)
(* quoted like strings.                                                    *)
(***************************************************************************)
EXTENDS Integers, Sequences, SequencesExt

Open      == 91
Close     == 93
Comma     == 44
Quote     == 34
Backslash == 92
Minus     == 45
Zero      == 48
A         == 97
NullToken == 9999

(* The items of a text of n characters: the one at position 1, the one at  *)
(* the position next to it, and so on to the end of the text.              *)
ScanFrom(n, item(_), next(_)) ==
  LET from[i \in 1 .. n + 2] == IF i > n THEN <<>> ELSE <<item(i)>> \o from[next(i)]
  IN  from[1]

\* The types of the elements that are modelled.
Bases == {"char", "bin", "small", "int", "big"}

Digits(n) ==
  LET of[k \in 0 .. n] == IF k < 10 THEN <<Zero + k>> ELSE of[k \div 10] \o <<Zero + (k % 10)>>
  IN  of[n]
FormatInt(n) == IF n < 0 THEN <<Minus>> \o Digits(-n) ELSE Digits(n)

HexDigit(d) == IF d < 10 THEN Zero + d ELSE A + d - 10
Hex(bytes) == FlattenSeq([i \in DOMAIN bytes |->
                <<HexDigit(bytes[i] \div 16), HexDigit(bytes[i] % 16)>>])

\* Variant: quotes inside a string are not escaped.
QuotedBare(s) == <<Quote>> \o s \o <<Quote>>

Quoted(s) ==
  <<Quote>> \o FlattenSeq([i \in DOMAIN s |->
                 IF s[i] \in {Quote, Backslash} THEN <<Backslash, s[i]>> ELSE <<s[i]>>])
            \o <<Quote>>

encodeArrayElement(base, v) ==
  CASE v = <<>>     -> <<NullToken>>
    [] v # <<>> /\ base = "char" -> Quoted(v[1])
    [] v # <<>> /\ base = "bin"  -> Hex(v[1])
    [] OTHER -> FormatInt(v[1])

Commas(parts) ==
  FlattenSeq([i \in DOMAIN parts |-> IF i = 1 THEN parts[i] ELSE <<Comma>> \o parts[i]])

encodeArrayText(base, values) ==
  <<Open>> \o Commas([i \in DOMAIN values |-> encodeArrayElement(base, values[i])]) \o <<Close>>

-----------------------------------------------------------------------------
(* The quote that ends the element after i: escaped characters are passed  *)
(* over.                                                                   *)
ClosingQuote(s, i) ==
  LET from[j \in i .. Len(s) + 2] ==
        IF j > Len(s) \/ s[j] = Quote THEN j
        ELSE from[IF s[j] = Backslash THEN j + 2 ELSE j + 1]
  IN  from[i]

NextComma(s, i) ==
  LET commas == {j \in i .. Len(s) : s[j] = Comma}
  IN  IF commas = {} THEN Len(s) + 1 ELSE CHOOSE j \in commas : \A k \in commas : j <= k

Unquoted(s) ==
  ScanFrom(Len(s), LAMBDA i : IF s[i] = Backslash THEN s[i + 1] ELSE s[i],
                   LAMBDA i : IF s[i] = Backslash THEN i + 2 ELSE i + 1)

(* The element at i, its characters and whether they were quoted, and the  *)
(* position after the comma behind it.                                     *)
elementAt(s, i) ==
  IF s[i] = Quote
    THEN [raw |-> Unquoted(SubSeq(s, i + 1, ClosingQuote(s, i + 1) - 1)), quoted |-> TRUE]
    ELSE [raw |-> SubSeq(s, i, NextComma(s, i) - 1), quoted |-> FALSE]
elementAfter(s, i) ==
  NextComma(s, IF s[i] = Quote THEN ClosingQuote(s, i + 1) + 1 ELSE i) + 1

(* The elements of a text without its brackets.  The loop ends with the    *)
(* text, so a bare element of no characters after the last comma is not an *)
(* element.                                                                *)
Elements(s) ==
  ScanFrom(Len(s), LAMBDA i : elementAt(s, i), LAMBDA i : elementAfter(s, i))

parseArrayElements(text) == Elements(SubSeq(text, 2, Len(text) - 1))

ParseInt(s) ==
  LET first == IF s[1] = Minus THEN 2 ELSE 1
      upTo[i \in first - 1 .. Len(s)] ==
        IF i < first THEN 0 ELSE 10 * upTo[i - 1] + s[i] - Zero
  IN  IF first = 2 THEN -upTo[Len(s)] ELSE upTo[Len(s)]

ParseHex(s) ==
  LET value(c) == IF c >= A THEN c - A + 10 ELSE c - Zero
  IN  [i \in 1 .. Len(s) \div 2 |-> 16 * value(s[2 * i - 1]) + value(s[2 * i])]

(* The zero value of a slice's element type, which NULL becomes.           *)
ZeroOf(base) == IF base \in {"char", "bin"} THEN <<>> ELSE 0

setArrayElement(base, e) ==
  IF ~e.quoted /\ e.raw = <<NullToken>> THEN ZeroOf(base)
  ELSE CASE base = "char" -> e.raw
         [] base = "bin"  -> IF e.quoted THEN e.raw ELSE ParseHex(e.raw)
         [] OTHER         -> ParseInt(e.raw)

(* ScanArray of a destination whose elements fit the array's.              *)
ScanArray(base, text) ==
  LET elems == parseArrayElements(text)
  IN  [i \in DOMAIN elems |-> setArrayElement(base, elems[i])]
=============================================================================
