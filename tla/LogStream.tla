----------------------------- MODULE LogStream -----------------------------
(***************************************************************************)
(* libeva/Logger/LogStream: the stream a log statement is composed in.  It *)
(* has room for Size bytes; what does not fit is dropped piece by piece,   *)
(* and the statement goes on.                                              *)
(*                                                                         *)
(* A piece is what one << adds: the item it was given, its text, as much   *)
(* of it as the properties look at, and its length in bytes.  "top" is the *)
(* number of bytes the stream has touched, with the '\0' a conversion      *)
(* leaves behind.                                                          *)
(***************************************************************************)
EXTENDS Integers, Sequences, SequencesExt

CONSTANTS Size,             \* kSmallBuffer
          MaxNumericSize    \* kMaxNumericSize

ASSUME StreamAssumption == /\ Size \in Nat /\ MaxNumericSize \in Nat
                           /\ MaxNumericSize < Size

EmptyStream == [pieces |-> <<>>, length |-> 0, top |-> 0]

avail(s) == Size - s.length

Piece(item, text, len) == [item |-> item, text |-> text, len |-> len]

\* The bytes of p, and "extra" bytes behind them that are not added.
Written(s, p, extra) ==
  [pieces |-> Append(s.pieces, p), length |-> s.length + p.len,
   top |-> Max({s.top, s.length + p.len + extra})]

append(s, p) == IF avail(s) > p.len THEN Written(s, p, 0) ELSE s

\* Mutant of InPlace: any room is enough for a number.
InPlaceAnywhere(s, p) == IF avail(s) > 0 THEN Written(s, p, 1) ELSE s

\* A conversion happens in place, and only where a number surely fits.
InPlace(s, p) == IF avail(s) >= MaxNumericSize THEN Written(s, p, 1) ELSE s

-----------------------------------------------------------------------------
(* Numbers.  Division and remainder of C++ truncate towards zero.          *)

Quotient(i, n) == IF i < 0 /\ i % n # 0 THEN (i \div n) + 1 ELSE i \div n
Remainder(i, n) == IF i < 0 /\ i % n # 0 THEN (i % n) - n ELSE i % n

digits == <<"9", "8", "7", "6", "5", "4", "3", "2", "1", "0",
            "1", "2", "3", "4", "5", "6", "7", "8", "9">>
zero(lsd) == digits[lsd + 10]

digitsHex == <<"0", "1", "2", "3", "4", "5", "6", "7",
               "8", "9", "A", "B", "C", "D", "E", "F">>

convert(value) ==
  LET loop[i \in IF value < 0 THEN value..0 ELSE 0..value] ==
        <<zero(Remainder(i, 10))>>
          \o IF Quotient(i, 10) # 0 THEN loop[Quotient(i, 10)] ELSE <<>>
  IN  Reverse(loop[value] \o IF value < 0 THEN <<"-">> ELSE <<>>)

convertHex(value) ==
  LET loop[i \in 0..value] ==
        <<digitsHex[(i % 16) + 1]>>
          \o IF i \div 16 # 0 THEN loop[i \div 16] ELSE <<>>
  IN  Reverse(loop[value])

-----------------------------------------------------------------------------
(* Quantities with units.  The row of the text is chosen by one number and *)
(* the text printed from another: formatSI() compares the integer and      *)
(* prints the double next to it, divided by its unit.                      *)
(*                                                                         *)
(* An SI quantity is an integer that begins with the four digits of m, and *)
(* has e more; below 1000, m is the integer and e is 0.  An IEC quantity   *)
(* is a double of c hundredths of 1024^e, and a fraction of a hundredth.   *)
(* "double" is m or c as printf's rounding sees it.  The text is a rounded *)
(* number, printed with some decimals, and the index of its unit (0 for    *)
(* none).                                                                  *)

Rendered(number, decimals, unit) ==
  [number |-> number, decimals |-> decimals, unit |-> unit]

\* m / n, rounded to the nearest number; halves go up.
Rounded(m, n) == (2 * m + n) \div (2 * n)

\* The double of an integer of more than 53 bits may have the next four
\* digits already: of 9994999999999999 it is 9995 * 10^12, but divided by
\* 10^15 that is again below 9.995.  A half goes where its quotient lies.
SIDoubles(m, e) ==
  {m} \union (IF m % 10 = 5 THEN {m - 1} ELSE {})
      \union (IF e > 12 \/ (e = 12 /\ m \in 9007..9993) THEN {m + 1} ELSE {})

\* Below 9995 * 10^x there are 2, 1 or 0 decimals, for x = 0, 1, 2, and the
\* units repeat this; the last unit, E, has two decimals.  The row is that
\* of the integer, whatever its double is.
SIRow(m, e) == IF m < 9995 THEN e ELSE e + 1

formatSI(m, double, e) ==
  LET row == SIRow(m, e)
  IN  IF e = 0 /\ m < 1000 THEN Rendered(m, 0, 0)
      ELSE IF row < 15
      THEN Rendered(Rounded(double, IF row = e THEN 10 ELSE 100),
                    2 - (row % 3), (row \div 3) + 1)
      ELSE Rendered(Rounded(double, IF e = 15 THEN 10 ELSE 100), 2, 6)

\* The quotients are exact here, and a half goes to the even digit.
IECDoubles(c) == {c} \union (IF c > 0 /\ c % 512 = 0 THEN {c - 1} ELSE {})

\* The limits are 9.995, 99.95 and 1023.5 of the next unit, 1024^(e+1).
\* (As a double the first is a little less: just below it "10.0" comes for
\* "9.99", as long.)
formatIEC(c, double, e) ==
  IF e = 0 /\ c < 102400 THEN Rendered(c \div 100, 0, 0)
  ELSE IF c * 10 < 1024 * 9995 THEN Rendered(Rounded(double, 1024), 2, e + 1)
  ELSE IF e = 5 \/ c < 1024 * 9995
  THEN Rendered(Rounded(double, 10240), 1, e + 1)
  ELSE IF c < 1024 * 102350 THEN Rendered(Rounded(double, 102400), 0, e + 1)
  ELSE Rendered(Rounded(double, 1048576), 2, e + 2)

Characters(t) ==
  Len(convert(t.number)) + (IF t.decimals > 0 THEN 1 ELSE 0)

-----------------------------------------------------------------------------
(* operator<<: what the program adds to a statement, by its type.  bool,   *)
(* char and the several kinds of strings are "string"s with a length;      *)
(* float is formatted as double, at most MaxNumericSize - 1 bytes long.    *)

Item(kind, value, len) == [kind |-> kind, value |-> value, len |-> len]

String(value, len) == Item("string", value, len)
Integer(value) == Item("integer", value, 0)

Quantity(kind, value, double, e) ==
  [kind |-> kind, value |-> value, double |-> double, len |-> e]

PutString(s, item) ==
  append(s, IF item.kind = "null" THEN Piece(item, "(null)", 6)
            ELSE Piece(item, item.value, item.len))

PutNumber(s, item) ==
  LET Chars(text) == Piece(item, text, Len(text))
  IN  InPlace(s, CASE item.kind = "integer" -> Chars(convert(item.value))
                   [] item.kind = "pointer" ->
                        Chars(<<"0", "x">> \o convertHex(item.value))
                   [] item.kind = "double" -> Piece(item, item.value, item.len))

PutQuantity(s, item) ==
  LET q == IF item.kind = "SI" THEN formatSI(item.value, item.double, item.len)
           ELSE formatIEC(item.value, item.double, item.len)
      unit == IF q.unit = 0 THEN 0 ELSE IF item.kind = "SI" THEN 1 ELSE 2
  IN  append(s, Piece(item, q, Characters(q) + unit))

Put(s, item) ==
  CASE item.kind \in {"string", "null"} -> PutString(s, item)
    [] item.kind \in {"integer", "pointer", "double"} -> PutNumber(s, item)
    [] item.kind \in {"SI", "IEC"} -> PutQuantity(s, item)

PutAll(s, items) ==
  LET upTo[i \in 0..Len(items)] ==
        IF i = 0 THEN s ELSE Put(upTo[i - 1], items[i])
  IN  upTo[Len(items)]
=============================================================================
