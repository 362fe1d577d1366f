------------------------------- MODULE Numbers -------------------------------
(***************************************************************************)
(* Numbers as text: String(int, mode) and String(double) of the library,   *)
(* operator<<(long) and operator<<(float) of the debug stream, which are   *)
(* the same code once more, and the sizes that the shell prints.  A        *)
(* number is a 32-bit int or long, a fraction is counted in sixteenths, so *)
(* that a float holds it exactly.                                          *)
(***************************************************************************)
EXTENDS Integers, SequencesExt

MaxInt == 2147483647
MinInt == -MaxInt - 1
Int32 == MinInt .. MaxInt

\* '0' + d: below '0' lie other characters.
Characters == <<"'", "(", ")", "*", "+", ",", "-", ".", "/",
                "0", "1", "2", "3", "4", "5", "6", "7", "8", "9",
                "A", "B", "C", "D", "E", "F">>
Character(d) == Characters[d + 10]

\* / and % of the processor, towards zero.
Quotient(n, d) == n \div d + (IF n < 0 /\ n % d # 0 THEN 1 ELSE 0)
Remainder(n, d) == n - d * Quotient(n, d)

\* The quotients of n until it is zero: as many as n has digits.
Length(n) ==
  LET L[k \in 0 .. 10] == IF k = 0 THEN n ELSE Quotient(L[k - 1], 10)
  IN  CHOOSE k \in 1 .. 10 : (k = 10 \/ L[k] = 0) /\ (k > 1 => L[k - 1] # 0)
Shifted(n, k) ==
  LET L[j \in 0 .. 10] == IF j = 0 THEN n ELSE Quotient(L[j - 1], 10) IN L[k]

\* number *= -1 wraps.
Decimal(number) ==
  LET n == IF number < 0 /\ number # MinInt THEN -number ELSE number
      digits == [i \in 1 .. Length(n) |-> Character(Remainder(Shifted(n, Length(n) - i), 10))]
  IN  (IF number < 0 THEN <<"-">> ELSE <<>>) \o digits

\* Eight groups of four bits, without the zeros in front.
Hexadecimal(number) ==
  LET Nibble(k) == (number \div 16 ^ k) % 16
      end == CHOOSE e \in 0 .. 7 : /\ e > 0 => Nibble(e) # 0
                                   /\ \A k \in e + 1 .. 7 : Nibble(k) = 0
  IN  <<"0", "x">> \o [i \in 1 .. end + 1 |-> Character(Nibble(end + 1 - i))]

Text(number, hex) == IF hex THEN Hexadecimal(number) ELSE Decimal(number)

RECURSIVE Trimmed(_)
Trimmed(n) == IF n # 0 /\ Remainder(n, 10) = 0 THEN Trimmed(Quotient(n, 10)) ELSE n

\* FLOAT_PRECISION is 10000, of which a sixteenth is 625.
Fraction(sixteenths, hex) ==
  LET floating == Trimmed(625 * Remainder(sixteenths, 16))
  IN  Text(Quotient(sixteenths, 16), hex)
        \o (IF floating = 0 THEN <<>> ELSE <<".">> \o Text(floating, hex))

\* The two lines of printSize with a float, which is exact for thousandths.
printSize(bytes) ==
  LET kilo == Quotient(bytes, 1024)
      mega == Quotient(kilo, 1024)
      Hundredths(k) == Decimal(k \div 1024) \o <<".">> \o Decimal(((k % 1024) * 100) \div 1024)
  IN  IF bytes < 1024 THEN Append(Decimal(bytes), "B")
      ELSE IF kilo < 1024 THEN Decimal(kilo) \o <<"k", "B">>
      ELSE IF mega < 1024 THEN Hundredths(kilo) \o <<"M", "B">>
      ELSE Hundredths(mega) \o <<"G", "B">>

-----------------------------------------------------------------------------
\* What a reader of the text takes it for.
Digit(c) == (CHOOSE i \in 10 .. 25 : Characters[i] = c) - 10
Readable(text, base) ==
  text # <<>> /\ \A k \in DOMAIN text : \E i \in 10 .. 9 + base : Characters[i] = text[k]
Natural(text, base) == FoldLeft(LAMBDA n, c : n * base + Digit(c), 0, text)

ReadDecimal(text, n) ==
  LET digits == IF text[1] = "-" THEN Tail(text) ELSE text
  IN  /\ Readable(digits, 10)
      /\ Len(digits) > 1 => digits[1] # "0"
      /\ n = (IF text[1] = "-" THEN -1 ELSE 1) * Natural(digits, 10)

ReadHexadecimal(text, n) ==
  LET digits == SubSeq(text, 3, Len(text))
      DigitAt(k) == IF k < Len(digits) THEN Digit(digits[Len(digits) - k]) ELSE 0
  IN  /\ SubSeq(text, 1, 2) = <<"0", "x">>
      /\ Readable(digits, 16)
      /\ Len(digits) > 1 => digits[1] # "0"
      /\ \A k \in 0 .. 7 : DigitAt(k) = (n \div 16 ^ k) % 16

\* Text with a point, as so many parts of 10 ^ places; at most so many places.
ReadPoint(text, places, n) ==
  LET point == SelectInSeq(Append(text, "."), LAMBDA c : c = ".")
      whole == SubSeq(text, 1, point - 1)
      part == SubSeq(text, point + 1, Len(text))
  IN  /\ Readable(whole, 10)
      /\ point <= Len(text) => Readable(part, 10)
      /\ n = Natural(whole, 10) * 10 ^ places + Natural(part, 10) * 10 ^ (places - Len(part))

ReadFraction(text, sixteenths) ==
  IF text[1] = "-" THEN ReadPoint(Tail(text), 4, -625 * sixteenths)
                   ELSE ReadPoint(text, 4, 625 * sixteenths)

ReadSize(text, bytes) ==
  LET number == SubSeq(text, 1, Len(text) - 2)
  IN  CASE text[Len(text) - 1] = "k" -> ReadDecimal(number, bytes \div 1024)
        [] text[Len(text) - 1] = "M" -> ReadPoint(number, 2, ((bytes \div 1024) * 100) \div 1024)
        [] text[Len(text) - 1] = "G" -> ReadPoint(number, 2, ((bytes \div 1048576) * 100) \div 1024)
        [] OTHER -> bytes >= 0 /\ ReadDecimal(Front(text), bytes)
=============================================================================
