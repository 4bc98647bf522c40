----------------------------- MODULE XmlNumbers -----------------------------
(***************************************************************************)
(* The numbers in attributes (string_to_integer, integer_to_string of      *)
(* pugixml): the ports, intervals, delays and counts of the configuration  *)
(* files.  The code reads into an unsigned integer that wraps around and   *)
(* tells from the number of digits, their first and the highest bit of the *)
(* result whether it did.  Its width is a parameter here, and what the     *)
(* code has of it in constants (20, 10 or 5 digits that begin with 1, 4 or *)
(* 6) is computed.  The value of an attribute is typed by a person or set  *)
(* by a program.                                                           *)
(***************************************************************************)
EXTENDS Integers, Sequences, SequencesExt

CONSTANTS WordBits,   \* sizeof(U) * 8
          Typed,      \* the characters a person types
          MaxTyped    \* bound: characters in a value that is typed

ASSUME WordAssumption == WordBits \in Nat \ {0} /\ WordBits % 4 = 0 /\ MaxTyped \in Nat

Modulus == 2 ^ WordBits
INT_MAX == Modulus \div 2 - 1
INT_MIN == -(Modulus \div 2)
UINT_MAX == Modulus - 1

Hexadecimals == <<"0", "1", "2", "3", "4", "5", "6", "7", "8", "9", "a", "b", "c", "d", "e", "f">>
Digits(base) == {Hexadecimals[i] : i \in 1 .. base}
DigitValue(c) == CHOOSE v \in 0 .. 15 : Hexadecimals[v + 1] = c

VARIABLES numeral,  \* the attribute's value
          put       \* history: the number a program has set it to, or none

numberVars == <<numeral, put>>
NoNumber == [is |-> FALSE, number |-> 0]

NumbersInit == numeral = <<>> /\ put = NoNumber

-----------------------------------------------------------------------------
(* A numeral: blanks, a sign, 0x, digits; what follows is not looked at.   *)

\* s from the first character on that is not in set, and up to there.
Dropped(s, set) ==
  LET i == SelectInSeq(s, LAMBDA c : c \notin set) IN IF i = 0 THEN <<>> ELSE SubSeq(s, i, Len(s))
Run(s, set) == SubSeq(s, 1, Len(s) - Len(Dropped(s, set)))

Numeral(negative, base, s) ==
  [negative |-> negative, base |-> base, digits |-> Dropped(Run(s, Digits(base)), {"0"})]
Unsigned(negative, s) ==
  IF Len(s) >= 2 /\ s[1] = "0" /\ s[2] \in {"x", "X"}
  THEN Numeral(negative, 16, SubSeq(s, 3, Len(s)))
  ELSE Numeral(negative, 10, s)
Unspaced(s) ==
  IF s # <<>> /\ s[1] \in {"+", "-"} THEN Unsigned(s[1] = "-", Tail(s)) ELSE Unsigned(FALSE, s)
Parts(s) == Unspaced(Dropped(s, {" "}))

\* A decimal number, the digits most significant first.
DecimalOf(n) ==
  LET from[k \in 0 .. n] == IF k < 10 THEN <<Hexadecimals[k + 1]>> ELSE Append(from[k \div 10], Hexadecimals[(k % 10) + 1])
  IN from[n]

\* The test below needs a greatest number that does not begin with 10 to 13, or twice a
\* number of as many digits may pass for one with the highest bit set, as it would with
\* 20 bits.  The code allows 16, 32 and 64, with numbers that begin with 65, 42 and 18.
ASSUME LeadAssumption ==
  LET greatest == DecimalOf(UINT_MAX) IN DigitValue(greatest[1]) = 1 => DigitValue(greatest[2]) > 3

\* A plausible bug: a number with as many digits as the greatest is never too large.
OverflowsByLength(p, result) ==
  IF p.base = 16 THEN Len(p.digits) > WordBits \div 4
  ELSE Len(p.digits) > Len(DecimalOf(UINT_MAX))

Overflows(p, result) ==
  LET greatest == DecimalOf(UINT_MAX) IN
  IF p.base = 16 THEN Len(p.digits) > WordBits \div 4
  ELSE /\ Len(p.digits) >= Len(greatest)
       /\ ~ /\ Len(p.digits) = Len(greatest)
            /\ \/ DigitValue(p.digits[1]) < DigitValue(greatest[1])
               \/ p.digits[1] = greatest[1] /\ result > INT_MAX

\* The number the parts p stand for when all arithmetic is that of U, as which number
\* from minv to maxv it is returned.
Wrapped(p) ==
  LET result[k \in 0 .. Len(p.digits)] ==
        IF k = 0 THEN 0 ELSE (result[k - 1] * p.base + DigitValue(p.digits[k])) % Modulus
  IN result[Len(p.digits)]
Returned(p, result, minv, maxv) ==
  IF p.negative
  THEN IF Overflows(p, result) \/ result > (0 - minv) % Modulus THEN minv ELSE (0 - result) % Modulus
  ELSE IF Overflows(p, result) \/ result > maxv THEN maxv ELSE result
ReadParts(p, minv, maxv) == Returned(p, Wrapped(p), minv, maxv)
string_to_integer(s, minv, maxv) == ReadParts(Parts(s), minv, maxv)

AsSigned(u) == IF u > INT_MAX THEN u - Modulus ELSE u
get_value_int(s) == AsSigned(string_to_integer(s, INT_MIN % Modulus, INT_MAX))
get_value_uint(s) == string_to_integer(s, 0, UINT_MAX)

\* A plausible bug: the digits of a negative number are those of its unsigned form.
integer_to_stringUnsigned(value, negative) ==
  (IF negative THEN <<"-">> ELSE <<>>) \o DecimalOf(value)

integer_to_string(value, negative) ==
  (IF negative THEN <<"-">> ELSE <<>>) \o DecimalOf(IF negative THEN (0 - value) % Modulus ELSE value)

-----------------------------------------------------------------------------
Type(c) ==
  /\ Len(numeral) < MaxTyped /\ ~put.is
  /\ numeral' = Append(numeral, c)
  /\ UNCHANGED put

\* set_value of an int or of an unsigned int.
Set(n) ==
  /\ numeral' = integer_to_string(n % Modulus, n < 0)
  /\ put' = [is |-> TRUE, number |-> n]

NumbersNext == (\E c \in Typed : Type(c)) \/ (\E n \in INT_MIN .. UINT_MAX : numeral = <<>> /\ Set(n))

NumbersSpec == NumbersInit /\ [][NumbersNext]_numberVars

-----------------------------------------------------------------------------
SignedSize(negative, size) == IF negative THEN -size ELSE size
Size(p) ==
  LET size[k \in 0 .. Len(p.digits)] == IF k = 0 THEN 0 ELSE size[k - 1] * p.base + DigitValue(p.digits[k])
  IN size[Len(p.digits)]
Written(p) == SignedSize(p.negative, Size(p))
Clamped(n, low, high) == IF n < low THEN low ELSE IF n > high THEN high ELSE n

(* A number that is too large or too small for its type is read as the     *)
(* greatest or the least of it, and any other as it is written, however    *)
(* many digits it has and in both bases (string_to_integer).               *)
NumbersClamped ==
  /\ get_value_int(numeral) = Clamped(Written(Parts(numeral)), INT_MIN, INT_MAX)
  /\ get_value_uint(numeral) = Clamped(Written(Parts(numeral)), 0, UINT_MAX)

(* A number that a program sets is read back, as long as its type holds it, *)
(* the least number of the type too (integer_to_string, string_to_integer).  *)
NumbersReturn ==
  put.is => /\ put.number <= INT_MAX => get_value_int(numeral) = put.number
            /\ put.number >= 0 => get_value_uint(numeral) = put.number

(* Numbers survive the way through a file, written by a program or by      *)
(* hand, in range or out of it (string_to_integer, integer_to_string).     *)
NumbersExact == NumbersClamped /\ NumbersReturn
=============================================================================
