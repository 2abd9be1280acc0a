---------------------------- MODULE ScanNumbers ----------------------------
(***************************************************************************)
(* How integers and dimensions are read: scan_int and scan_dimen, for       *)
(* constants in the three radices, decimal fractions, units, and registers  *)
(* in place of a number or of a unit.  The widths of the integers are       *)
(* constants: 2^31-1, 2^30-1, 2^16, 2^15 and 17 digits in the code.         *)
(***************************************************************************)
EXTENDS Integers, SequencesExt

CONSTANTS
  MaxInteger,      \* max_integer
  MaxDimension,    \* max_dimension
  Unity,           \* 1pt, in scaled points
  HalfWord,        \* two_fifteen, whose square is MaxDimension + 1
  FractionDigits,  \* digits of a fraction that are kept
  Count, Dimen,    \* the registers: their names are tokens, with their values
  FontUnits        \* em and ex, in scaled points

ASSUME WidthAssumption ==
  /\ MaxInteger \in Nat /\ MaxInteger % 10 = 7 /\ (MaxInteger + 1) % 16 = 0
  /\ MaxDimension + 1 = HalfWord * HalfWord
  /\ (MaxDimension + 1) % Unity = 0
  /\ Count \in -MaxInteger .. MaxInteger
  /\ Dimen \in -MaxDimension .. MaxDimension

VARIABLES
  input,    \* the tokens that are not read
  number,   \* the activation of scan_int or scan_dimen
  curVal,   \* cur_val: [type, value]
  errors    \* what has been reported

numberVars == <<input, number, curVal, errors>>

Registers == {"count", "dimen"}
Space == " "

Idle == [at |-> "idle", type |-> "int", negative |-> FALSE, radix |-> 10,
         vacuous |-> TRUE, ipart |-> 0, digits |-> <<>>, fpart |-> 0]

\* Numerators and denominators of scan_unit.
UnitTable ==
  [in |-> <<7227, 100>>, pc |-> <<12, 1>>, cm |-> <<7227, 254>>,
   mm |-> <<7227, 2540>>, bp |-> <<7227, 7200>>, dd |-> <<1238, 1157>>,
   cc |-> <<14856, 1157>>]
-----------------------------------------------------------------------------
DigitTokens == <<"0", "1", "2", "3", "4", "5", "6", "7", "8", "9">>
HexTokens == <<"A", "B", "C", "D", "E", "F">>

\* Token::tex_is_digit: the value of a digit, or -1.
TexIsDigit(token, radix) ==
  CASE token \in {DigitTokens[i] : i \in 1 .. 10} ->
         LET k == SelectInSeq(DigitTokens, LAMBDA t : t = token) - 1 IN
         IF k <= radix THEN k ELSE -1
    [] radix = 16 /\ token \in {HexTokens[i] : i \in 1 .. 6} ->
         SelectInSeq(HexTokens, LAMBDA t : t = token) + 9
    [] OTHER -> -1

\* remove_initial_space, and back_input_unless_space of the token that is next
DropSpaces(s) == SubSeq(s, SelectInSeq(s, LAMBDA t : t # Space), Len(s))

DropOneSpace(s) == IF Head(s) = Space THEN Tail(s) ELSE s

Truncated(k, m) == IF k < 0 THEN -((-k) \div m) ELSE k \div m
Negated(flag, k) == IF flag THEN -k ELSE k

\* RealNumber::convert_decimal_part: from the last digit to the first.
ConvertDecimalPart(digits) ==
  (FoldRight(LAMBDA k, g : (g + k * 2 * Unity) \div 10, digits, 0) + 1) \div 2

\* xn_over_d for x >= 0: the quotient and the remainder, in words of half the width.
XnOverD(k, num, den) ==
  LET t == (k % HalfWord) * num
      u == (k \div HalfWord) * num + t \div HalfWord
      v == (u % den) * HalfWord + (t % HalfWord)
      w == u \div den IN
  [quotient |-> IF w >= HalfWord THEN 1 ELSE HalfWord * w + v \div den,
   remainder |-> v % den,
   overflow |-> w >= HalfWord]

\* ovf30
Fits30(k) == k <= MaxDimension /\ -k <= MaxDimension

OverflowUnless(fits) == IF fits THEN {} ELSE {"overflow"}
-----------------------------------------------------------------------------
StartNumber(type) == number' = [Idle EXCEPT !.at = "sign", !.type = type]

\* scan_int or scan_dimen returns.
Deliver(type, v, complaints) ==
  /\ number' = [number EXCEPT !.at = "done"]
  /\ curVal' = [type |-> type, value |-> v]
  /\ errors' = errors \cup complaints

\* attach_sign, after a check that the dimension fits in 30 bits
ReturnDimension(v, negative, complaints) ==
  Deliver("dimen", Negated(negative, IF Fits30(v) THEN v ELSE MaxDimension),
         complaints \cup OverflowUnless(Fits30(v)))

\* scan_sign
ScanSign ==
  /\ number.at = "sign"
  /\ \/ /\ Head(input) \in {"+", "-", Space}
        /\ input' = Tail(input)
        /\ number' = [number EXCEPT !.negative = @ # (Head(input) = "-")]
     \/ /\ Head(input) \notin {"+", "-", Space}
        /\ number' = [number EXCEPT !.at = "first"]
        /\ UNCHANGED input
  /\ UNCHANGED <<curVal, errors>>

\* scan_something_internal in place of a constant: a register of a dimension is an
\* integer for scan_int, an integer register is a factor for scan_dimen (from_int).
ScanRegister ==
  /\ number.at = "first" /\ Head(input) \in Registers
  /\ input' = Tail(input)
  /\ LET v == IF Head(input) = "count" THEN Count ELSE Dimen IN
     \/ /\ number.type = "int"
        /\ Deliver("int", Negated(number.negative, v), {})
     \/ /\ number.type = "dimen" /\ Head(input) = "dimen"
        /\ ReturnDimension(v, number.negative, {})
     \/ /\ number.type = "dimen" /\ Head(input) = "count"
        /\ LET k == Negated(number.negative, v) IN
           number' = [number EXCEPT !.at = "unit", !.negative = k <= 0,
                                    !.ipart = IF k > 0 THEN k ELSE -k]
        /\ UNCHANGED <<curVal, errors>>

\* The beginning of a constant: a mark of the radix, or the point of a fraction.
StartConstant ==
  /\ number.at = "first" /\ Head(input) \notin Registers
  /\ \/ /\ number.type = "dimen" /\ Head(input) = "."
        /\ input' = Tail(input)
        /\ number' = [number EXCEPT !.at = "fraction"]
     \/ /\ Head(input) \in {"'", "\""}
        /\ input' = Tail(input)
        /\ number' = [number EXCEPT !.at = "digits",
                                    !.radix = IF Head(input) = "'" THEN 8 ELSE 16]
     \/ /\ Head(input) \notin {"'", "\""}
        /\ ~(number.type = "dimen" /\ Head(input) = ".")
        /\ number' = [number EXCEPT !.at = "digits"]
        /\ UNCHANGED input
  /\ UNCHANGED <<curVal, errors>>

\* The m of scan_int_digs: from there on a further digit may be too much.
LastSafe(radix) ==
  IF radix = 10 THEN MaxInteger \div 10 ELSE (MaxInteger + 1) \div radix

\* Variant for a mutant: the last digit is not looked at.
TooBigByOne(v, digit, radix) == v > LastSafe(radix)

TooBig(v, digit, radix) ==
  v >= LastSafe(radix) /\ (v > LastSafe(radix) \/ digit > 7 \/ radix # 10)

\* A digit; the first that is too much is reported.
ScanDigit ==
  /\ number.at = "digits"
  /\ LET digit == TexIsDigit(Head(input), number.radix)
         big == TooBig(number.ipart, digit, number.radix) IN
     /\ digit # -1
     /\ input' = Tail(input)
     /\ number' = [number EXCEPT
          !.vacuous = FALSE,
          !.ipart = IF big THEN MaxInteger ELSE @ * number.radix + digit]
     /\ errors' = IF big THEN errors \cup {"big"} ELSE errors
  /\ UNCHANGED curVal

\* The end of the digits; one space is removed after a number.
EndDigits ==
  /\ number.at = "digits"
  /\ TexIsDigit(Head(input), number.radix) = -1
  /\ LET complaints == IF number.vacuous THEN {"missing"} ELSE {}
         rest == IF number.vacuous THEN input ELSE DropOneSpace(input) IN
     \/ /\ number.type = "int"
        /\ input' = rest
        /\ Deliver("int", Negated(number.negative, number.ipart), complaints)
     \/ /\ number.type = "dimen"
        /\ \/ /\ number.radix = 10 /\ Head(input) = "."
              /\ input' = Tail(input)
              /\ number' = [number EXCEPT !.at = "fraction"]
           \/ /\ ~(number.radix = 10 /\ Head(input) = ".")
              /\ input' = rest
              /\ number' = [number EXCEPT !.at = "unit"]
        /\ errors' = errors \cup complaints
        /\ UNCHANGED curVal

ScanFractionDigit ==
  /\ number.at = "fraction"
  /\ LET digit == TexIsDigit(Head(input), 10) IN
     /\ digit # -1
     /\ input' = Tail(input)
     /\ number' = IF Len(number.digits) < FractionDigits
                  THEN [number EXCEPT !.digits = Append(@, digit)] ELSE number
  /\ UNCHANGED <<curVal, errors>>

EndFraction ==
  /\ number.at = "fraction"
  /\ TexIsDigit(Head(input), 10) = -1
  /\ input' = DropOneSpace(input)
  /\ number' = [number EXCEPT !.at = "unit",
                              !.fpart = ConvertDecimalPart(number.digits)]
  /\ UNCHANGED <<curVal, errors>>
-----------------------------------------------------------------------------
\* multiply_dim: the number times a dimension v, for "2.5\parindent" and "3em"
MultiplyDim(v) ==
  LET part == Truncated(v * number.fpart, Unity)
      fits == Fits30(number.ipart * v + part)
      product == IF fits THEN number.ipart * v + part ELSE 0 IN
  ReturnDimension(product, number.negative, OverflowUnless(fits))

\* attach_fraction: ip points and fp scaled points
AttachFraction(ip, fp, complaints) ==
  LET fits == ip < (MaxDimension + 1) \div Unity IN
  Deliver("dimen",
         Negated(number.negative, IF fits THEN ip * Unity + fp ELSE MaxDimension),
         complaints \cup OverflowUnless(fits))

\* scan_unit for a unit that is not sp: the number is converted to points.
ConvertUnit(unit) ==
  LET num == UnitTable[unit][1]
      den == UnitTable[unit][2]
      q == XnOverD(number.ipart, num, den)
      fp == (num * number.fpart + q.remainder * Unity) \div den IN
  AttachFraction(q.quotient + fp \div Unity, fp % Unity, OverflowUnless(~q.overflow))

\* The end of scan_dimen1: a dimension or a unit, pt if there is none.  One space
\* is removed after a unit, none after a register.
ScanUnit ==
  /\ number.at = "unit"
  /\ LET s == DropSpaces(input)
         unit == Head(s) IN
     \/ /\ unit \in Registers
        /\ input' = Tail(s)
        /\ MultiplyDim(IF unit = "count" THEN Count ELSE Dimen)
     \/ /\ unit \in DOMAIN FontUnits
        /\ input' = DropOneSpace(Tail(s))
        /\ MultiplyDim(FontUnits[unit])
     \/ /\ unit \in DOMAIN UnitTable
        /\ input' = DropOneSpace(Tail(s))
        /\ ConvertUnit(unit)
     \/ /\ unit = "sp"
        /\ input' = DropOneSpace(Tail(s))
        /\ ReturnDimension(number.ipart, number.negative, {})
     \/ /\ unit = "pt"
        /\ input' = DropOneSpace(Tail(s))
        /\ AttachFraction(number.ipart, number.fpart, {})
     \/ /\ unit \notin Registers \cup DOMAIN FontUnits \cup DOMAIN UnitTable \cup {"sp", "pt"}
        /\ input' = s
        /\ AttachFraction(number.ipart, number.fpart, {"unit"})

NumberNext ==
  \/ ScanSign \/ ScanRegister \/ StartConstant
  \/ ScanDigit \/ EndDigits \/ ScanFractionDigit \/ EndFraction \/ ScanUnit
=============================================================================
