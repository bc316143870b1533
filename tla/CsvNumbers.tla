------------------------------ MODULE CsvNumbers ------------------------------
(***************************************************************************)
(* How include/data_loader/csv.h reads an integer, character by character, *)
(* and the loop that scales a floating point number by the power of ten of *)
(* its exponent.  A type has as many bits as its limit tells; what is      *)
(* beyond them is left to an overflow policy.  The exponent's own          *)
(* wrap-around is modelled: negating the least int gives the least int.    *)
(***************************************************************************)
EXTENDS Integers, SequencesExt

CONSTANTS
  Limit,    \* 2^(w-1), where w is the width of the integers
  Literals  \* the cells to read: sequences of "+", "-", digits and letters

\* Any digit is a number of the type: the least width of C++ is 8.
ASSUME LimitAssumption == Limit \in Nat /\ Limit >= 10
ASSUME LiteralsAssumption == Literals \subseteq Seq(STRING)

VARIABLES
  literal,   \* the cell
  signed,    \* whether the type is, i.e. which of the two functions is called
  policy,    \* overflow_policy: "throw", "ignore" or "set_to_max"
  col,       \* the next character
  minus,     \* in the loop for negative numbers
  number,    \* x
  reading,   \* "digits" in a loop, then how it ended; "scaling" and "scaled"
  exponent,  \* e, what of it the scaling loop has still to apply
  square,    \* its base, as a power of ten: 10^square
  power      \* the power of ten applied so far

numberVars == <<literal, signed, policy, col, minus, number, reading, exponent, square, power>>

----------------------------------------------------------------------------
Greatest == IF signed THEN Limit - 1 ELSE 2 * Limit - 1
Least    == IF signed THEN -Limit ELSE 0

Characters == <<"0", "1", "2", "3", "4", "5", "6", "7", "8", "9">>
IsDigit(c) == \E d \in 0..9 : c = Characters[d + 1]
DigitOf(c) == CHOOSE d \in 0..9 : c = Characters[d + 1]

\* The sign is skipped by the function for signed types only.
Signed(s) == Len(s) > 0 /\ s[1] \in {"-", "+"}

NumbersInit ==
  /\ literal \in Literals
  /\ signed \in BOOLEAN
  /\ policy \in {"throw", "ignore", "set_to_max"}
  /\ col = IF signed /\ Signed(literal) THEN 2 ELSE 1
  /\ minus = (signed /\ Signed(literal) /\ literal[1] = "-")
  /\ number = 0
  /\ reading = "digits"
  /\ exponent = 0
  /\ square = 0
  /\ power = 0

More == reading = "digits" /\ col <= Len(literal)
Digit == DigitOf(literal[col])

\* Mutant: the quotient of a negative number is rounded down.
TenthDown(n) == n \div 10

\* The division of C++ drops the fraction.
Tenth(n) == IF n < 0 THEN -((-n) \div 10) ELSE n \div 10

Overflows == IF minus THEN number < Tenth(Least + Digit) ELSE number > Tenth(Greatest - Digit)

ReadDigit ==
  /\ More
  /\ IsDigit(literal[col])
  /\ ~Overflows
  /\ number' = IF minus THEN 10 * number - Digit ELSE 10 * number + Digit
  /\ col' = col + 1
  /\ UNCHANGED <<literal, signed, policy, minus, reading, exponent, square, power>>

\* on_overflow and on_underflow; the function returns at once.
Overflow ==
  /\ More
  /\ IsDigit(literal[col])
  /\ Overflows
  /\ number' = IF policy # "set_to_max" THEN number ELSE IF minus THEN Least ELSE Greatest
  /\ reading' = IF policy = "throw" THEN "overflow" ELSE "read"
  /\ UNCHANGED <<literal, signed, policy, col, minus, exponent, square, power>>

NoDigit ==
  /\ More
  /\ ~IsDigit(literal[col])
  /\ reading' = "no_digit"
  /\ UNCHANGED <<literal, signed, policy, col, minus, number, exponent, square, power>>

EndOfCell ==
  /\ reading = "digits"
  /\ col > Len(literal)
  /\ reading' = "read"
  /\ UNCHANGED <<literal, signed, policy, col, minus, number, exponent, square, power>>

----------------------------------------------------------------------------
(* parse_float reads its exponent into a signed int, set to the limit when *)
(* it overflows.                                                           *)

Negated(n) == IF n = Least THEN Least ELSE -n

BeginScaling ==
  /\ reading = "read"
  /\ signed /\ policy = "set_to_max"
  /\ exponent' = IF number < 0 THEN Negated(number) ELSE number
  /\ square' = IF number < 0 THEN -1 ELSE 1
  /\ reading' = IF number = 0 THEN "scaled" ELSE "scaling"
  /\ UNCHANGED <<literal, signed, policy, col, minus, number, power>>

\* Bound: powers of ten beyond twice the range of the exponent are 0 or
\* infinity and stay what they are.
Capped(n) == IF n > 2 * Limit THEN 2 * Limit ELSE IF n < -(2 * Limit) THEN -(2 * Limit) ELSE n

SquareBase ==
  /\ reading = "scaling"
  /\ exponent # 1 /\ exponent % 2 = 0
  /\ square' = Capped(2 * square)
  /\ exponent' = exponent \div 2
  /\ UNCHANGED <<literal, signed, policy, col, minus, number, reading, power>>

\* Mutant: the factor is forgotten when the exponent is odd.
DropFactor ==
  /\ reading = "scaling"
  /\ exponent # 1 /\ exponent % 2 = 1
  /\ exponent' = exponent - 1
  /\ UNCHANGED <<literal, signed, policy, col, minus, number, reading, square, power>>

MultiplyBase ==
  /\ reading = "scaling"
  /\ exponent # 1 /\ exponent % 2 = 1
  /\ power' = Capped(power + square)
  /\ exponent' = exponent - 1
  /\ UNCHANGED <<literal, signed, policy, col, minus, number, reading, square>>

EndScaling ==
  /\ reading = "scaling"
  /\ exponent = 1
  /\ power' = Capped(power + square)
  /\ reading' = "scaled"
  /\ UNCHANGED <<literal, signed, policy, col, minus, number, exponent, square>>

NumbersNext ==
  \/ ReadDigit \/ Overflow \/ NoDigit \/ EndOfCell
  \/ BeginScaling \/ SquareBase \/ MultiplyBase \/ EndScaling

NumbersSpec == NumbersInit /\ [][NumbersNext]_numberVars

----------------------------------------------------------------------------
\* The cell without a sign that belongs to it, and what its first n digits
\* are worth.
Body == IF signed /\ Signed(literal) THEN Tail(literal) ELSE literal
Worth(n) ==
  LET w[k \in 0..n] == IF k = 0 THEN 0 ELSE 10 * w[k - 1] + DigitOf(Body[k])
  IN  IF minus THEN -w[n] ELSE w[n]

\* How many characters there are before the first that is no digit, and how
\* many of them make a number that the type has.
Leading == Cardinality({n \in 1..Len(Body) : \A k \in 1..n : IsDigit(Body[k])})
Fitting == CHOOSE n \in 0..Leading :
             /\ Worth(n) \in Least..Greatest
             /\ n < Leading => Worth(n + 1) \notin Least..Greatest

(* A cell is read as the number it is: up to the very last one of the type *)
(* on either side, and no other character is taken for a digit.  A number  *)
(* the type does not have is refused, made the nearest one, or cut short,  *)
(* as the policy says, and whatever follows it is not looked at.           *)
NumberAsWritten ==
  reading \notin {"digits"} =>
    IF Fitting < Leading
    THEN CASE policy = "throw"      -> reading = "overflow"
           [] policy = "ignore"     -> reading = "read" /\ number = Worth(Fitting)
           [] policy = "set_to_max" -> reading # "no_digit" /\ number = IF minus THEN Least ELSE Greatest
    ELSE /\ reading = "no_digit" <=> Leading < Len(Body)
         /\ reading # "no_digit" => reading # "overflow" /\ number = Worth(Leading)

(* The loop of squarings and multiplications, when it ends, has scaled by  *)
(* exactly the power of ten that was read.                                 *)
PowerAsWritten == reading = "scaled" => power = number
=============================================================================
