------------------------------- MODULE Rounding -------------------------------
(***************************************************************************)
(* A fill-or-kill buy in floating point.  The other modules calculate      *)
(* exactly; here each addition, subtraction and product of src/orders.cpp  *)
(* and src/portfolio.cpp rounds to one of the significands, to nearest and *)
(* ties to even.  Twice a sum decides what differences then carry out: the *)
(* liquidity before the sweep, and the costs before the payments.          *)
(***************************************************************************)
EXTENDS Sums, FiniteSetsExt

CONSTANTS
  Significands,  \* how many there are; 2^53 for a double
  Sizes,         \* the amounts of orders and levels
  Quotes,        \* the prices of the levels, best first
  Purses         \* the cash there may be

ASSUME SignificandsAssumption == Significands \in Nat \ {0} /\ Significands % 2 = 0
ASSUME QuotesAssumption == Quotes \in Seq(Nat \ {0})

\* The first powers of two.
Doublings(m) == LET double[k \in 0..m] == IF k = 0 THEN 1 ELSE 2 * double[k-1]
                IN  double

\* The weight of the last bit of a number; and the nearest one with that bit.
Ulp(n) ==
  LET weights == Doublings(n \div Significands)
  IN  weights[Min({k \in DOMAIN weights : n < Significands * weights[k]})]
Nearest(n) ==
  LET u == Ulp(n)
      q == n \div u
      r == n % u
  IN  IF 2 * r > u \/ (2 * r = u /\ q % 2 = 1) THEN (q + 1) * u ELSE q * u
Rounded(n) == IF n < 0 THEN -Nearest(-n) ELSE Nearest(n)

ASSUME NumbersAssumption == \A n \in Sizes \cup Purses : n \in Nat /\ Rounded(n) = n

VARIABLES
  stage,      \* "idle", "counting", "sweeping", "adding", "paying", "done"
  asked,      \* order.amount
  offers,     \* the amounts of the acceptable levels
  next,       \* the index of the loop
  available,  \* available_amount
  left,       \* remaining_amount
  taken,      \* the fills: the amount of each, at the price of its level
  need,       \* total_cost
  purse,      \* cash_
  at_first    \* history variable: the cash before the payments

roundingVars == <<stage, asked, offers, next, available, left, taken, need, purse, at_first>>

----------------------------------------------------------------------------
Smallest(a, b) == IF a < b THEN a ELSE b
Payment(k) == Rounded(taken[k] * Quotes[k])

RoundingInit ==
  /\ stage = "idle"
  /\ asked = 0 /\ offers = << >> /\ next = 1
  /\ available = 0 /\ left = 0 /\ taken = << >>
  /\ need = 0 /\ purse = 0 /\ at_first = 0

BeginOrder(amount, book) ==
  /\ stage = "idle"
  /\ asked' = amount
  /\ offers' = book
  /\ stage' = "counting"
  /\ UNCHANGED <<next, available, left, taken, need, purse, at_first>>

CountLevel ==
  /\ stage = "counting"
  /\ next <= Len(offers)
  /\ available < asked
  /\ available' = Rounded(available + offers[next])
  /\ next' = next + 1
  /\ UNCHANGED <<stage, asked, offers, left, taken, need, purse, at_first>>

EndCount ==
  /\ stage = "counting"
  /\ next > Len(offers) \/ available >= asked
  /\ stage' = IF available < asked THEN "done" ELSE "sweeping"
  /\ left' = asked
  /\ next' = 1
  /\ UNCHANGED <<asked, offers, available, taken, need, purse, at_first>>

\* Mutant: the whole level is taken.
WholeLevel(remaining, level) == level + 0 * remaining

Portion(remaining, level) == Smallest(remaining, level)

SweepLevel ==
  /\ stage = "sweeping"
  /\ next <= Len(offers)
  /\ left > 0
  /\ taken' = Append(taken, Portion(left, offers[next]))
  /\ left' = Rounded(left - Portion(left, offers[next]))
  /\ next' = next + 1
  /\ UNCHANGED <<stage, asked, offers, available, need, purse, at_first>>

EndOfLevels ==
  /\ stage = "sweeping"
  /\ next > Len(offers) \/ left <= 0
  /\ stage' = "adding"
  /\ next' = 1
  /\ \E cash \in Purses : purse' = cash /\ at_first' = cash
  /\ UNCHANGED <<asked, offers, available, left, taken, need>>

\* Mutant: the costs are not added up.
CostAlone(sum, cost) == cost + 0 * sum

Added(sum, cost) == Rounded(sum + cost)

AddCost ==
  /\ stage = "adding"
  /\ next <= Len(taken)
  /\ need' = Added(need, Payment(next))
  /\ next' = next + 1
  /\ UNCHANGED <<stage, asked, offers, available, left, taken, purse, at_first>>

CanPay ==
  /\ stage = "adding"
  /\ next > Len(taken)
  /\ stage' = IF purse >= need THEN "paying" ELSE "done"
  /\ next' = 1
  /\ UNCHANGED <<asked, offers, available, left, taken, need, purse, at_first>>

Pay ==
  /\ stage = "paying"
  /\ next <= Len(taken)
  /\ purse' = Rounded(purse - Payment(next))
  /\ next' = next + 1
  /\ UNCHANGED <<stage, asked, offers, available, left, taken, need, at_first>>

Paid ==
  /\ stage = "paying"
  /\ next > Len(taken)
  /\ stage' = "done"
  /\ UNCHANGED <<asked, offers, next, available, left, taken, need, purse, at_first>>

RoundingNext ==
  \/ \E amount \in Sizes, n \in 1..Len(Quotes) : \E book \in [1..n -> Sizes] : BeginOrder(amount, book)
  \/ CountLevel \/ EndCount \/ SweepLevel \/ EndOfLevels
  \/ AddCost \/ CanPay \/ Pay \/ Paid

RoundingSpec == RoundingInit /\ [][RoundingNext]_roundingVars

----------------------------------------------------------------------------
Distance(a, b) == IF a < b THEN b - a ELSE a - b

(* "All or nothing" survives rounding, though the count may pass what the  *)
(* sweep cannot quite obtain: a fill-or-kill order has no fills, or what   *)
(* they obtain differs from the order by less than the last bits of an     *)
(* operation per level.                                                    *)
AllButRounding ==
  stage \in {"adding", "paying", "done"} =>
    taken = << >> \/ Distance(Total(taken), asked) < Len(offers) * Ulp(asked)

(* And so does "no overdraft", though can_buy asks for a rounded sum and   *)
(* the payments are subtracted one by one: cash never falls below zero by  *)
(* more than the last bits of an operation per payment.                    *)
OverdraftIsRounding == purse >= 0 \/ -purse < Len(taken) * Ulp(at_first)
=============================================================================
