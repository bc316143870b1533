-------------------------- MODULE PortfolioTheorems --------------------------
(***************************************************************************)
(* Theorems about the portfolio's books and the metrics computed from      *)
(* them, for every Eps, all opening balances, all lists of fills, all      *)
(* settings and all quotes.                                                *)
(***************************************************************************)
EXTENDS Metrics, PortfolioLemmas

(* Ratios are compared by their cross products.                            *)
Fraction == [lost : Int, peak : Nat]

(* What exceeds none exceeds nothing that is above that.                   *)
LEMMA ExceedsTransitive ==
  ASSUME NEW a \in Fraction, NEW b \in Fraction, NEW c \in Fraction,
         ~Exceeds(a, b), a.peak > 0 => b.peak > 0, ~Exceeds(b, c), c.peak > 0
  PROVE  ~Exceeds(a, c)
<1> DEFINE al == a.lost
           ap == a.peak
           bl == b.lost
           bp == b.peak
           cl == c.lost
           cp == c.peak
<1>1. /\ al \in Int /\ bl \in Int /\ cl \in Int /\ ap \in Nat /\ bp \in Nat /\ cp \in Nat
  BY DEF Fraction
<1> SUFFICES ASSUME ap # 0 PROVE al * cp <= cl * ap
  <2>1. al * cp \in Int /\ cl * ap \in Int
    BY <1>1, Distributes
  <2> QED BY <2>1 DEF Exceeds
<1>2. al * bp <= bl * ap /\ bl * cp <= cl * bp /\ bp > 0
  <2>1. al * bp \in Int /\ bl * ap \in Int /\ bl * cp \in Int /\ cl * bp \in Int
    BY <1>1, Distributes
  <2>2. ap > 0 /\ bp > 0
    BY <1>1
  <2> QED BY <1>1, <2>1, <2>2 DEF Exceeds
<1> HIDE DEF al, ap, bl, bp, cl, cp
<1>3. al * bp \in Int /\ bl * ap \in Int /\ bl * cp \in Int /\ cl * bp \in Int
      /\ al * cp \in Int /\ cl * ap \in Int
  BY <1>1, Distributes
<1>4. (al * bp) * cp <= (bl * ap) * cp
  BY <1>1, <1>2, <1>3, ProductsOrdered
<1>5. (bl * cp) * ap <= (cl * bp) * ap
  BY <1>1, <1>2, <1>3, ProductsOrdered
<1>6. (al * bp) * cp = (al * cp) * bp /\ (bl * ap) * cp = (bl * cp) * ap
      /\ (cl * bp) * ap = (cl * ap) * bp
  BY <1>1
<1>7. (al * cp) * bp <= (cl * ap) * bp
  <2>1. (al * cp) * bp \in Int /\ (bl * cp) * ap \in Int /\ (cl * ap) * bp \in Int
    BY <1>1, <1>3, Distributes
  <2> QED BY <1>4, <1>5, <1>6, <2>1
<1> QED BY <1>1, <1>2, <1>3, <1>7, ProductsCancel

(* Of two fractions at most one exceeds the other.                         *)
LEMMA ExceedsAsymmetric ==
  ASSUME NEW a \in Fraction, NEW b \in Fraction
  PROVE  ~Exceeds(a, a) /\ (Exceeds(a, b) => ~Exceeds(b, a))
<1>1. a.lost \in Int /\ a.peak \in Nat /\ b.lost \in Int /\ b.peak \in Nat
  BY DEF Fraction
<1>2. a.lost * a.peak \in Int /\ a.lost * b.peak \in Int /\ b.lost * a.peak \in Int
  BY <1>1, Distributes
<1> QED BY <1>2 DEF Exceeds

----------------------------------------------------------------------------
(* The loops of calculate.                                                 *)

IsPeak(f, vs, n) ==
  f = [k \in 0..n |-> IF k = 0 THEN vs[1] ELSE IF vs[k] > f[k-1] THEN vs[k] ELSE f[k-1]]

LEMMA PeakIsChoice == ASSUME NEW vs, NEW n PROVE Peak(vs, n) = (CHOOSE f : IsPeak(f, vs, n))[n]
BY DEF Peak, IsPeak

(* The peak is one of the values so far, and none of them is above it.     *)
LEMMA PeakIsHighest ==
  ASSUME NEW vs \in Seq(Int), NEW n \in 1..Len(vs)
  PROVE  /\ \A j \in 1..n : vs[j] <= Peak(vs, n)
         /\ \E j \in 1..n : Peak(vs, n) = vs[j]
<1> DEFINE step == [k \in 1..n |-> [v \in Int |-> IF vs[k] > v THEN vs[k] ELSE v]]
<1>1. n \in Nat /\ n >= 1 /\ n <= Len(vs) /\ \A k \in 1..n : vs[k] \in Int
  OBVIOUS
<1>2. step \in [1..n -> [Int -> Int]]
  BY <1>1
<1>3. PICK g : Iterates(g, n, Int, vs[1], step)
  <2>1. vs[1] \in Int
    BY <1>1
  <2> HIDE DEF step
  <2> QED BY <1>2, <2>1, RecursionExists, n \in Nat
<1>4. ASSUME NEW k \in 1..n PROVE g[k] = IF vs[k] > g[k-1] THEN vs[k] ELSE g[k-1]
  <2>1. g[k-1] \in Int /\ g[k] = step[k][g[k-1]]
    <3> HIDE DEF step
    <3>1. k - 1 \in 0..n
      BY <1>1
    <3> QED BY <1>3, <3>1 DEF Iterates
  <2> QED BY <2>1
<1>5. IsPeak(g, vs, n)
  <2>1. \A k \in 0..n : g[k] = IF k = 0 THEN vs[1] ELSE IF vs[k] > g[k-1] THEN vs[k] ELSE g[k-1]
    BY <1>3, <1>4 DEF Iterates
  <2> QED BY <1>3, <2>1 DEF IsPeak, Iterates
<1> DEFINE f == CHOOSE h : IsPeak(h, vs, n)
<1>6. IsPeak(f, vs, n) /\ Peak(vs, n) = f[n]
  BY <1>5, PeakIsChoice
<1> HIDE DEF f, step
<1>7. \A k \in 0..n : f[k] = IF k = 0 THEN vs[1] ELSE IF vs[k] > f[k-1] THEN vs[k] ELSE f[k-1]
  BY <1>6 DEF IsPeak
<1> DEFINE S == {k \in Nat : 1 <= k /\ k <= n =>
                   (\A j \in 1..k : vs[j] <= f[k]) /\ (\E j \in 1..k : f[k] = vs[j])}
<1>8. 0 \in S
  OBVIOUS
<1>9. ASSUME NEW k \in S PROVE k + 1 \in S
  <2>1. k \in Nat
    OBVIOUS
  <2>2. CASE k = 0
    BY <1>1, <1>7, <2>2
  <2>3. CASE k >= 1 /\ k + 1 <= n
    <3>1. PICK j \in 1..k : f[k] = vs[j]
      BY <1>9, <2>1, <2>3
    <3>2. \A l \in 1..k : vs[l] <= f[k] /\ vs[l] \in Int
      BY <1>1, <1>9, <2>1, <2>3
    <3>3. f[k+1] = (IF vs[k+1] > f[k] THEN vs[k+1] ELSE f[k]) /\ vs[k+1] \in Int
      BY <1>1, <1>7, <2>1, <2>3
    <3>4. f[k] \in Int
      BY <1>1, <2>1, <2>3, <3>1
    <3>5. ASSUME NEW l \in 1..(k+1) PROVE vs[l] <= f[k+1]
      <4>1. l \in 1..k \/ l = k + 1
        BY <2>1
      <4>2. CASE l \in 1..k
        <5>1. vs[l] <= f[k] /\ vs[l] \in Int
          BY <3>2, <4>2
        <5> QED BY <3>3, <3>4, <5>1
      <4>3. CASE l = k + 1
        BY <3>3, <3>4, <4>3
      <4> QED BY <4>1, <4>2, <4>3
    <3>6. \E l \in 1..(k+1) : f[k+1] = vs[l]
      BY <2>1, <3>1, <3>3
    <3> QED BY <1>1, <2>1, <3>5, <3>6
  <2>4. CASE k + 1 > n
    BY <1>1, <2>1, <2>4
  <2> QED BY <1>1, <2>1, <2>2, <2>3, <2>4
<1>10. S = Nat
  <2> HIDE DEF S
  <2> QED BY <1>8, <1>9, NatSetInduction, S \subseteq Nat DEF S
<1>11. n \in S
  BY <1>1, <1>10
<1> QED BY <1>1, <1>6, <1>11

DrawdownAt(vs, k) == [lost |-> Peak(vs, k) - vs[k], peak |-> Peak(vs, k)]

NoDrawdown == [lost |-> 0, peak |-> 1]

IsWorst(f, vs) ==
  f = [k \in 0..Len(vs) |-> IF k = 0 THEN NoDrawdown
                            ELSE IF Exceeds(DrawdownAt(vs, k), f[k-1]) THEN DrawdownAt(vs, k)
                            ELSE f[k-1]]

LEMMA MaxDrawdownIsChoice ==
  ASSUME NEW vs PROVE MaxDrawdown(vs) = (CHOOSE f : IsWorst(f, vs))[Len(vs)]
BY DEF MaxDrawdown, IsWorst, DrawdownAt, NoDrawdown

(* The one pass over values that are not negative finds a drawdown that no *)
(* other exceeds.                                                          *)
LEMMA MaxDrawdownIsWorst ==
  ASSUME NEW vs \in Seq(Nat)
  PROVE  /\ MaxDrawdown(vs) \in Fraction /\ MaxDrawdown(vs).peak > 0
         /\ \A l \in 1..Len(vs) : ~Exceeds(DrawdownAt(vs, l), MaxDrawdown(vs))
         /\ MaxDrawdown(vs).lost # 0 => \E l \in 1..Len(vs) : MaxDrawdown(vs) = DrawdownAt(vs, l)
<1> DEFINE n == Len(vs)
           D == [k \in 1..n |-> DrawdownAt(vs, k)]
           step == [k \in 1..n |-> [w \in Fraction |-> IF Exceeds(D[k], w) THEN D[k] ELSE w]]
<1>1. n \in Nat /\ vs \in Seq(Int) /\ \A k \in 1..n : vs[k] \in Nat
  OBVIOUS
<1>2. ASSUME NEW k \in 1..n PROVE DrawdownAt(vs, k) \in Fraction
  <2>1. Peak(vs, k) \in Nat
    <3>1. PICK j \in 1..k : Peak(vs, k) = vs[j]
      BY <1>1, PeakIsHighest
    <3>2. j \in 1..n
      BY <1>1
    <3> QED BY <1>1, <3>1, <3>2
  <2>2. vs[k] \in Nat
    BY <1>1
  <2> QED BY <2>1, <2>2 DEF DrawdownAt, Fraction
<1>3. D \in [1..n -> Fraction]
  BY <1>2
<1>4. step \in [1..n -> [Fraction -> Fraction]]
  <2> HIDE DEF D
  <2> QED BY <1>3
<1>5. NoDrawdown \in Fraction
  BY DEF NoDrawdown, Fraction
<1>6. PICK g : Iterates(g, n, Fraction, NoDrawdown, step)
  <2> HIDE DEF step, n
  <2> QED BY <1>1, <1>4, <1>5, RecursionExists
<1>7. ASSUME NEW k \in 1..n
      PROVE  g[k-1] \in Fraction
             /\ g[k] = IF Exceeds(DrawdownAt(vs, k), g[k-1]) THEN DrawdownAt(vs, k) ELSE g[k-1]
  <2>1. g[k-1] \in Fraction /\ g[k] = step[k][g[k-1]]
    <3> HIDE DEF step, n
    <3>1. k - 1 \in 0..n
      BY <1>1
    <3> QED BY <1>6, <3>1 DEF Iterates
  <2>2. step[k][g[k-1]] = IF Exceeds(D[k], g[k-1]) THEN D[k] ELSE g[k-1]
    <3> HIDE DEF D
    <3> QED BY <2>1
  <2> QED BY <2>1, <2>2
<1>8. IsWorst(g, vs)
  <2>1. g \in [0..n -> Fraction] /\ g[0] = NoDrawdown
    BY <1>6 DEF Iterates
  <2>2. \A k \in 0..n : g[k] = IF k = 0 THEN NoDrawdown
                               ELSE IF Exceeds(DrawdownAt(vs, k), g[k-1]) THEN DrawdownAt(vs, k)
                               ELSE g[k-1]
    BY <1>7, <2>1
  <2> QED BY <2>1, <2>2 DEF IsWorst
<1> DEFINE f == CHOOSE h : IsWorst(h, vs)
<1>9. IsWorst(f, vs) /\ MaxDrawdown(vs) = f[n]
  BY <1>8, MaxDrawdownIsChoice
<1> HIDE DEF f, step, D
<1>10. f[0] = NoDrawdown
       /\ \A k \in 1..n : f[k] = IF Exceeds(DrawdownAt(vs, k), f[k-1]) THEN DrawdownAt(vs, k) ELSE f[k-1]
  <2>1. f = [k \in 0..n |-> IF k = 0 THEN NoDrawdown
                           ELSE IF Exceeds(DrawdownAt(vs, k), f[k-1]) THEN DrawdownAt(vs, k)
                           ELSE f[k-1]]
    BY <1>9, Zenon DEF IsWorst
  <2>2. 0 \in 0..n /\ \A k \in 1..n : k \in 0..n /\ k # 0
    BY <1>1
  <2> HIDE DEF n
  <2>3. \A k \in 0..n : f[k] = IF k = 0 THEN NoDrawdown
                               ELSE IF Exceeds(DrawdownAt(vs, k), f[k-1]) THEN DrawdownAt(vs, k)
                               ELSE f[k-1]
    BY <2>1, Zenon
  <2> QED BY <2>2, <2>3
<1> HIDE DEF n
<1> DEFINE Good(w, m) == /\ w \in Fraction /\ w.peak > 0
                         /\ \A l \in 1..m : ~Exceeds(DrawdownAt(vs, l), w)
                         /\ w.lost # 0 => \E l \in 1..m : w = DrawdownAt(vs, l)
           S == {k \in Nat : k <= n => Good(f[k], k)}
<1>11. 0 \in S
  <2>1. Good(NoDrawdown, 0)
    BY <1>5 DEF NoDrawdown
  <2> HIDE DEF Good
  <2> QED BY <1>10, <2>1
<1>12. ASSUME NEW k \in S PROVE k + 1 \in S
  <2>1. k \in Nat
    OBVIOUS
  <2>2. ASSUME k + 1 <= n PROVE Good(f[k+1], k+1)
    <3> DEFINE d == DrawdownAt(vs, k+1)
               w == f[k]
    <3>1. Good(w, k) /\ k + 1 \in 1..n /\ (k + 1) - 1 = k
      BY <1>1, <1>12, <2>1, <2>2
    <3>2. f[k+1] = IF Exceeds(d, w) THEN d ELSE w
      BY <1>10, <3>1
    <3>3. d \in Fraction
      BY <1>2, <3>1
    <3> HIDE DEF d, w
    <3>4. CASE ~Exceeds(d, w)
      <4>1. f[k+1] = w
        BY <3>2, <3>4
      <4>2. \A l \in 1..(k+1) : ~Exceeds(DrawdownAt(vs, l), w)
        BY <2>1, <3>1, <3>4 DEF d
      <4>3. w.lost # 0 => \E l \in 1..(k+1) : w = DrawdownAt(vs, l)
        BY <2>1, <3>1
      <4> QED BY <3>1, <4>1, <4>2, <4>3
    <3>5. CASE Exceeds(d, w)
      <4>1. f[k+1] = d
        BY <3>2, <3>5
      <4>2. d.peak > 0
        BY <3>3, <3>5 DEF Exceeds, Fraction
      <4>3. ~Exceeds(w, d)
        BY <3>1, <3>3, <3>5, ExceedsAsymmetric
      <4>4. ASSUME NEW l \in 1..(k+1) PROVE ~Exceeds(DrawdownAt(vs, l), d)
        <5>1. CASE l = k + 1
          BY <3>3, <5>1, ExceedsAsymmetric DEF d
        <5>2. CASE l \in 1..k
          <6>1. DrawdownAt(vs, l) \in Fraction
            BY <1>1, <1>2, <2>1, <2>2, <5>2
          <6>2. ~Exceeds(DrawdownAt(vs, l), w) /\ w \in Fraction /\ w.peak > 0
            BY <3>1, <5>2
          <6> QED BY <3>3, <4>2, <4>3, <6>1, <6>2, ExceedsTransitive
        <5> QED BY <2>1, <5>1, <5>2
      <4>5. \E l \in 1..(k+1) : d = DrawdownAt(vs, l)
        BY <2>1 DEF d
      <4> QED BY <3>3, <4>1, <4>2, <4>4, <4>5
    <3> QED BY <3>4, <3>5
  <2> HIDE DEF Good
  <2> QED BY <2>1, <2>2
<1>13. S = Nat
  <2> HIDE DEF S
  <2> QED BY <1>11, <1>12, NatSetInduction, S \subseteq Nat DEF S
<1>14. Good(f[n], n)
  <2> HIDE DEF Good
  <2> QED BY <1>1, <1>13
<1> QED BY <1>9, <1>14 DEF n

----------------------------------------------------------------------------
(* The Sharpe ratio: the sum of the returns.  A fraction n / d is compared  *)
(* by cross products.                                                      *)
Ratio == [n : Int, d : Nat \ {0}]

AtMost(a, b) == a.n * b.d <= b.n * a.d

\* One more return, as the loop adds it.
Plus(a, r) == [n |-> a.n * r.d + r.n * a.d, d |-> a.d * r.d]

\* Products of positive numbers are positive.
ProductPositive == \A a, b \in Nat \ {0} : a * b \in Nat \ {0}

LEMMA PositiveProducts == ProductPositive
BY ProductNat DEF ProductPositive

LEMMA PlusIsRatio ==
  ASSUME NEW a \in Ratio, NEW r \in Ratio PROVE Plus(a, r) \in Ratio
<1>1. /\ a.n \in Int /\ r.n \in Int /\ a.d \in Nat \ {0} /\ r.d \in Nat \ {0}
  BY DEF Ratio
<1>2. a.n * r.d \in Int /\ r.n * a.d \in Int
  BY <1>1, Distributes
<1>3. a.d * r.d \in Nat \ {0}
  BY <1>1, PositiveProducts DEF ProductPositive
<1> QED BY <1>2, <1>3 DEF Plus, Ratio

LEMMA NegativeBelow ==
  ASSUME NEW a \in Ratio, NEW b \in Ratio, AtMost(a, b), ~(b.n >= 0)
  PROVE  ~(a.n >= 0)
<1> DEFINE an == a.n
           ad == a.d
           bn == b.n
           bd == b.d
<1>1. an \in Int /\ ad \in Nat \ {0} /\ bn \in Int /\ bd \in Nat /\ ~(bn >= 0)
  BY DEF Ratio
<1>2. an * bd <= bn * ad
  BY DEF AtMost
<1> HIDE DEF an, ad, bn, bd
<1> SUFFICES ASSUME an >= 0 PROVE FALSE
  BY DEF an
<1>3. an * bd \in Nat
  BY <1>1, ProductNat
<1>4. (-bn) * ad \in Nat \ {0}
  <2>1. -bn \in Nat \ {0}
    BY <1>1
  <2> HIDE DEF ProductPositive
  <2> QED BY <1>1, <2>1, PositiveProducts DEF ProductPositive
<1>5. (-bn) * ad = -(bn * ad) /\ bn * ad \in Int
  BY <1>1
<1> QED BY <1>2, <1>3, <1>4, <1>5

(* The same return added to both keeps the order of two sums.              *)
LEMMA PlusKeepsOrder ==
  ASSUME NEW a \in Ratio, NEW b \in Ratio, NEW r \in Ratio, AtMost(a, b)
  PROVE  AtMost(Plus(a, r), Plus(b, r))
<1> DEFINE an == a.n
           ad == a.d
           bn == b.n
           bd == b.d
           rn == r.n
           rd == r.d
<1>1. an \in Int /\ ad \in Nat /\ bn \in Int /\ bd \in Nat /\ rn \in Int /\ rd \in Nat
  BY DEF Ratio
<1>2. an * bd <= bn * ad
  BY DEF AtMost
<1>3. /\ Plus(a, r).n = an * rd + rn * ad /\ Plus(a, r).d = ad * rd
      /\ Plus(b, r).n = bn * rd + rn * bd /\ Plus(b, r).d = bd * rd
  BY DEF Plus
<1> HIDE DEF an, ad, bn, bd, rn, rd
<1>4. (bn * rd + rn * bd) * (ad * rd) - (an * rd + rn * ad) * (bd * rd) = (bn * ad - an * bd) * (rd * rd)
  BY <1>1
<1>5. an * bd \in Int /\ bn * ad \in Int /\ rd * rd \in Nat
  BY <1>1, Distributes, ProductNat
<1>6. bn * ad - an * bd \in Nat
  BY <1>2, <1>5
<1>7. (bn * ad - an * bd) * (rd * rd) \in Nat
  BY <1>5, <1>6, ProductNat
<1>8. /\ (bn * rd + rn * bd) * (ad * rd) \in Int
      /\ (an * rd + rn * ad) * (bd * rd) \in Int
  BY <1>1
<1>9. (an * rd + rn * ad) * (bd * rd) <= (bn * rd + rn * bd) * (ad * rd)
  BY <1>4, <1>7, <1>8
<1> QED BY <1>3, <1>9 DEF AtMost

(* A value that is highest or lowest between its neighbours may be left    *)
(* out: the one return over both steps is not more than the two.           *)
LEMMA TurnLeftOut ==
  ASSUME NEW f \in Ratio, NEW a \in Nat \ {0}, NEW b \in Nat \ {0}, NEW c \in Nat \ {0},
         (b <= a /\ b <= c) \/ (b >= a /\ b >= c)
  PROVE  AtMost(Plus(f, Return(a, c)), Plus(Plus(f, Return(a, b)), Return(b, c)))
<1> DEFINE N == f.n
           D == f.d
<1>1. N \in Int /\ D \in Nat
  BY DEF Ratio
<1>2. /\ Plus(f, Return(a, c)).n = N * a + (c - a) * D /\ Plus(f, Return(a, c)).d = D * a
      /\ Plus(Plus(f, Return(a, b)), Return(b, c)).n = (N * a + (b - a) * D) * b + (c - b) * (D * a)
      /\ Plus(Plus(f, Return(a, b)), Return(b, c)).d = (D * a) * b
  BY DEF Plus, Return
<1> HIDE DEF N, D
<1>3. ((N * a + (b - a) * D) * b + (c - b) * (D * a)) * (D * a) - (N * a + (c - a) * D) * ((D * a) * b)
        = ((b - a) * (b - c)) * (D * (D * a))
  BY <1>1
<1>4. (b - a) * (b - c) \in Nat
  <2>1. CASE b >= a /\ b >= c
    <3>1. b - a \in Nat /\ b - c \in Nat
      BY <2>1
    <3> QED BY <3>1, ProductNat
  <2>2. CASE b <= a /\ b <= c
    <3>1. a - b \in Nat /\ c - b \in Nat
      BY <2>2
    <3>2. (a - b) * (c - b) \in Nat
      BY <3>1, ProductNat
    <3>3. (b - a) * (b - c) = (a - b) * (c - b)
      OBVIOUS
    <3> QED BY <3>2, <3>3
  <2> QED BY <2>1, <2>2
<1>5. D * (D * a) \in Nat
  <2>1. D * a \in Nat
    BY <1>1, ProductNat
  <2> QED BY <1>1, <2>1, ProductNat
<1>6. ((b - a) * (b - c)) * (D * (D * a)) \in Nat
  BY <1>4, <1>5, ProductNat
<1>7. /\ ((N * a + (b - a) * D) * b + (c - b) * (D * a)) * (D * a) \in Int
      /\ (N * a + (c - a) * D) * ((D * a) * b) \in Int
  BY <1>1
<1>8. (N * a + (c - a) * D) * ((D * a) * b) <= ((N * a + (b - a) * D) * b + (c - b) * (D * a)) * (D * a)
  BY <1>3, <1>6, <1>7
<1> QED BY <1>2, <1>8 DEF AtMost

----------------------------------------------------------------------------
(* The sums of the returns, from the first value on.                       *)
Nothing == [n |-> 0, d |-> 1]

IsSum(f, vs) ==
  f = [k \in 1..Len(vs) |-> IF k = 1 THEN Nothing ELSE Plus(f[k-1], Return(vs[k-1], vs[k]))]

LEMMA SumOfReturnsIsChoice ==
  ASSUME NEW vs PROVE SumOfReturns(vs) = (CHOOSE f : IsSum(f, vs))[Len(vs)]
BY DEF SumOfReturns, IsSum, Nothing, Plus

SumsUp(f, vs) ==
  /\ f \in [1..Len(vs) -> Ratio]
  /\ f[1] = Nothing
  /\ \A k \in 2..Len(vs) : f[k] = Plus(f[k-1], Return(vs[k-1], vs[k]))

\* Only the last value may be zero: it is no base of a return.
Valued(vs) ==
  /\ vs \in Seq(Nat) /\ Len(vs) > 0
  /\ \A k \in 1..(Len(vs) - 1) : vs[k] # 0

LEMMA ReturnIsRatio ==
  ASSUME NEW vs, Valued(vs), NEW k \in 2..Len(vs)
  PROVE  Return(vs[k-1], vs[k]) \in Ratio
<1>1. /\ Len(vs) \in Nat /\ k - 1 \in 1..Len(vs) /\ k \in 1..Len(vs) /\ k - 1 \in 1..(Len(vs) - 1)
  BY DEF Valued
<1>2. vs[k-1] \in Nat /\ vs[k] \in Nat /\ vs[k-1] # 0
  BY <1>1 DEF Valued
<1> QED BY <1>2 DEF Return, Ratio

LEMMA SumsExist ==
  ASSUME NEW vs, Valued(vs)
  PROVE  \E f : SumsUp(f, vs)
<1> DEFINE n == Len(vs)
           step == [k \in 1..(n-1) |-> [a \in Ratio |-> Plus(a, Return(vs[k], vs[k+1]))]]
<1>1. n \in Nat /\ n >= 1
  BY DEF Valued
<1>2. Nothing \in Ratio
  BY DEF Nothing, Ratio
<1>3. ASSUME NEW k \in 1..(n-1) PROVE step[k] \in [Ratio -> Ratio]
  <2>1. Return(vs[k], vs[k+1]) \in Ratio
    <3>1. k + 1 \in 2..Len(vs) /\ (k + 1) - 1 = k
      BY <1>1
    <3> QED BY <3>1, ReturnIsRatio
  <2> QED BY <2>1, PlusIsRatio
<1>4. step \in [1..(n-1) -> [Ratio -> Ratio]]
  BY <1>3
<1>5. PICK g : Iterates(g, n - 1, Ratio, Nothing, step)
  <2> HIDE DEF step
  <2>1. n - 1 \in Nat
    BY <1>1
  <2> QED BY <1>2, <1>4, <2>1, RecursionExists
<1> DEFINE f == [k \in 1..n |-> g[k-1]]
<1>6. f \in [1..n -> Ratio] /\ f[1] = Nothing
  BY <1>1, <1>5 DEF Iterates
<1>7. ASSUME NEW k \in 2..n PROVE f[k] = Plus(f[k-1], Return(vs[k-1], vs[k]))
  <2>1. k - 1 \in 1..(n-1) /\ k - 2 \in 0..(n-1) /\ k - 1 \in 1..n /\ k \in 1..n
    BY <1>1
  <2>2. g[k-1] = step[k-1][g[k-2]] /\ g[k-2] \in Ratio
    <3>1. (k - 1) - 1 = k - 2
      OBVIOUS
    <3> HIDE DEF step
    <3> QED BY <1>5, <2>1, <3>1 DEF Iterates
  <2>3. step[k-1][g[k-2]] = Plus(g[k-2], Return(vs[k-1], vs[k]))
    <3>1. (k - 1) + 1 = k
      OBVIOUS
    <3> QED BY <2>1, <2>2, <3>1
  <2>4. f[k] = g[k-1] /\ f[k-1] = g[k-2]
    BY <1>1, <2>1
  <2> HIDE DEF f, step
  <2> QED BY <2>2, <2>3, <2>4
<1> HIDE DEF f
<1> QED BY <1>6, <1>7 DEF SumsUp

SameUpTo(a, b, m) == \A k \in 1..m : a[k] = b[k]

LEMMA SumsAgree ==
  ASSUME NEW vs, NEW ws, NEW m \in Nat, m <= Len(vs), m <= Len(ws), Valued(vs), Valued(ws),
         SameUpTo(vs, ws, m), NEW f, NEW g, SumsUp(f, vs), SumsUp(g, ws)
  PROVE  SameUpTo(f, g, m)
<1> DEFINE S == {k \in Nat : k \in 1..m => f[k] = g[k]}
<1>1. 0 \in S
  OBVIOUS
<1>2. ASSUME NEW k \in S PROVE k + 1 \in S
  <2>1. k \in Nat /\ Len(vs) \in Nat /\ Len(ws) \in Nat
    BY DEF Valued
  <2>2. CASE k + 1 \in 1..m /\ k >= 1
    <3>1. f[k] = g[k] /\ vs[k] = ws[k] /\ vs[k+1] = ws[k+1]
      BY <1>2, <2>1, <2>2 DEF SameUpTo
    <3>2. k + 1 \in 2..Len(vs) /\ k + 1 \in 2..Len(ws) /\ (k + 1) - 1 = k
      BY <2>1, <2>2
    <3>3. f[k+1] = Plus(f[k], Return(vs[k], vs[k+1])) /\ g[k+1] = Plus(g[k], Return(ws[k], ws[k+1]))
      BY <3>2 DEF SumsUp
    <3> QED BY <2>1, <3>1, <3>3
  <2>3. CASE k = 0
    BY <2>3 DEF SumsUp
  <2> QED BY <2>1, <2>2, <2>3
<1>3. S = Nat
  <2> HIDE DEF S
  <2> QED BY <1>1, <1>2, NatSetInduction, S \subseteq Nat DEF S
<1> QED BY <1>3 DEF SameUpTo

LEMMA SumOfReturnsSums ==
  ASSUME NEW vs, Valued(vs)
  PROVE  \E f : SumsUp(f, vs) /\ SumOfReturns(vs) = f[Len(vs)]
<1>1. Len(vs) \in Nat /\ Len(vs) >= 1
  BY DEF Valued
<1>2. PICK f : SumsUp(f, vs)
  BY SumsExist
<1>3. IsSum(f, vs)
  <2>1. \A k \in 1..Len(vs) : f[k] = IF k = 1 THEN Nothing ELSE Plus(f[k-1], Return(vs[k-1], vs[k]))
    BY <1>1, <1>2 DEF SumsUp
  <2>2. f = [k \in 1..Len(vs) |-> f[k]]
    BY <1>2 DEF SumsUp
  <2> QED BY <2>1, <2>2 DEF IsSum
<1> DEFINE g == CHOOSE h : IsSum(h, vs)
<1>4. IsSum(g, vs)
  BY <1>3, Zenon
<1>5. SumOfReturns(vs) = g[Len(vs)]
  BY SumOfReturnsIsChoice
<1> HIDE DEF g
<1>6. \A k \in 1..Len(vs) : g[k] = IF k = 1 THEN Nothing ELSE Plus(g[k-1], Return(vs[k-1], vs[k]))
  BY <1>4 DEF IsSum
<1> DEFINE S == {k \in Nat : k \in 1..Len(vs) => f[k] = g[k]}
<1>7. 0 \in S
  OBVIOUS
<1>8. ASSUME NEW k \in S PROVE k + 1 \in S
  <2>1. k \in Nat
    OBVIOUS
  <2>2. CASE k + 1 \in 1..Len(vs) /\ k >= 1
    <3>1. f[k] = g[k]
      BY <1>1, <1>8, <2>1, <2>2
    <3>2. k + 1 \in 2..Len(vs) /\ (k + 1) - 1 = k /\ k + 1 # 1
      BY <1>1, <2>1, <2>2
    <3>3. f[k+1] = Plus(f[k], Return(vs[k], vs[k+1]))
      BY <1>2, <3>2 DEF SumsUp
    <3>4. g[k+1] = Plus(g[k], Return(vs[k], vs[k+1]))
      BY <1>6, <2>2, <3>2
    <3> QED BY <2>1, <3>1, <3>3, <3>4
  <2>3. CASE k = 0
    <3>1. f[1] = Nothing
      BY <1>2 DEF SumsUp
    <3>2. g[1] = Nothing
      BY <1>1, <1>6
    <3> QED BY <2>3, <3>1, <3>2
  <2> QED BY <1>1, <2>1, <2>2, <2>3
<1>9. S = Nat
  <2> HIDE DEF S
  <2> QED BY <1>7, <1>8, NatSetInduction, S \subseteq Nat DEF S
<1>10. f[Len(vs)] = g[Len(vs)]
  BY <1>1, <1>9
<1> QED BY <1>2, <1>5, <1>10

----------------------------------------------------------------------------
(* Values that never fall have no negative sum of returns.                 *)
LEMMA RisingSums ==
  ASSUME NEW vs, Valued(vs), \A k \in 2..Len(vs) : vs[k-1] <= vs[k], NEW f, SumsUp(f, vs)
  PROVE  f[Len(vs)].n >= 0
<1>1. Len(vs) \in Nat /\ Len(vs) >= 1
  BY DEF Valued
<1> DEFINE S == {k \in Nat : k \in 1..Len(vs) => f[k].n >= 0}
<1>2. 0 \in S
  OBVIOUS
<1>3. ASSUME NEW k \in S PROVE k + 1 \in S
  <2>1. k \in Nat
    OBVIOUS
  <2>2. CASE k + 1 \in 1..Len(vs) /\ k >= 1
    <3>1. k \in 1..Len(vs) /\ k + 1 \in 2..Len(vs) /\ (k + 1) - 1 = k
      BY <1>1, <2>1, <2>2
    <3>2. f[k].n \in Nat /\ f[k].d \in Nat
      <4>1. f[k] \in Ratio
        BY <3>1 DEF SumsUp
      <4>2. f[k].n >= 0
        BY <1>3, <3>1
      <4> QED BY <4>1, <4>2 DEF Ratio
    <3>3. vs[k] \in Nat /\ vs[k+1] \in Nat /\ vs[k] <= vs[k+1]
      BY <2>2, <3>1 DEF Valued
    <3>4. f[k+1] = Plus(f[k], Return(vs[k], vs[k+1]))
      BY <3>1 DEF SumsUp
    <3>5. f[k+1].n = f[k].n * vs[k] + (vs[k+1] - vs[k]) * f[k].d
      BY <3>4 DEF Plus, Return
    <3>6. f[k].n * vs[k] \in Nat
      BY <3>2, <3>3, ProductNat
    <3>7. (vs[k+1] - vs[k]) * f[k].d \in Nat
      <4>1. vs[k+1] - vs[k] \in Nat
        BY <3>3
      <4> QED BY <3>2, <4>1, ProductNat
    <3>8. f[k+1].n >= 0
      BY <3>5, <3>6, <3>7
    <3> QED BY <2>1, <3>8
  <2>3. CASE k = 0
    BY <2>3 DEF SumsUp, Nothing
  <2> QED BY <1>1, <2>1, <2>2, <2>3
<1>4. S = Nat
  <2> HIDE DEF S
  <2> QED BY <1>2, <1>3, NatSetInduction, S \subseteq Nat DEF S
<1> QED BY <1>1, <1>4

Turn(vs, k) == \/ vs[k] <= vs[k-1] /\ vs[k] <= vs[k+1]
               \/ vs[k] >= vs[k-1] /\ vs[k] >= vs[k+1]

Without(vs, k) == [i \in 1..(Len(vs) - 1) |-> IF i < k THEN vs[i] ELSE vs[i+1]]

LEMMA WithoutIsValued ==
  ASSUME NEW vs, Valued(vs), vs[Len(vs)] # 0, NEW k \in 2..(Len(vs) - 1)
  PROVE  /\ Valued(Without(vs, k)) /\ Len(Without(vs, k)) = Len(vs) - 1
         /\ Without(vs, k)[1] = vs[1] /\ Without(vs, k)[Len(vs) - 1] = vs[Len(vs)]
         /\ \A i \in 1..Len(vs) : vs[i] \in Nat \ {0}
<1> DEFINE n == Len(vs)
           ws == Without(vs, k)
<1>1. n \in Nat /\ n >= 3 /\ vs \in Seq(Nat) /\ k \in Nat
  BY DEF Valued
<1>2. \A i \in 1..n : vs[i] \in Nat \ {0}
  <2> TAKE i \in 1..n
  <2>1. vs[i] \in Nat
    BY <1>1
  <2>2. i = n \/ i \in 1..(n - 1)
    BY <1>1
  <2> QED BY <2>1, <2>2 DEF Valued
<1>3. ASSUME NEW i \in 1..(n-1) PROVE (IF i < k THEN vs[i] ELSE vs[i+1]) \in Nat \ {0}
  <2>1. i \in 1..n /\ i + 1 \in 1..n
    BY <1>1
  <2> QED BY <1>2, <2>1
<1>4. /\ ws \in [1..(n-1) -> Nat \ {0}]
      /\ \A i \in 1..(n-1) : ws[i] = IF i < k THEN vs[i] ELSE vs[i+1]
  BY <1>3 DEF Without
<1> HIDE DEF ws
<1>5. ws \in Seq(Nat) /\ Len(ws) = n - 1 /\ \A i \in 1..(n-1) : ws[i] # 0
  <2>1. n - 1 \in Nat
    BY <1>1
  <2>2. ws \in [1..(n-1) -> Nat] /\ \A i \in 1..(n-1) : ws[i] # 0
    BY <1>4
  <2> HIDE DEF n
  <2> QED BY <2>1, <2>2
<1>6. ws[1] = vs[1] /\ ws[n-1] = vs[n]
  <2>1. 1 \in 1..(n-1) /\ 1 < k /\ n - 1 \in 1..(n-1) /\ ~(n - 1 < k) /\ (n - 1) + 1 = n
    BY <1>1
  <2> QED BY <1>4, <2>1
<1>7. Valued(ws)
  <2>1. Len(ws) > 0 /\ \A i \in 1..(Len(ws) - 1) : i \in 1..(n-1)
    BY <1>1, <1>5
  <2> QED BY <1>5, <2>1 DEF Valued
<1> QED BY <1>2, <1>5, <1>6, <1>7 DEF ws

(* Without a turn the values still are values, with the same ends, and     *)
(* their returns do not add up to more.                                    *)
LEMMA WithoutTurn ==
  ASSUME NEW vs, Valued(vs), vs[Len(vs)] # 0, NEW k \in 2..(Len(vs) - 1), Turn(vs, k),
         NEW f, SumsUp(f, vs), NEW g, SumsUp(g, Without(vs, k))
  PROVE  /\ Valued(Without(vs, k)) /\ Len(Without(vs, k)) = Len(vs) - 1
         /\ Without(vs, k)[1] = vs[1] /\ Without(vs, k)[Len(vs) - 1] = vs[Len(vs)]
         /\ AtMost(g[Len(vs) - 1], f[Len(vs)])
<1> DEFINE n == Len(vs)
           ws == Without(vs, k)
<1>1. n \in Nat /\ n >= 3 /\ vs \in Seq(Nat) /\ k \in Nat
  BY DEF Valued
<1>2. /\ \A i \in 1..n : vs[i] \in Nat \ {0}
      /\ Valued(ws) /\ Len(ws) = n - 1 /\ ws[1] = vs[1] /\ ws[n-1] = vs[n]
  BY WithoutIsValued
<1>3. \A i \in 1..(n-1) : ws[i] = IF i < k THEN vs[i] ELSE vs[i+1]
  BY DEF Without
<1> HIDE DEF ws
<1>6. SumsUp(g, ws)
  BY DEF ws
<1>7. f[k-1] = g[k-1] /\ f[k-1] \in Ratio
  <2>1. k - 1 \in Nat /\ k - 1 <= Len(vs) /\ k - 1 <= Len(ws) /\ k - 1 \in 1..(k-1) /\ k - 1 \in 1..n
    BY <1>1, <1>2
  <2>2. \A i \in 1..(k-1) : vs[i] = ws[i]
    BY <1>1, <1>3
  <2> DEFINE m == k - 1
  <2>3. \A i \in 1..m : f[i] = g[i]
    <3>1. m \in Nat /\ m <= Len(vs) /\ m <= Len(ws) /\ SameUpTo(vs, ws, m)
      BY <2>1, <2>2 DEF SameUpTo
    <3> HIDE DEF m, n
    <3>2. SameUpTo(f, g, m)
      BY <1>2, <1>6, <3>1, SumsAgree
    <3> QED BY <3>2 DEF SameUpTo
  <2>4. f[k-1] \in Ratio
    BY <2>1 DEF SumsUp
  <2> QED BY <2>1, <2>3, <2>4
<1> DEFINE S == {i \in Nat : k + i <= n - 1 => AtMost(g[k+i], f[k+i+1])}
<1>8. 0 \in S
  <2>1. /\ k - 1 \in 1..n /\ k \in 1..n /\ k + 1 \in 1..n /\ k \in 2..n /\ k + 1 \in 2..n
        /\ k \in 2..(n-1) /\ k - 1 \in 1..(n-1) /\ k \in 1..(n-1) /\ (k + 1) - 1 = k
        /\ k - 1 < k /\ ~(k < k)
    BY <1>1
  <2>2. ws[k-1] = vs[k-1] /\ ws[k] = vs[k+1]
    BY <1>3, <2>1
  <2>3. g[k] = Plus(f[k-1], Return(vs[k-1], vs[k+1]))
    <3>1. g[k] = Plus(g[k-1], Return(ws[k-1], ws[k]))
      BY <1>2, <1>6, <2>1 DEF SumsUp
    <3> QED BY <1>7, <2>2, <3>1
  <2>4. f[k+1] = Plus(Plus(f[k-1], Return(vs[k-1], vs[k])), Return(vs[k], vs[k+1]))
    <3>1. f[k+1] = Plus(f[k], Return(vs[k], vs[k+1])) /\ f[k] = Plus(f[k-1], Return(vs[k-1], vs[k]))
      BY <2>1 DEF SumsUp
    <3> QED BY <3>1
  <2>5. vs[k-1] \in Nat \ {0} /\ vs[k] \in Nat \ {0} /\ vs[k+1] \in Nat \ {0}
    BY <1>2, <2>1
  <2>6. AtMost(g[k], f[k+1])
    <3>1. (vs[k] <= vs[k-1] /\ vs[k] <= vs[k+1]) \/ (vs[k] >= vs[k-1] /\ vs[k] >= vs[k+1])
      BY DEF Turn
    <3> QED BY <1>7, <2>3, <2>4, <2>5, <3>1, TurnLeftOut
  <2>7. k + 0 = k
    BY <1>1
  <2> QED BY <2>6, <2>7
<1>9. ASSUME NEW i \in S PROVE i + 1 \in S
  <2>1. i \in Nat
    OBVIOUS
  <2>2. CASE k + (i + 1) <= n - 1
    <3> DEFINE j == k + i
    <3>1. /\ j \in Nat /\ k + (i + 1) = j + 1 /\ j \in 1..(n-1) /\ j + 1 \in 1..(n-1) /\ j + 1 \in 2..(n-1)
          /\ j + 2 \in 2..n /\ j + 1 \in 1..n /\ (j + 1) - 1 = j /\ (j + 2) - 1 = j + 1
          /\ ~(j < k) /\ ~(j + 1 < k) /\ (j + 1) + 1 = j + 2
      BY <1>1, <2>1, <2>2
    <3>2. AtMost(g[j], f[j+1])
      BY <1>1, <2>1, <2>2
    <3> HIDE DEF j
    <3>3. ws[j] = vs[j+1] /\ ws[j+1] = vs[j+2]
      BY <1>3, <3>1
    <3>4. g[j+1] = Plus(g[j], Return(ws[j], ws[j+1])) /\ g[j] \in Ratio
      BY <1>2, <1>6, <3>1 DEF SumsUp
    <3>5. f[j+2] = Plus(f[j+1], Return(vs[j+1], vs[j+2])) /\ f[j+1] \in Ratio
      BY <3>1 DEF SumsUp
    <3>6. Return(vs[j+1], vs[j+2]) \in Ratio
      BY <3>1, ReturnIsRatio
    <3>7. AtMost(g[j+1], f[j+2])
      BY <3>2, <3>3, <3>4, <3>5, <3>6, PlusKeepsOrder
    <3>8. k + (i + 1) + 1 = j + 2
      BY <1>1, <2>1, <3>1
    <3> QED BY <2>1, <3>1, <3>7, <3>8
  <2> QED BY <2>1, <2>2
<1>10. S = Nat
  <2> HIDE DEF S
  <2> QED BY <1>8, <1>9, NatSetInduction, S \subseteq Nat DEF S
<1>11. AtMost(g[n-1], f[n])
  <2>1. (n - 1) - k \in Nat /\ k + ((n - 1) - k) = n - 1 /\ k + ((n - 1) - k) + 1 = n
    BY <1>1
  <2>2. (n - 1) - k \in S
    BY <1>10, <2>1
  <2> DEFINE i == (n - 1) - k
  <2>3. k + i <= n - 1 => AtMost(g[k+i], f[k+i+1])
    <3> HIDE DEF i
    <3> QED BY <2>2 DEF i
  <2> QED BY <1>1, <2>1, <2>3
<1> QED BY <1>2, <1>11 DEF ws

(* Values that fall somewhere and do not end below the first have a turn.  *)
LEMMA TurnExists ==
  ASSUME NEW vs, Valued(vs), vs[1] <= vs[Len(vs)], ~ \A k \in 2..Len(vs) : vs[k-1] <= vs[k]
  PROVE  \E k \in 2..(Len(vs) - 1) : Turn(vs, k)
<1> DEFINE n == Len(vs)
           falls == {k \in Nat : k \in 2..n /\ ~(vs[k-1] <= vs[k])}
<1>1. n \in Nat /\ n >= 1 /\ \A i \in 1..n : vs[i] \in Nat
  BY DEF Valued
<1>2. PICK k \in falls : \A j \in falls : k <= j
  <2>1. falls \in SUBSET Nat /\ falls # {}
    BY <1>1
  <2> HIDE DEF falls
  <2> QED BY <2>1, LeastElement
<1>3. k \in 2..n /\ k \in Nat /\ ~(vs[k-1] <= vs[k]) /\ vs[k-1] \in Nat /\ vs[k] \in Nat
  <2>1. k \in 2..n /\ k - 1 \in 1..n /\ k \in 1..n
    BY <1>1
  <2> QED BY <1>1, <2>1
<1>4. CASE k > 2
  <2>1. k - 1 \in 2..(n-1) /\ k - 1 \in 2..n /\ k - 1 \in Nat /\ (k - 1) + 1 = k
        /\ (k - 1) - 1 = k - 2 /\ k - 2 \in 1..n /\ ~(k <= k - 1)
    BY <1>1, <1>3, <1>4
  <2>2. vs[k-2] <= vs[k-1]
    <3>1. k - 1 \notin falls
      BY <1>2, <2>1
    <3> QED BY <2>1, <3>1
  <2>3. vs[k-2] \in Nat
    BY <1>1, <2>1
  <2>4. Turn(vs, k - 1)
    BY <1>3, <2>1, <2>2, <2>3 DEF Turn
  <2> QED BY <2>1, <2>4
<1>5. CASE k = 2
  <2> DEFINE rises == {j \in Nat : j \in 3..n /\ vs[j-1] <= vs[j]}
  <2>1. rises # {}
    <3> SUFFICES ASSUME rises = {} PROVE FALSE
      OBVIOUS
    <3>1. \A j \in 3..n : ~(vs[j-1] <= vs[j])
      <4> TAKE j \in 3..n
      <4>1. j \in Nat /\ j \notin rises
        OBVIOUS
      <4> QED BY <4>1
    <3> DEFINE S == {i \in Nat : 2 + i <= n => vs[2+i] < vs[1]}
    <3>2. 0 \in S
      BY <1>3, <1>5
    <3>3. ASSUME NEW i \in S PROVE i + 1 \in S
      <4>1. i \in Nat
        OBVIOUS
      <4>2. CASE 2 + (i + 1) <= n
        <5>1. 2 + (i + 1) \in 3..n /\ (2 + (i + 1)) - 1 = 2 + i /\ 2 + i \in 1..n /\ 2 + i <= n
              /\ 2 + (i + 1) \in 1..n /\ 1 \in 1..n
          BY <1>1, <4>1, <4>2
        <5>2. vs[2+i] < vs[1]
          BY <3>3, <5>1
        <5>3. ~(vs[2+i] <= vs[2+(i+1)])
          BY <3>1, <5>1
        <5>4. vs[2+i] \in Nat /\ vs[2+(i+1)] \in Nat /\ vs[1] \in Nat
          BY <1>1, <5>1
        <5> HIDE DEF n
        <5> QED BY <4>1, <5>2, <5>3, <5>4
      <4> QED BY <1>1, <4>1, <4>2
    <3>4. S = Nat
      <4> HIDE DEF S
      <4> QED BY <3>2, <3>3, NatSetInduction, S \subseteq Nat DEF S
    <3>5. n - 2 \in Nat /\ 2 + (n - 2) = n
      BY <1>1, <1>3
    <3>6. vs[n] < vs[1]
      <4>1. n - 2 \in S
        BY <3>4, <3>5
      <4>2. 2 + (n - 2) <= n => vs[2+(n-2)] < vs[1]
        BY <4>1
      <4> QED BY <1>1, <3>5, <4>2
    <3>7. vs[n] \in Nat /\ vs[1] \in Nat
      BY <1>1
    <3> QED BY <3>6, <3>7
  <2>2. PICK j \in rises : \A i \in rises : j <= i
    <3>1. rises \in SUBSET Nat
      OBVIOUS
    <3> HIDE DEF rises
    <3> QED BY <2>1, <3>1, LeastElement
  <2>3. j \in 3..n /\ j \in Nat /\ vs[j-1] <= vs[j]
    OBVIOUS
  <2>4. /\ j - 1 \in 2..(n-1) /\ j - 1 \in Nat /\ (j - 1) + 1 = j /\ (j - 1) - 1 = j - 2 /\ j - 2 \in 1..n
        /\ j - 1 \in 1..n /\ ~(j <= j - 1)
    BY <1>1, <2>3
  <2>5. ~(vs[j-2] <= vs[j-1])
    <3>1. CASE j = 3
      BY <1>3, <1>5, <3>1
    <3>2. CASE j > 3
      <4>1. j - 1 \in 3..n
        BY <2>3, <3>2
      <4>2. j - 1 \notin rises
        BY <2>2, <2>4
      <4> QED BY <2>4, <4>1, <4>2
    <3> QED BY <2>3, <3>1, <3>2
  <2>6. vs[j-2] \in Nat /\ vs[j-1] \in Nat
    BY <1>1, <2>4
  <2>7. Turn(vs, j - 1)
    BY <2>3, <2>4, <2>5, <2>6 DEF Turn
  <2> QED BY <2>4, <2>7
<1> QED BY <1>3, <1>4, <1>5

(* The returns of values that do not end below the first never add up to   *)
(* less than nothing: in a shortest list that did, some value would be a   *)
(* turn, and without it the list would be shorter still.                   *)
LEMMA ReturnsAddUp ==
  ASSUME NEW us, Valued(us), us[1] <= us[Len(us)], NEW h, SumsUp(h, us)
  PROVE  h[Len(us)].n >= 0
<1> DEFINE Loses(vs, f) == /\ Valued(vs) /\ vs[1] <= vs[Len(vs)]
                           /\ SumsUp(f, vs) /\ ~(f[Len(vs)].n >= 0)
           bad == {m \in Nat : \E vs, f : Loses(vs, f) /\ Len(vs) = m}
<1> SUFFICES ASSUME ~(h[Len(us)].n >= 0) PROVE FALSE
  OBVIOUS
<1>1. Len(us) \in bad
  <2>1. Len(us) \in Nat
    BY DEF Valued
  <2> QED BY <2>1
<1>2. PICK m \in bad : \A l \in bad : m <= l
  <2>1. bad \in SUBSET Nat /\ bad # {}
    BY <1>1
  <2> HIDE DEF bad
  <2> QED BY <2>1, LeastElement
<1>3. PICK vs, f : Loses(vs, f) /\ Len(vs) = m
  OBVIOUS
<1>4. m \in Nat /\ m >= 1 /\ f[m] \in Ratio /\ ~(f[m].n >= 0)
  BY <1>3 DEF Valued, SumsUp
<1>5. PICK k \in 2..(m - 1) : Turn(vs, k)
  <2>1. ~ \A k \in 2..Len(vs) : vs[k-1] <= vs[k]
    BY <1>3, RisingSums
  <2> QED BY <1>3, <2>1, TurnExists
<1>6. vs[m] # 0
  <2>1. Valued(vs) /\ vs[1] <= vs[m] /\ Len(vs) = m
    BY <1>3
  <2>2. vs \in Seq(Nat) /\ 1 \in 1..m /\ m \in 1..m /\ 1 \in 1..(m - 1)
    BY <1>4, <1>5, <2>1 DEF Valued
  <2> HIDE DEF Loses, bad
  <2>3. vs[1] \in Nat /\ vs[m] \in Nat
    BY <2>1, <2>2
  <2>4. \A i \in 1..(m - 1) : vs[i] # 0
    BY <2>1 DEF Valued
  <2> QED BY <2>1, <2>2, <2>3, <2>4
<1> DEFINE ws == Without(vs, k)
<1>7. Valued(ws) /\ Len(ws) = m - 1 /\ ws[1] = vs[1] /\ ws[m-1] = vs[m]
  BY <1>3, <1>6, WithoutIsValued
<1>8. PICK g : SumsUp(g, ws)
  <2> HIDE DEF ws
  <2> QED BY <1>7, SumsExist
<1>9. ~(g[m-1].n >= 0)
  <2>1. AtMost(g[m-1], f[m])
    BY <1>3, <1>5, <1>6, <1>8, WithoutTurn
  <2> HIDE DEF ws
  <2>2. g[m-1] \in Ratio
    BY <1>4, <1>5, <1>7, <1>8 DEF SumsUp
  <2> QED BY <1>4, <2>1, <2>2, NegativeBelow
<1> HIDE DEF ws
<1>10. m - 1 \in bad
  <2>1. Loses(ws, g) /\ Len(ws) = m - 1 /\ m - 1 \in Nat
    <3>1. vs[1] <= vs[m]
      BY <1>3
    <3> QED BY <1>4, <1>5, <1>7, <1>8, <1>9, <3>1
  <2> QED BY <2>1
<1>11. m <= m - 1
  <2> HIDE DEF bad
  <2> QED BY <1>2, <1>10
<1> QED BY <1>4, <1>11

----------------------------------------------------------------------------
(* What the calculator reports for the metrics registered.                 *)
LEMMA Reported ==
  ASSUME NEW initial
  PROVE  /\ Report(initial).pnl = PnL(trade_history)
         /\ Report(initial).max_drawdown = MaxDrawdown(portfolio_values)
         /\ Report(initial).sharpe_ratio = SharpeRatio(portfolio_values)
         /\ Report(initial).total_return = TotalReturn(portfolio_values, initial)
<1> DEFINE added == [class |-> "total_return", initial_value |-> initial]
           names == {"pnl", "max_drawdown", "sharpe_ratio", "total_return"}
           metrics == RegisterMetric(DefaultMetrics, "total_return", added)
<1>1. DOMAIN metrics = names /\ \A n \in names \ {"total_return"} : metrics[n] = [class |-> n]
  BY DEF RegisterMetric, DefaultMetrics
<1>2. metrics["total_return"] = added
  BY DEF RegisterMetric, DefaultMetrics
<1>3. /\ metrics["pnl"].class = "pnl" /\ metrics["max_drawdown"].class = "max_drawdown"
      /\ metrics["sharpe_ratio"].class = "sharpe_ratio"
      /\ metrics["total_return"].class = "total_return" /\ metrics["total_return"].initial_value = initial
  <2>1. /\ metrics["pnl"] = [class |-> "pnl"] /\ metrics["max_drawdown"] = [class |-> "max_drawdown"]
        /\ metrics["sharpe_ratio"] = [class |-> "sharpe_ratio"]
    <3> HIDE DEF metrics
    <3> QED BY <1>1
  <2>2. added.class = "total_return" /\ added.initial_value = initial
    OBVIOUS
  <2> HIDE DEF metrics, added
  <2> QED BY <1>2, <2>1, <2>2
<1> HIDE DEF metrics, added
<1>4. \A n \in names : CalculateAllMetrics(metrics)[n] = Calculate(metrics[n])
  BY <1>1 DEF CalculateAllMetrics, CalculateMetric
<1>5. /\ Calculate(metrics["pnl"]) = PnL(trade_history)
      /\ Calculate(metrics["max_drawdown"]) = MaxDrawdown(portfolio_values)
      /\ Calculate(metrics["sharpe_ratio"]) = SharpeRatio(portfolio_values)
      /\ Calculate(metrics["total_return"]) = TotalReturn(portfolio_values, initial)
  BY <1>3 DEF Calculate
<1>6. Report(initial) = CalculateAllMetrics(metrics)
  BY DEF Report, metrics, added
<1> QED BY <1>4, <1>5, <1>6

(* The decline from one value to a later one.                              *)
Decline(vs, k, l) == [lost |-> vs[k] - vs[l], peak |-> vs[k]]

(* The drawdown found is the largest decline of all.                       *)
LEMMA MaxDrawdownIsLargest ==
  ASSUME NEW vs \in Seq(Nat)
  PROVE  /\ \A l \in 1..Len(vs) : \A k \in 1..l : ~Exceeds(Decline(vs, k, l), MaxDrawdown(vs))
         /\ MaxDrawdown(vs).lost # 0 =>
              \E l \in 1..Len(vs) : \E k \in 1..l : MaxDrawdown(vs) = Decline(vs, k, l)
<1> DEFINE worst == MaxDrawdown(vs)
<1>1. /\ worst \in Fraction /\ worst.peak > 0
      /\ \A l \in 1..Len(vs) : ~Exceeds(DrawdownAt(vs, l), worst)
      /\ worst.lost # 0 => \E l \in 1..Len(vs) : worst = DrawdownAt(vs, l)
  BY MaxDrawdownIsWorst
<1> HIDE DEF worst
<1>2. vs \in Seq(Int) /\ Len(vs) \in Nat /\ \A k \in 1..Len(vs) : vs[k] \in Nat
  OBVIOUS
<1>3. ASSUME NEW l \in 1..Len(vs), NEW k \in 1..l PROVE ~Exceeds(Decline(vs, k, l), worst)
  <2> DEFINE high == Peak(vs, l)
             a == Decline(vs, k, l)
             b == DrawdownAt(vs, l)
  <2>1. vs[k] \in Nat /\ vs[l] \in Nat /\ vs[k] <= high /\ high \in Nat
    <3>1. k \in 1..Len(vs) /\ \A j \in 1..l : j \in 1..Len(vs)
      BY <1>2
    <3> QED BY <1>2, <3>1, PeakIsHighest
  <2> HIDE DEF high
  <2>2. /\ a.lost = vs[k] - vs[l] /\ a.peak = vs[k] /\ a \in Fraction
        /\ b.lost = high - vs[l] /\ b.peak = high /\ b \in Fraction
    BY <2>1 DEF Decline, DrawdownAt, Fraction, high
  <2>3. ~Exceeds(a, b)
    <3>1. vs[k] * vs[l] <= high * vs[l] /\ vs[k] * vs[l] \in Int /\ high * vs[l] \in Int
      BY <2>1, ProductsOrdered
    <3>2. (vs[k] - vs[l]) * high = vs[k] * high - vs[l] * high /\ vs[k] * high \in Int
          /\ vs[l] * high = high * vs[l]
      BY <2>1, Distributes
    <3>3. (high - vs[l]) * vs[k] = high * vs[k] - vs[l] * vs[k] /\ high * vs[k] = vs[k] * high
          /\ vs[l] * vs[k] = vs[k] * vs[l]
      BY <2>1, Distributes
    <3>4. (vs[k] - vs[l]) * high <= (high - vs[l]) * vs[k]
      BY <3>1, <3>2, <3>3
    <3>5. (vs[k] - vs[l]) * high \in Int /\ (high - vs[l]) * vs[k] \in Int
      BY <3>1, <3>2, <3>3
    <3>6. a.lost * b.peak <= b.lost * a.peak /\ a.lost * b.peak \in Int /\ b.lost * a.peak \in Int
      BY <2>2, <3>4, <3>5
    <3> HIDE DEF a, b
    <3> QED BY <3>6 DEF Exceeds
  <2>4. a.peak > 0 => b.peak > 0
    BY <2>1, <2>2
  <2>5. ~Exceeds(b, worst)
    BY <1>1
  <2> HIDE DEF a, b
  <2>6. ~Exceeds(a, worst)
    BY <1>1, <2>2, <2>3, <2>4, <2>5, ExceedsTransitive
  <2> QED BY <2>6 DEF a
<1>4. ASSUME worst.lost # 0 PROVE \E l \in 1..Len(vs) : \E k \in 1..l : worst = Decline(vs, k, l)
  <2>1. PICK l \in 1..Len(vs) : worst = DrawdownAt(vs, l)
    BY <1>1, <1>4
  <2>2. PICK k \in 1..l : Peak(vs, l) = vs[k]
    BY <1>2, PeakIsHighest
  <2>3. worst = Decline(vs, k, l)
    BY <2>1, <2>2 DEF DrawdownAt, Decline
  <2> QED BY <2>3
<1> QED BY <1>3, <1>4 DEF worst

----------------------------------------------------------------------------
(* The inductive invariant of a portfolio that is also valued.             *)

(* A purchase has earned nothing, so the metric, which adds up the sells,  *)
(* adds up all that the history earned.                                    *)
PurchasesEarnNothing ==
  \A k \in 1..Len(trade_history) :
    trade_history[k].action_type = "Buy" => trade_history[k].realised_pnl = 0

ValuedInv ==
  /\ PortfolioInv
  /\ portfolio_values \in Seq(Nat)
  /\ PurchasesEarnNothing

(* The books and the values stay in order.                                 *)
THEOREM ValuedInvInductive == ValuedInv /\ PortfolioChange => ValuedInv'
<1> SUFFICES ASSUME ValuedInv, PortfolioChange PROVE ValuedInv'
  OBVIOUS
<1>1. PortfolioInv'
  BY PortfolioInvInductive DEF ValuedInv
<1>2. PortfolioInv /\ portfolio_values \in Seq(Nat) /\ PurchasesEarnNothing
  BY DEF ValuedInv
<1>3. portfolio_values' \in Seq(Nat)
  <2>1. ASSUME NEW bid \in Positive, NEW ask \in Positive, UpdatePortfolioValue(bid, ask)
        PROVE  portfolio_values' \in Seq(Nat)
    <3>1. cash \in Nat /\ asset_amount \in Nat /\ bid + ask \in Nat
      BY <1>2 DEF PortfolioInv, PortfolioTypeOK, Solvent, Positive
    <3>2. asset_amount * (bid + ask) \in Nat
      BY <3>1, ProductNat
    <3>3. 2 * cash + asset_amount * (bid + ask) \in Nat
      BY <3>1, <3>2
    <3> QED BY <1>2, <2>1, <3>3 DEF UpdatePortfolioValue
  <2>2. CASE \E bid, ask \in Positive : UpdatePortfolioValue(bid, ask)
    BY <2>1, <2>2
  <2>3. CASE UNCHANGED portfolio_values
    BY <1>2, <2>3
  <2>4. CASE portfolio_values' = << >>
    BY <2>4
  <2> QED BY <2>2, <2>3, <2>4
       DEF PortfolioChange, UpdateAfterBuy, UpdateAfterSell, BookBuy, MatchLot, BookSell,
           SetCash, SetAmount, Create, portfolioVars
<1>4. PurchasesEarnNothing'
  <2> DEFINE Recorded(t) == trade_history' = Append(trade_history, t)
                            /\ (t.action_type = "Buy" => t.realised_pnl = 0)
  <2>1. ASSUME NEW t, Recorded(t) PROVE PurchasesEarnNothing'
    <3>1. /\ trade_history \in Seq(PositionInfo) /\ Len(trade_history') = Len(trade_history) + 1
          /\ \A k \in 1..Len(trade_history) : trade_history'[k] = trade_history[k]
          /\ trade_history'[Len(trade_history) + 1] = t
          /\ \A k \in 1..Len(trade_history') : k \in 1..Len(trade_history) \/ k = Len(trade_history) + 1
      <4>1. trade_history \in Seq(PositionInfo)
        BY <1>2 DEF PortfolioInv, PortfolioTypeOK
      <4>2. trade_history' = Append(trade_history, t)
        BY <2>1
      <4>3. /\ Len(trade_history') = Len(trade_history) + 1
            /\ \A k \in 1..Len(trade_history) : trade_history'[k] = trade_history[k]
            /\ trade_history'[Len(trade_history) + 1] = t
        BY <4>1, <4>2, AppendProperties
      <4> QED BY <4>1, <4>3
    <3> QED BY <1>2, <2>1, <3>1 DEF PurchasesEarnNothing
  <2>2. CASE BookBuy
    BY <2>1, <2>2 DEF BookBuy, Record
  <2>3. CASE BookSell
    BY <2>1, <2>3 DEF BookSell, Record
  <2>4. CASE UNCHANGED trade_history
    BY <1>2, <2>4 DEF PurchasesEarnNothing
  <2>5. CASE trade_history' = << >>
    BY <2>5 DEF PurchasesEarnNothing
  <2> HIDE DEF Recorded
  <2> QED BY <2>2, <2>3, <2>4, <2>5
       DEF PortfolioChange, UpdateAfterBuy, UpdateAfterSell, MatchLot, UpdatePortfolioValue,
           SetCash, SetAmount, Create, portfolioVars
<1> QED BY <1>1, <1>3, <1>4 DEF ValuedInv

(* The metrics that the invariant gives.                                   *)
LEMMA ProfitsAreOfSales ==
  ASSUME trade_history \in Seq(PositionInfo), PurchasesEarnNothing
  PROVE  PnL(trade_history) = Total(Profits(trade_history))
<1>1. \A k \in 1..Len(trade_history) : trade_history[k].action_type \in {"Buy", "Sell"}
  <2>1. TAKE k \in 1..Len(trade_history)
  <2>2. trade_history[k] \in PositionInfo
    OBVIOUS
  <2> QED BY <2>2 DEF PositionInfo
<1>2. [k \in 1..Len(trade_history) |->
         IF trade_history[k].action_type = "Sell" THEN trade_history[k].realised_pnl ELSE 0]
      = [k \in 1..Len(trade_history) |-> trade_history[k].realised_pnl]
  BY <1>1 DEF PurchasesEarnNothing
<1> QED BY <1>2 DEF PnL, Profits

LEMMA ValuedPnL == ValuedInv => PnLIsMoney
<1> SUFFICES ASSUME ValuedInv, ledger = "idle", ExactBooks
             PROVE  Report(opening.cash).pnl = Paid - opening.cash
  BY DEF PnLIsMoney
<1>1. PortfolioInv /\ PurchasesEarnNothing /\ trade_history \in Seq(PositionInfo)
      /\ cash \in Int
  BY DEF ValuedInv, PortfolioInv, PortfolioTypeOK
<1>2. InTransit = 0 /\ realised_pnl = 0
  BY <1>1 DEF InTransit, PortfolioInv, InLoop
<1>3. cash + Total(LotCosts(positions)) + 0 = opening.cash + Total(Profits(trade_history)) + 0
  BY <1>1, <1>2 DEF PortfolioInv, ProfitIsReal
<1>4. Report(opening.cash).pnl = Total(Profits(trade_history))
  BY <1>1, ProfitsAreOfSales, Reported
<1>5. /\ Total(LotCosts(positions)) \in Int /\ Total(Profits(trade_history)) \in Int
      /\ opening.cash \in Int
  BY <1>1, Numbers
<1> QED BY <1>1, <1>3, <1>4, <1>5 DEF Paid

LEMMA ValuedDrawdown == ValuedInv => DrawdownIsLargestDecline
<1> SUFFICES ASSUME ValuedInv PROVE DrawdownIsLargestDecline
  OBVIOUS
<1> DEFINE vs == portfolio_values
<1>1. vs \in Seq(Nat)
  BY DEF ValuedInv
<1>2. Report(opening.cash).max_drawdown = MaxDrawdown(vs)
  BY Reported
<1> QED BY <1>1, <1>2, MaxDrawdownIsLargest DEF DrawdownIsLargestDecline, Decline

LEMMA ValuedReturn == ValuedInv => LossWithinDrawdown
<1> SUFFICES ASSUME ValuedInv, portfolio_values # << >>
             PROVE  ~Exceeds(Report(portfolio_values[1]).total_return,
                             Report(portfolio_values[1]).max_drawdown)
  BY DEF LossWithinDrawdown
<1> DEFINE vs == portfolio_values
<1>1. vs \in Seq(Nat) /\ vs # << >>
  BY DEF ValuedInv
<1>2. Report(vs[1]).max_drawdown = MaxDrawdown(vs) /\ Report(vs[1]).total_return = TotalReturn(vs, vs[1])
  BY Reported
<1> HIDE DEF vs
<1>3. Len(vs) \in 1..Len(vs) /\ 1 \in 1..Len(vs)
  BY <1>1, EmptySeq
<1>4. TotalReturn(vs, vs[1]) = Decline(vs, 1, Len(vs))
  BY <1>1 DEF TotalReturn, Decline
<1>5. ~Exceeds(Decline(vs, 1, Len(vs)), MaxDrawdown(vs))
  BY <1>1, <1>3, MaxDrawdownIsLargest
<1> QED BY <1>2, <1>4, <1>5 DEF vs

LEMMA ValuedSharpe == ValuedInv => NegativeSharpeIsALoss
<1> DEFINE vs == portfolio_values
<1> SUFFICES ASSUME ValuedInv, SharpeRatio(vs) = "negative" PROVE vs[Len(vs)] < vs[1]
  BY Reported DEF NegativeSharpeIsALoss
<1>1. vs \in Seq(Nat) /\ Len(vs) \in Nat
  BY DEF ValuedInv
<1> HIDE DEF vs
<1>2. /\ \A k \in 2..Len(vs) : Return(vs[k-1], vs[k]).d # 0
      /\ {Return(vs[k-1], vs[k]) : k \in 2..Len(vs)} # {}
      /\ SumOfReturns(vs).n < 0
  BY DEF SharpeRatio
<1>3. Len(vs) >= 2
  BY <1>1, <1>2
<1>4. Valued(vs)
  <2>1. ASSUME NEW k \in 1..(Len(vs) - 1) PROVE vs[k] # 0
    <3>1. k + 1 \in 2..Len(vs) /\ (k + 1) - 1 = k
      BY <1>1
    <3>2. Return(vs[k], vs[k+1]).d # 0
      BY <1>2, <3>1
    <3> QED BY <3>2 DEF Return
  <2> QED BY <1>1, <1>3, <2>1 DEF Valued
<1>5. PICK f : SumsUp(f, vs) /\ SumOfReturns(vs) = f[Len(vs)]
  BY <1>4, SumOfReturnsSums
<1>6. vs[1] \in Nat /\ vs[Len(vs)] \in Nat
  BY <1>1, <1>3
<1>7. f[Len(vs)] \in Ratio
  BY <1>1, <1>3, <1>5 DEF SumsUp
<1>8. ~(vs[1] <= vs[Len(vs)])
  <2> SUFFICES ASSUME vs[1] <= vs[Len(vs)] PROVE FALSE
    OBVIOUS
  <2>1. f[Len(vs)].n >= 0
    BY <1>4, <1>5, ReturnsAddUp
  <2>2. f[Len(vs)].n \in Int /\ f[Len(vs)].n < 0
    BY <1>2, <1>5, <1>7 DEF Ratio
  <2> QED BY <2>1, <2>2
<1> QED BY <1>6, <1>8

----------------------------------------------------------------------------
(* The books are in order in every state that callers who ask before they  *)
(* book, set balances and record values can reach.                         *)
THEOREM PortfolioInvariant == MetricsSpec => []ValuedInv
<1>1. ClientInit => ValuedInv
  <2>1. ClientInit => PortfolioInv
    BY HoldsInv, OpeningsAssumption DEF ClientInit
  <2> QED BY <2>1 DEF ClientInit, Holds, ValuedInv, PurchasesEarnNothing
<1>2. ValuedInv /\ [MetricsNext]_portfolioVars => ValuedInv'
  <2>1. [MetricsNext]_portfolioVars => PortfolioChange
    BY FillListsAssumption, SettingsAssumption, QuotesAssumption
       DEF MetricsNext, ClientNext, PortfolioChange
  <2> QED BY <2>1, ValuedInvInductive
<1> QED BY <1>1, <1>2, PTL DEF MetricsSpec

(* The balances, history, lots and values keep their types.                *)
THEOREM PortfolioTypeCorrect == MetricsSpec => []PortfolioTypeOK
<1>1. ValuedInv => PortfolioTypeOK
  BY DEF ValuedInv, PortfolioInv
<1> QED BY <1>1, PortfolioInvariant, PTL

(* Neither cash nor holdings are ever negative.                            *)
THEOREM NeverOverdrawn == MetricsSpec => []Solvent
<1>1. ValuedInv => Solvent
  BY DEF ValuedInv, PortfolioInv
<1> QED BY <1>1, PortfolioInvariant, PTL

(* The history explains the balances.                                      *)
THEOREM HistoryIsComplete == MetricsSpec => []HistoryExplainsBalances
<1>1. ValuedInv => HistoryExplainsBalances
  BY DEF ValuedInv, PortfolioInv
<1> QED BY <1>1, PortfolioInvariant, PTL

(* The open lots account for the holdings, up to opening holdings and dust.*)
THEOREM LotsAreCovered == MetricsSpec => []LotsAccountForHoldings
<1>1. ValuedInv => LotsAccountForHoldings
  BY DEF ValuedInv, PortfolioInv
<1> QED BY <1>1, PortfolioInvariant, PTL

(* The profits of the history are the profits the balances show.           *)
THEOREM ProfitsAreReal == MetricsSpec => []ProfitIsReal
<1>1. ValuedInv => ProfitIsReal
  BY DEF ValuedInv, PortfolioInv
<1> QED BY <1>1, PortfolioInvariant, PTL

(* Every sale of the history carries the profit first-in-first-out gives.  *)
THEOREM ProfitsAreFifo == MetricsSpec => []ProfitIsFifo
<1>1. ClientInit => FifoInv
  <2>1. ClientInit => PortfolioInv
    BY HoldsInv, OpeningsAssumption DEF ClientInit
  <2> QED BY <2>1, FifoStart DEF ClientInit, Holds
<1>2. FifoInv /\ [MetricsNext]_portfolioVars => FifoInv'
  <2>1. [MetricsNext]_portfolioVars => PortfolioChange
    BY FillListsAssumption, SettingsAssumption, QuotesAssumption
       DEF MetricsNext, ClientNext, PortfolioChange
  <2> QED BY <2>1, FifoInvInductive
<1> QED BY <1>1, <1>2, FifoInvShows, PTL DEF MetricsSpec

(* PnL::calculate: the sum over the sells is the money made.               *)
THEOREM PnLMetricIsMoney == MetricsSpec => []PnLIsMoney
BY ValuedPnL, PortfolioInvariant, PTL

(* MaxDrawdown::calculate: one pass finds the largest decline of all pairs.*)
THEOREM DrawdownMetricIsLargest == MetricsSpec => []DrawdownIsLargestDecline
BY ValuedDrawdown, PortfolioInvariant, PTL

(* The return since the first value is never worse than the drawdown.      *)
THEOREM MetricsAgree == MetricsSpec => []LossWithinDrawdown
BY ValuedReturn, PortfolioInvariant, PTL

(* SharpeRatio::calculate: returns that average to a loss, each on the     *)
(* value before it, show that money was lost, whatever happened between.   *)
THEOREM NegativeSharpeMeansLoss == MetricsSpec => []NegativeSharpeIsALoss
BY ValuedSharpe, PortfolioInvariant, PTL
=============================================================================
