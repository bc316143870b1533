-------------------------- MODULE RoundingTheorems --------------------------
(***************************************************************************)
(* Theorems about a fill-or-kill buy in floating point, for any number of  *)
(* significands: what one operation may be off, and what the loops over    *)
(* the levels and over the payments make of it.                            *)
(***************************************************************************)
EXTENDS Rounding, SumTheorems

----------------------------------------------------------------------------
(* The powers of two, and the weight of the last bit.                      *)

IsDoubling(f, m) == f = [k \in 0..m |-> IF k = 0 THEN 1 ELSE 2 * f[k-1]]

LEMMA DoublingsIsChoice == ASSUME NEW m PROVE Doublings(m) = CHOOSE f : IsDoubling(f, m)
BY DEF Doublings, IsDoubling

Doubles(f, m) == /\ f \in [0..m -> Nat \ {0}]
                 /\ f[0] = 1
                 /\ \A k \in 1..m : f[k] = 2 * f[k-1]

LEMMA DoublingsDouble == ASSUME NEW m \in Nat PROVE Doubles(Doublings(m), m)
<1> DEFINE V == Nat \ {0}
           step == [k \in 1..m |-> [a \in V |-> 2 * a]]
<1>1. PICK f : Iterates(f, m, V, 1, step)
  <2>1. step \in [1..m -> [V -> V]] /\ 1 \in V
    OBVIOUS
  <2> HIDE DEF step, V
  <2> QED BY <2>1, RecursionExists
<1>2. Doubles(f, m)
  <2>1. ASSUME NEW k \in 1..m PROVE f[k] = 2 * f[k-1]
    <3>1. k - 1 \in 0..m
      OBVIOUS
    <3>2. f[k] = step[k][f[k-1]] /\ f[k-1] \in Nat \ {0}
      BY <1>1, <3>1 DEF Iterates
    <3> QED BY <3>2
  <2> QED BY <1>1, <2>1 DEF Iterates, Doubles
<1>3. IsDoubling(f, m)
  <2>1. \A k \in 0..m : f[k] = IF k = 0 THEN 1 ELSE 2 * f[k-1]
    BY <1>2 DEF Doubles
  <2>2. f = [k \in 0..m |-> f[k]]
    BY <1>2 DEF Doubles
  <2> QED BY <2>1, <2>2 DEF IsDoubling
<1> DEFINE g == Doublings(m)
<1>4. IsDoubling(g, m)
  BY <1>3, DoublingsIsChoice, Zenon
<1> HIDE DEF g
<1>5. /\ g = [k \in 0..m |-> g[k]]
      /\ \A k \in 0..m : g[k] = IF k = 0 THEN 1 ELSE 2 * g[k-1]
  BY <1>4 DEF IsDoubling
<1> DEFINE S == {k \in Nat : k <= m => f[k] = g[k]}
<1>6. 0 \in S
  <2>1. 0 \in 0..m
    OBVIOUS
  <2>2. g[0] = 1
    BY <1>5, <2>1
  <2> QED BY <1>2, <2>2 DEF Doubles
<1>7. ASSUME NEW k \in S PROVE k + 1 \in S
  <2>1. k \in Nat
    OBVIOUS
  <2>2. CASE k + 1 <= m
    <3>1. k + 1 \in 1..m /\ k + 1 \in 0..m /\ (k + 1) - 1 = k /\ k + 1 # 0
      BY <2>1, <2>2
    <3>2. f[k] = g[k]
      BY <1>7, <2>1, <2>2
    <3>3. f[k+1] = 2 * f[k] /\ g[k+1] = 2 * g[k]
      BY <1>2, <1>5, <3>1 DEF Doubles
    <3> QED BY <2>1, <3>2, <3>3
  <2> QED BY <2>1, <2>2
<1>8. S = Nat
  <2> HIDE DEF S
  <2> QED BY <1>6, <1>7, NatSetInduction, S \subseteq Nat DEF S
<1>9. f = g
  <2>1. \A k \in 0..m : f[k] = g[k]
    BY <1>8
  <2> QED BY <1>2, <1>5, <2>1 DEF Doubles
<1> QED BY <1>2, <1>9 DEF g

(* Powers grow: each is above its exponent, and the later the larger.      *)
LEMMA DoublesGrow ==
  ASSUME NEW m \in Nat, NEW f, Doubles(f, m)
  PROVE  /\ \A k \in 0..m : f[k] >= k + 1
         /\ \A i, k \in 0..m : i < k => 2 * f[i] <= f[k]
<1> DEFINE S == {k \in Nat : k <= m => f[k] >= k + 1 /\ \A i \in 0..m : i < k => 2 * f[i] <= f[k]}
<1>1. 0 \in S
  BY DEF Doubles
<1>2. ASSUME NEW k \in S PROVE k + 1 \in S
  <2>1. k \in Nat
    OBVIOUS
  <2>2. CASE k + 1 <= m
    <3>1. k \in 0..m /\ k + 1 \in 1..m /\ (k + 1) - 1 = k
      BY <2>1, <2>2
    <3>2. f[k+1] = 2 * f[k] /\ f[k] \in Nat \ {0}
      BY <3>1 DEF Doubles
    <3>3. f[k] >= k + 1 /\ \A i \in 0..m : i < k => 2 * f[i] <= f[k]
      BY <1>2, <2>1, <3>1
    <3>4. f[k+1] >= (k + 1) + 1
      BY <2>1, <3>2, <3>3
    <3>5. ASSUME NEW i \in 0..m, i < k + 1 PROVE 2 * f[i] <= f[k+1]
      <4>1. f[i] \in Nat
        BY DEF Doubles
      <4>2. i = k \/ i < k
        BY <2>1, <3>5
      <4> QED BY <3>2, <3>3, <4>1, <4>2
    <3> QED BY <2>1, <3>4, <3>5
  <2> QED BY <2>1, <2>2
<1>3. S = Nat
  <2> HIDE DEF S
  <2> QED BY <1>1, <1>2, NatSetInduction, S \subseteq Nat DEF S
<1> QED BY <1>3

(* The powers do not depend on how many are asked for.                     *)
LEMMA DoublesAgree ==
  ASSUME NEW m \in Nat, NEW n \in Nat, NEW f, NEW g, Doubles(f, m), Doubles(g, n)
  PROVE  \A k \in Nat : k <= m /\ k <= n => f[k] = g[k]
<1> DEFINE S == {k \in Nat : k <= m /\ k <= n => f[k] = g[k]}
<1>1. 0 \in S
  BY DEF Doubles
<1>2. ASSUME NEW k \in S PROVE k + 1 \in S
  <2>1. k \in Nat
    OBVIOUS
  <2>2. CASE k + 1 <= m /\ k + 1 <= n
    <3>1. k + 1 \in 1..m /\ k + 1 \in 1..n /\ (k + 1) - 1 = k
      BY <2>1, <2>2
    <3>2. f[k] = g[k]
      BY <1>2, <2>1, <2>2
    <3>3. f[k+1] = 2 * f[k] /\ g[k+1] = 2 * g[k]
      BY <3>1 DEF Doubles
    <3> QED BY <2>1, <3>2, <3>3
  <2> QED BY <2>1, <2>2
<1>3. S = Nat
  <2> HIDE DEF S
  <2> QED BY <1>1, <1>2, NatSetInduction, S \subseteq Nat DEF S
<1> QED BY <1>3

\* n has the weight of the e-th power, and of none before.
Exponent(n, e) ==
  LET f == Doublings(n \div Significands)
  IN  /\ e \in 0..(n \div Significands)
      /\ Ulp(n) = f[e]
      /\ n < Significands * f[e]
      /\ \A k \in 0..(n \div Significands) : n < Significands * f[k] => e <= k

LEMMA ExponentExists ==
  ASSUME NEW n \in Nat
  PROVE  n \div Significands \in Nat /\ \E e \in Nat : Exponent(n, e)
<1> DEFINE m == n \div Significands
           f == Doublings(m)
           T == {k \in DOMAIN f : n < Significands * f[k]}
<1>1. m \in Nat /\ Significands \in Nat \ {0} /\ n < Significands * (m + 1)
  <2>1. Significands \in Nat \ {0}
    BY SignificandsAssumption
  <2>2. n = Significands * m + (n % Significands) /\ n % Significands < Significands /\ m \in Nat
        /\ n % Significands \in Nat
    BY <2>1
  <2>3. Significands * (m + 1) = Significands * m + Significands /\ Significands * m \in Nat
    BY <2>1, <2>2
  <2> QED BY <2>1, <2>2, <2>3
<1> HIDE DEF m
<1>2. Doubles(f, m)
  BY <1>1, DoublingsDouble
<1>3. DOMAIN f = 0..m /\ \A k \in 0..m : f[k] \in Nat
  BY <1>2 DEF Doubles
<1>4. m \in T
  <2>1. f[m] >= m + 1 /\ f[m] \in Nat
    BY <1>1, <1>2, <1>3, DoublesGrow
  <2>2. (m + 1) * Significands <= f[m] * Significands
    BY <1>1, <2>1, ProductsOrdered
  <2>3. (m + 1) * Significands = Significands * (m + 1) /\ f[m] * Significands = Significands * f[m]
        /\ Significands * (m + 1) \in Int /\ Significands * f[m] \in Int
    BY <1>1, <2>1
  <2> HIDE DEF f
  <2> QED BY <1>1, <1>3, <2>2, <2>3
<1>5. T \in SUBSET Nat /\ T # {}
  BY <1>3, <1>4
<1>6. Min(T) \in T /\ \A k \in T : Min(T) <= k
  <2> HIDE DEF T
  <2> QED BY <1>5, LeastOf
<1>7. Ulp(n) = f[Min(T)]
  BY DEF Ulp, m
<1> HIDE DEF f
<1>8. Min(T) \in 0..m /\ n < Significands * f[Min(T)]
  BY <1>3, <1>6
<1>9. \A k \in 0..m : n < Significands * f[k] => Min(T) <= k
  BY <1>3, <1>6
<1>10. Exponent(n, Min(T))
  <2> HIDE DEF T
  <2> QED BY <1>7, <1>8, <1>9 DEF Exponent, m, f
<1> QED BY <1>1, <1>8, <1>10 DEF m

Half == Significands \div 2

LEMMA SignificandsAreEven == Half \in Nat \ {0} /\ Significands = 2 * Half
<1>1. Significands \in Nat \ {0} /\ Significands % 2 = 0
  BY SignificandsAssumption
<1> QED BY <1>1 DEF Half

(* A number fits under its weight and, unless that is one, fills half of   *)
(* what fits.                                                              *)
LEMMA UlpFits ==
  ASSUME NEW n \in Nat
  PROVE  /\ Ulp(n) \in Nat \ {0}
         /\ n < Significands * Ulp(n)
         /\ Ulp(n) # 1 => Half * Ulp(n) <= n
<1> DEFINE m == n \div Significands
           f == Doublings(m)
<1>1. m \in Nat
  BY ExponentExists
<1>2. PICK e \in Nat : Exponent(n, e)
  BY ExponentExists
<1> HIDE DEF m
<1>3. Doubles(f, m)
  BY <1>1, DoublingsDouble
<1>4. /\ e \in 0..m /\ Ulp(n) = f[e] /\ n < Significands * f[e]
      /\ \A k \in 0..m : n < Significands * f[k] => e <= k
  BY <1>2 DEF Exponent, m
<1> HIDE DEF f
<1>5. f[e] \in Nat \ {0}
  BY <1>3, <1>4 DEF Doubles
<1>6. ASSUME f[e] # 1 PROVE Half * f[e] <= n
  <2>1. e # 0
    BY <1>3, <1>6 DEF Doubles
  <2>2. e \in 1..m /\ e - 1 \in 0..m /\ ~(e <= e - 1)
    BY <1>1, <1>4, <2>1
  <2>3. f[e] = 2 * f[e-1] /\ f[e-1] \in Nat
    BY <1>3, <2>2 DEF Doubles
  <2>4. ~(n < Significands * f[e-1])
    BY <1>4, <2>2
  <2>5. Half * f[e] = Significands * f[e-1] /\ Significands * f[e-1] \in Int
    <3>1. Half \in Nat /\ Significands = 2 * Half
      BY SignificandsAreEven
    <3>2. Half * (2 * f[e-1]) = (2 * Half) * f[e-1]
      BY <2>3, <3>1
    <3> QED BY <2>3, <3>1, <3>2
  <2> QED BY <2>4, <2>5
<1> QED BY <1>4, <1>5, <1>6

(* Of two numbers the larger one has the same weight or at least twice it. *)
LEMMA UlpGrows ==
  ASSUME NEW x \in Nat, NEW y \in Nat, x <= y
  PROVE  Ulp(x) = Ulp(y) \/ 2 * Ulp(x) <= Ulp(y)
<1> DEFINE m == x \div Significands
           n == y \div Significands
           f == Doublings(m)
           g == Doublings(n)
<1>1. m \in Nat /\ n \in Nat
  BY ExponentExists
<1>2. PICK d \in Nat : Exponent(x, d)
  BY ExponentExists
<1>3. PICK e \in Nat : Exponent(y, e)
  BY ExponentExists
<1> HIDE DEF m, n
<1>4. Doubles(f, m) /\ Doubles(g, n)
  BY <1>1, DoublingsDouble
<1>5. /\ d \in 0..m /\ Ulp(x) = f[d]
      /\ \A k \in 0..m : x < Significands * f[k] => d <= k
  BY <1>2 DEF Exponent, m
<1>6. /\ e \in 0..n /\ Ulp(y) = g[e] /\ y < Significands * g[e]
  BY <1>3 DEF Exponent, n
<1> HIDE DEF f, g
<1>7. \A k \in Nat : k <= m /\ k <= n => f[k] = g[k]
  BY <1>1, <1>4, DoublesAgree
<1>8. d <= e
  <2>1. CASE e <= m
    <3>1. e \in 0..m /\ f[e] = g[e] /\ g[e] \in Nat
      BY <1>1, <1>4, <1>6, <1>7, <2>1 DEF Doubles
    <3>2. Significands * g[e] \in Nat
      BY <3>1, SignificandsAssumption, ProductNat
    <3>3. x < Significands * f[e]
      BY <1>6, <3>1, <3>2
    <3> QED BY <1>5, <3>1, <3>3
  <2>2. CASE ~(e <= m)
    BY <1>1, <1>5, <2>2
  <2> QED BY <2>1, <2>2
<1>9. f[d] = g[d] /\ d \in 0..n
  BY <1>1, <1>5, <1>6, <1>7, <1>8
<1>10. CASE d = e
  BY <1>5, <1>6, <1>9, <1>10
<1>11. CASE d < e
  <2>1. 2 * g[d] <= g[e]
    BY <1>1, <1>4, <1>6, <1>9, <1>11, DoublesGrow
  <2> QED BY <1>5, <1>6, <1>9, <2>1
<1> QED BY <1>8, <1>10, <1>11

----------------------------------------------------------------------------
(* One rounding.                                                           *)

(* The nearest number is a multiple of the weight, at most half of it away *)
(* and, where the weight is not one, at least half of what fits.           *)
LEMMA NearestIs ==
  ASSUME NEW n \in Nat
  PROVE  \E q \in Nat :
           /\ Nearest(n) = q * Ulp(n)
           /\ q <= Significands
           /\ Ulp(n) # 1 => Half <= q
           /\ q * Ulp(n) \in Nat
           /\ 2 * (n - q * Ulp(n)) <= Ulp(n) /\ 2 * (q * Ulp(n) - n) <= Ulp(n)
<1> DEFINE u == Ulp(n)
           p == n \div u
           r == n % u
<1>1. u \in Nat \ {0} /\ n < Significands * u /\ (u # 1 => Half * u <= n)
  BY UlpFits
<1>2. Nearest(n) = IF 2 * r > u \/ (2 * r = u /\ p % 2 = 1) THEN (p + 1) * u ELSE p * u
  BY DEF Nearest
<1> HIDE DEF u
<1>3. n = u * p + r /\ p \in Nat /\ r \in Nat /\ r < u
  BY <1>1
<1> HIDE DEF p, r
<1>4. p * u \in Nat /\ p * u = u * p /\ (p + 1) * u = p * u + u
  BY <1>1, <1>3
<1>5. Significands \in Nat /\ Half \in Nat
  BY SignificandsAssumption, SignificandsAreEven
<1>6. p < Significands
  <2> SUFFICES ASSUME Significands <= p PROVE FALSE
    BY <1>3, <1>5
  <2>1. Significands * u <= p * u
    BY <1>1, <1>3, <1>5, ProductsOrdered
  <2>2. Significands * u \in Int
    BY <1>1, <1>5
  <2> QED BY <1>1, <1>3, <1>4, <2>1, <2>2
<1>7. u # 1 => Half <= p
  <2> SUFFICES ASSUME u # 1, p + 1 <= Half PROVE FALSE
    BY <1>3, <1>5
  <2>1. (p + 1) * u <= Half * u
    BY <1>1, <1>3, <1>5, ProductsOrdered
  <2>2. Half * u \in Int
    BY <1>1, <1>5
  <2> QED BY <1>1, <1>3, <1>4, <2>1, <2>2
<1>8. CASE 2 * r > u \/ (2 * r = u /\ p % 2 = 1)
  <2> DEFINE q == p + 1
  <2>1. q \in Nat /\ Nearest(n) = q * u /\ q <= Significands /\ (u # 1 => Half <= q)
    BY <1>2, <1>3, <1>5, <1>6, <1>7, <1>8
  <2>2. q * u = p * u + u
    BY <1>4
  <2> HIDE DEF q
  <2>3. q * u \in Nat /\ 2 * (n - q * u) <= u /\ 2 * (q * u - n) <= u
    <3>1. 2 * r >= u
      BY <1>1, <1>3, <1>8
    <3> QED BY <1>1, <1>3, <1>4, <2>2, <3>1
  <2> QED BY <2>1, <2>3 DEF u
<1>9. CASE ~(2 * r > u \/ (2 * r = u /\ p % 2 = 1))
  <2>1. Nearest(n) = p * u /\ p <= Significands
    BY <1>2, <1>3, <1>5, <1>6, <1>9
  <2>2. 2 * (n - p * u) <= u /\ 2 * (p * u - n) <= u
    BY <1>1, <1>3, <1>4, <1>9
  <2> QED BY <1>3, <1>4, <1>7, <2>1, <2>2 DEF u
<1> QED BY <1>8, <1>9

(* What is a multiple of its weight is not rounded.                        *)
LEMMA MultipleIsExact ==
  ASSUME NEW n \in Nat, NEW q \in Nat, n = q * Ulp(n)
  PROVE  Nearest(n) = n
<1> DEFINE u == Ulp(n)
<1>1. u \in Nat \ {0}
  BY UlpFits
<1> HIDE DEF u
<1>2. (q * u) \div u = q /\ (q * u) % u = 0 /\ ~(2 * 0 > u) /\ 2 * 0 # u
  BY <1>1
<1>3. n \div u = q /\ n % u = 0
  BY <1>2 DEF u
<1> QED BY <1>2, <1>3 DEF Nearest, u

(* Rounding once is enough.                                                *)
LEMMA NearestIsExact ==
  ASSUME NEW n \in Nat
  PROVE  Nearest(n) \in Nat /\ Nearest(Nearest(n)) = Nearest(n)
<1> DEFINE u == Ulp(n)
           v == Nearest(n)
           w == Ulp(v)
<1>1. u \in Nat \ {0}
  BY UlpFits
<1>2. PICK q \in Nat : v = q * u /\ q <= Significands /\ (u # 1 => Half <= q) /\ v \in Nat
  BY NearestIs
<1> HIDE DEF u, v
<1>3. w \in Nat \ {0} /\ v < Significands * w /\ (w # 1 => Half * w <= v)
  BY <1>2, UlpFits
<1>4. u = w \/ 2 * u <= w \/ 2 * w <= u
  BY <1>1, <1>2, UlpGrows DEF u
<1> HIDE DEF w
<1>5. Half \in Nat \ {0} /\ Significands \in Nat \ {0} /\ Significands = 2 * Half
  BY SignificandsAreEven, SignificandsAssumption
<1>6. v % w = 0 => \E k \in Nat : v = k * w
  <2>1. v = w * (v \div w) + (v % w) /\ v \div w \in Nat
    BY <1>2, <1>3
  <2>2. w * (v \div w) = (v \div w) * w
    BY <1>3, <2>1
  <2> DEFINE k == v \div w
  <2> HIDE DEF k
  <2>3. k \in Nat /\ w * k \in Int
    BY <1>3, <2>1 DEF k
  <2> QED BY <2>1, <2>2, <2>3 DEF k
<1>7. \E k \in Nat : v = k * w
  <2>1. CASE u = w
    BY <1>2, <2>1
  <2>2. CASE 2 * w <= u
    <3>1. u # 1
      BY <1>3, <2>2
    <3>2. Half * u <= q * u
      BY <1>1, <1>2, <1>5, <3>1, ProductsOrdered
    <3>3. (2 * w) * Half <= u * Half
      BY <1>1, <1>3, <1>5, <2>2, ProductsOrdered
    <3>4. (2 * w) * Half = Significands * w /\ u * Half = Half * u
      <4>1. (2 * w) * Half = (2 * Half) * w
        BY <1>3, <1>5
      <4> QED BY <1>1, <1>5, <4>1
    <3>5. Significands * w \in Int /\ Half * u \in Int
      BY <1>1, <1>3, <1>5
    <3> QED BY <1>2, <1>3, <3>2, <3>3, <3>4, <3>5
  <2>3. CASE 2 * u <= w
    <3>1. w # 1
      BY <1>1, <2>3
    <3>2. q * u <= Significands * u
      BY <1>1, <1>2, <1>5, ProductsOrdered
    <3>3. Significands * u = Half * (2 * u)
      BY <1>1, <1>5
    <3>4. w * Half <= (2 * u) * Half
      <4>1. Half * w <= Half * (2 * u)
        <5>1. Half * w \in Int /\ Half * (2 * u) \in Int
          BY <1>1, <1>3, <1>5
        <5> QED BY <1>2, <1>3, <3>1, <3>2, <3>3, <5>1
      <4>2. Half * w = w * Half /\ Half * (2 * u) = (2 * u) * Half
        BY <1>1, <1>3, <1>5
      <4> QED BY <4>1, <4>2
    <3>5. w <= 2 * u
      <4>1. 2 * u \in Int /\ Half \in Nat /\ Half > 0
        BY <1>1, <1>5
      <4> QED BY <1>3, <3>4, <4>1, ProductsCancel
    <3>6. w = 2 * u
      BY <1>1, <1>3, <2>3, <3>5
    <3>7. v = Half * w
      <4>1. Half * w = Half * (2 * u) /\ Half * w \in Int /\ q * u \in Int
        BY <1>1, <1>2, <1>3, <1>5, <3>6
      <4> QED BY <1>2, <1>3, <3>1, <3>2, <3>3, <4>1
    <3> QED BY <1>5, <3>7
  <2> QED BY <1>4, <2>1, <2>2, <2>3
<1>8. Nearest(v) = v
  BY <1>2, <1>7, MultipleIsExact DEF w
<1> QED BY <1>2, <1>8 DEF v

(* The weight of a number that rounds to something not above another is at *)
(* most that of the other.                                                 *)
LEMMA UlpBelow ==
  ASSUME NEW x \in Nat, NEW y \in Nat, Nearest(x) <= y
  PROVE  Ulp(x) <= Ulp(y)
<1> DEFINE u == Ulp(x)
           w == Ulp(y)
<1>1. u \in Nat \ {0} /\ w \in Nat \ {0} /\ y < Significands * w
  BY UlpFits
<1>2. u = w \/ 2 * u <= w \/ 2 * w <= u
  BY UlpGrows
<1>3. PICK q \in Nat : Nearest(x) = q * u /\ (u # 1 => Half <= q)
  BY NearestIs
<1> HIDE DEF u, w
<1>4. Half \in Nat \ {0} /\ Significands \in Nat \ {0} /\ Significands = 2 * Half
  BY SignificandsAreEven, SignificandsAssumption
<1>5. ~(2 * w <= u)
  <2> SUFFICES ASSUME 2 * w <= u PROVE FALSE
    OBVIOUS
  <2>1. u # 1
    BY <1>1
  <2>2. Half * u <= q * u
    BY <1>1, <1>3, <1>4, <2>1, ProductsOrdered
  <2>3. (2 * w) * Half <= u * Half
    BY <1>1, <1>4, ProductsOrdered
  <2>4. (2 * w) * Half = Significands * w /\ u * Half = Half * u
    <3>1. (2 * w) * Half = (2 * Half) * w
      BY <1>1, <1>4
    <3> QED BY <1>1, <1>4, <3>1
  <2>5. Significands * w \in Int /\ Half * u \in Int /\ q * u \in Int
    BY <1>1, <1>3, <1>4
  <2> QED BY <1>1, <1>3, <2>2, <2>3, <2>4, <2>5
<1>6. u <= w
  BY <1>1, <1>2, <1>5
<1> QED BY <1>6 DEF u, w

(* Rounding keeps the order.                                               *)
LEMMA NearestKeepsOrder ==
  ASSUME NEW x \in Nat, NEW y \in Nat, x <= y
  PROVE  Nearest(x) <= Nearest(y)
<1> DEFINE u == Ulp(x)
           w == Ulp(y)
<1>1. u \in Nat \ {0} /\ w \in Nat \ {0}
  BY UlpFits
<1>2. u = w \/ 2 * u <= w
  BY UlpGrows
<1>3. CASE 2 * u <= w
  <2>1. PICK p \in Nat : Nearest(x) = p * u /\ p <= Significands
    BY NearestIs
  <2>2. PICK q \in Nat : Nearest(y) = q * w /\ (w # 1 => Half <= q)
    BY NearestIs
  <2> HIDE DEF u, w
  <2>3. Half \in Nat \ {0} /\ Significands \in Nat \ {0} /\ Significands = 2 * Half
    BY SignificandsAreEven, SignificandsAssumption
  <2>4. w # 1
    BY <1>1, <1>3
  <2>5. p * u <= Significands * u /\ Half * w <= q * w /\ (2 * u) * Half <= w * Half
    BY <1>1, <1>3, <2>1, <2>2, <2>3, <2>4, ProductsOrdered
  <2>6. (2 * u) * Half = Significands * u /\ w * Half = Half * w
    <3>1. (2 * u) * Half = (2 * Half) * u
      BY <1>1, <2>3
    <3> QED BY <1>1, <2>3, <3>1
  <2>7. p * u \in Int /\ q * w \in Int /\ Significands * u \in Int /\ Half * w \in Int
    BY <1>1, <2>1, <2>2, <2>3
  <2> QED BY <2>1, <2>2, <2>5, <2>6, <2>7
<1>4. CASE u = w
  <2> DEFINE p == x \div u
             r == x % u
             q == y \div u
             s == y % u
             up(n, k) == 2 * k > u \/ (2 * k = u /\ n % 2 = 1)
  <2>1. /\ Nearest(x) = IF up(p, r) THEN (p + 1) * u ELSE p * u
        /\ Nearest(y) = IF up(q, s) THEN (q + 1) * u ELSE q * u
    BY <1>4 DEF Nearest
  <2> HIDE DEF u
  <2>2. /\ x = u * p + r /\ p \in Nat /\ r \in Nat /\ r < u
        /\ y = u * q + s /\ q \in Nat /\ s \in Nat /\ s < u
    BY <1>1
  <2> HIDE DEF p, q, r, s
  <2>3. /\ p * u \in Nat /\ p * u = u * p /\ (p + 1) * u = p * u + u
        /\ q * u \in Nat /\ q * u = u * q /\ (q + 1) * u = q * u + u
    BY <1>1, <2>2
  <2>4. p <= q
    <3> SUFFICES ASSUME q + 1 <= p PROVE FALSE
      BY <2>2
    <3>1. (q + 1) * u <= p * u
      BY <1>1, <2>2, ProductsOrdered
    <3> QED BY <1>1, <2>2, <2>3, <3>1
  <2>5. CASE p = q
    <3>1. r <= s
      BY <2>2, <2>3, <2>5
    <3>2. up(p, r) => up(q, s)
      BY <1>1, <2>2, <2>5, <3>1
    <3> HIDE DEF up
    <3> QED BY <1>1, <2>1, <2>3, <2>5, <3>2
  <2>6. CASE p + 1 <= q
    <3>1. (p + 1) * u <= q * u
      BY <1>1, <2>2, <2>6, ProductsOrdered
    <3> HIDE DEF up
    <3> QED BY <1>1, <2>1, <2>3, <3>1
  <2> QED BY <2>2, <2>4, <2>5, <2>6
<1> QED BY <1>2, <1>3, <1>4

LEMMA NearestNothing == Nearest(0) = 0
<1>1. Ulp(0) \in Nat \ {0}
  BY UlpFits
<1>2. 0 = 0 * Ulp(0)
  BY <1>1
<1> QED BY <1>2, MultipleIsExact

Size(x) == IF x < 0 THEN -x ELSE x

(* An operation is off by at most half the weight of what it rounds, keeps *)
(* the order, and does so in the same way on both sides of zero.           *)
LEMMA RoundedIs ==
  ASSUME NEW x \in Int
  PROVE  /\ Rounded(x) \in Int
         /\ 2 * (Rounded(x) - x) <= Ulp(Size(x)) /\ 2 * (x - Rounded(x)) <= Ulp(Size(x))
         /\ Size(x) \in Nat /\ Ulp(Size(x)) \in Nat
         /\ x >= 0 => Rounded(x) = Nearest(x) /\ Rounded(x) \in Nat
         /\ x < 0 => Rounded(x) = -Nearest(-x)
         /\ x <= 0 => Rounded(x) = -Nearest(-x) /\ Rounded(x) <= 0
<1>1. CASE x < 0
  <2>1. -x \in Nat /\ Size(x) = -x /\ Rounded(x) = -Nearest(-x)
    BY <1>1 DEF Size, Rounded
  <2>2. PICK q \in Nat :
           /\ Nearest(-x) = q * Ulp(-x)
           /\ q * Ulp(-x) \in Nat
           /\ 2 * ((-x) - q * Ulp(-x)) <= Ulp(-x) /\ 2 * (q * Ulp(-x) - (-x)) <= Ulp(-x)
    BY <2>1, NearestIs
  <2>3. Ulp(-x) \in Nat
    BY <2>1, UlpFits
  <2> DEFINE u == Ulp(-x)
             v == q * u
  <2>4. v \in Nat /\ u \in Nat /\ 2 * ((-x) - v) <= u /\ 2 * (v - (-x)) <= u /\ Rounded(x) = -v /\ Size(x) = -x
    BY <2>1, <2>2, <2>3
  <2>5. Ulp(Size(x)) = u
    BY <2>1
  <2> HIDE DEF u, v
  <2> QED BY <1>1, <2>1, <2>4, <2>5
<1>2. CASE x >= 0
  <2>1. x \in Nat /\ Size(x) = x /\ Rounded(x) = Nearest(x)
    BY <1>2 DEF Size, Rounded
  <2>2. PICK q \in Nat :
           /\ Nearest(x) = q * Ulp(x)
           /\ q * Ulp(x) \in Nat
           /\ 2 * (x - q * Ulp(x)) <= Ulp(x) /\ 2 * (q * Ulp(x) - x) <= Ulp(x)
    BY <2>1, NearestIs
  <2>3. Ulp(x) \in Nat
    BY <2>1, UlpFits
  <2>4. x = 0 => Nearest(-x) = 0 /\ Nearest(x) = 0
    BY NearestNothing
  <2> QED BY <1>2, <2>1, <2>2, <2>3, <2>4
<1> QED BY <1>1, <1>2

LEMMA RoundedKeepsOrder ==
  ASSUME NEW x \in Int, NEW y \in Int, x <= y
  PROVE  Rounded(x) <= Rounded(y)
<1>1. CASE x >= 0
  <2>1. x \in Nat /\ y \in Nat
    BY <1>1
  <2>2. Rounded(x) = Nearest(x) /\ Rounded(y) = Nearest(y)
    BY <1>1, RoundedIs
  <2> QED BY <2>1, <2>2, NearestKeepsOrder
<1>2. CASE y <= 0
  <2>1. -x \in Nat /\ -y \in Nat /\ -y <= -x
    BY <1>2
  <2>2. Rounded(x) = -Nearest(-x) /\ Rounded(y) = -Nearest(-y)
    BY <1>2, RoundedIs
  <2>3. Nearest(-y) <= Nearest(-x) /\ Nearest(-y) \in Nat /\ Nearest(-x) \in Nat
    BY <2>1, NearestKeepsOrder, NearestIsExact
  <2> QED BY <2>2, <2>3
<1>3. CASE x < 0 /\ y >= 0
  <2>1. Rounded(x) <= 0 /\ Rounded(x) \in Int /\ Rounded(y) \in Nat
    BY <1>3, RoundedIs
  <2> QED BY <2>1
<1> QED BY <1>1, <1>2, <1>3

----------------------------------------------------------------------------
(* The inductive invariant of the order.                                   *)

RoundingTypeOK ==
  /\ stage \in {"idle", "counting", "sweeping", "adding", "paying", "done"}
  /\ asked \in Nat /\ Rounded(asked) = asked
  /\ offers \in Seq(Nat) /\ Len(offers) <= Len(Quotes)
  /\ next \in Nat \ {0}
  /\ available \in Nat /\ left \in Nat /\ need \in Nat
  /\ taken \in Seq(Nat) /\ Len(taken) <= Len(offers)
  /\ purse \in Int
  /\ at_first \in Nat /\ Rounded(at_first) = at_first

\* What the first k levels offer, exactly; and twice what at most k
\* operations on numbers up to n may be off.
Offered(k) == Running(offers)[k]
Slack(n, k) == k * Ulp(n)

\* What was counted exceeds what is offered by no more than its roundings.
Counted ==
  /\ next <= Len(offers) + 1 /\ Len(offers) > 0 /\ taken = << >>
  /\ available < asked => 2 * (available - Offered(next - 1)) <= Slack(asked, next - 1)
  /\ available >= asked => 2 * (asked - Offered(next - 1)) <= Slack(asked, next - 1)

\* The levels hold what was asked for, up to the roundings of the count.
Enough == 2 * (asked - Offered(Len(offers))) <= Slack(asked, Len(offers))

\* What was taken and what is left make up the order, up to the roundings;
\* as long as something is left, every level was taken whole.
Swept ==
  /\ next = Len(taken) + 1 /\ Len(offers) > 0
  /\ left <= asked
  /\ 2 * ((asked - Total(taken)) - left) <= Slack(asked, Len(taken))
  /\ 2 * (left - (asked - Total(taken))) <= Slack(asked, Len(taken))
  /\ left > 0 => \A k \in 1..Len(taken) : taken[k] = offers[k]

\* The sum of the first k payments as can_buy adds them up, and exactly.
Payments == [k \in 1..Len(taken) |-> Payment(k)]
Needs == LET needs[k \in 0..Len(taken)] == IF k = 0 THEN 0 ELSE Rounded(needs[k-1] + Payment(k))
         IN  needs
Due(k) == Running(Payments)[k]

Summed == need = Needs[next - 1] /\ next <= Len(taken) + 1 /\ purse = at_first

\* What is left of the cash is not less than what the payments left exactly,
\* up to the roundings, nor below zero by more than can_buy added up.
PaidFor ==
  /\ next <= Len(taken) + 1
  /\ Needs[Len(taken)] <= at_first
  /\ -Needs[next - 1] <= purse /\ purse <= at_first
  /\ 2 * ((at_first - Due(next - 1)) - purse) <= Slack(at_first, next - 1)

RoundingInv ==
  /\ RoundingTypeOK
  /\ stage \in {"idle", "counting"} => need = 0 /\ purse = 0 /\ at_first = 0
  /\ stage = "idle" => next = 1 /\ available = 0 /\ taken = << >>
  /\ stage = "counting" => Counted
  /\ stage = "sweeping" => Enough /\ Swept /\ need = 0 /\ purse = 0 /\ at_first = 0
  /\ stage = "adding" => Summed
  /\ stage = "paying" => PaidFor
  /\ AllButRounding
  /\ OverdraftIsRounding

LEMMA Slacks ==
  ASSUME NEW n \in Nat, NEW k \in Nat
  PROVE  /\ Slack(n, k) \in Nat /\ Ulp(n) \in Nat \ {0}
         /\ Slack(n, 0) = 0
         /\ Slack(n, k + 1) = Slack(n, k) + Ulp(n)
         /\ \A j \in Nat : k <= j => Slack(n, k) <= Slack(n, j)
<1> DEFINE u == Ulp(n)
<1>1. u \in Nat \ {0}
  BY UlpFits
<1>2. Slack(n, k) = k * u /\ Slack(n, 0) = 0 * u /\ Slack(n, k + 1) = (k + 1) * u
      /\ \A j \in Nat : Slack(n, j) = j * u
  BY DEF Slack
<1> HIDE DEF u
<1>3. k * u \in Nat /\ 0 * u = 0 /\ (k + 1) * u = k * u + u
  BY <1>1
<1>4. ASSUME NEW j \in Nat, k <= j PROVE k * u <= j * u
  BY <1>1, <1>4, ProductsOrdered
<1> QED BY <1>1, <1>2, <1>3, <1>4 DEF u

LEMMA OfNothingLess ==
  ASSUME NEW x \in Nat
  PROVE  /\ Rounded(x) = Nearest(x) /\ Rounded(x) \in Nat /\ Rounded(Rounded(x)) = Rounded(x)
         /\ 2 * (Rounded(x) - x) <= Ulp(x) /\ 2 * (x - Rounded(x)) <= Ulp(x)
<1>1. x \in Int /\ x >= 0 /\ ~(x < 0)
  OBVIOUS
<1>2. Size(x) = x
  BY <1>1 DEF Size
<1>3. /\ Rounded(x) = Nearest(x) /\ Rounded(x) \in Nat
      /\ 2 * (Rounded(x) - x) <= Ulp(Size(x)) /\ 2 * (x - Rounded(x)) <= Ulp(Size(x))
  BY <1>1, RoundedIs
<1>4. Nearest(Nearest(x)) = Nearest(x)
  BY NearestIsExact
<1>5. Rounded(Nearest(x)) = Nearest(Nearest(x))
  <2> DEFINE y == Nearest(x)
  <2>1. y \in Int /\ y >= 0
    BY <1>3
  <2> HIDE DEF y
  <2>2. Rounded(y) = Nearest(y)
    BY <2>1, RoundedIs
  <2> QED BY <2>2 DEF y
<1> QED BY <1>2, <1>3, <1>4, <1>5

(* Whether a sum reaches a number decides how far the exact sum may be     *)
(* below the number, or below what it was rounded to.                      *)
LEMMA RoundedUpTo ==
  ASSUME NEW x \in Nat, NEW y \in Nat, Rounded(y) = y
  PROVE  /\ Rounded(x) \in Nat
         /\ Rounded(x) <= y => 2 * (Rounded(x) - x) <= Ulp(y)
         /\ Rounded(x) >= y => 2 * (y - x) <= Ulp(y)
         /\ Rounded(x) <= y => 2 * (x - Rounded(x)) <= Ulp(y)
<1>1. /\ Rounded(x) = Nearest(x) /\ Rounded(x) \in Nat
      /\ 2 * (Rounded(x) - x) <= Ulp(x) /\ 2 * (x - Rounded(x)) <= Ulp(x)
  BY OfNothingLess
<1>2. Ulp(x) \in Nat /\ Ulp(y) \in Nat
  BY UlpFits
<1>3. Rounded(x) <= y => Ulp(x) <= Ulp(y)
  BY <1>1, UlpBelow
<1>4. x <= y => Rounded(x) <= y
  BY RoundedKeepsOrder
<1> QED BY <1>1, <1>2, <1>3, <1>4

(* What never falls from one index to the next is between its ends.        *)
LEMMA RisesTo ==
  ASSUME NEW n \in Nat, NEW f \in [0..n -> Int], \A i \in 1..n : f[i-1] <= f[i]
  PROVE  \A k \in 0..n : f[0] <= f[k] /\ f[k] <= f[n] /\ f[k] \in Int
<1> DEFINE S == {k \in Nat : k <= n => f[0] <= f[k] /\ \A i \in 0..n : i <= k => f[i] <= f[k]}
<1>1. 0 \in S
  OBVIOUS
<1>2. ASSUME NEW k \in S PROVE k + 1 \in S
  <2>1. k \in Nat
    OBVIOUS
  <2>2. CASE k + 1 <= n
    <3>1. k + 1 \in 1..n /\ (k + 1) - 1 = k /\ k \in 0..n /\ k + 1 \in 0..n /\ 0 \in 0..n
      BY <2>1, <2>2
    <3>2. f[k] <= f[k+1] /\ f[0] <= f[k] /\ (\A i \in 0..n : i <= k => f[i] <= f[k])
          /\ f[k] \in Int /\ f[k+1] \in Int /\ f[0] \in Int
      BY <1>2, <2>1, <3>1
    <3>3. ASSUME NEW i \in 0..n, i <= k + 1 PROVE f[i] <= f[k+1]
      <4>1. f[i] \in Int /\ (i = k + 1 \/ i <= k)
        BY <2>1, <3>3
      <4> QED BY <3>2, <4>1
    <3>4. f[0] <= f[k+1]
      BY <3>2
    <3> QED BY <2>1, <3>3, <3>4
  <2> QED BY <2>1, <2>2
<1>3. S = Nat
  <2> HIDE DEF S
  <2> QED BY <1>1, <1>2, NatSetInduction, S \subseteq Nat DEF S
<1>4. n \in S
  BY <1>3
<1>5. \A i \in 0..n : f[i] <= f[n]
  BY <1>4
<1> TAKE k \in 0..n
<1>6. k \in Nat /\ k <= n
  OBVIOUS
<1> HIDE DEF S
<1>7. k \in S
  BY <1>3, <1>6
<1> QED BY <1>5, <1>6, <1>7 DEF S

(* The exact sums of the first levels.                                     *)
LEMMA OfferedIs ==
  ASSUME offers \in Seq(Nat)
  PROVE  /\ Offered(0) = 0
         /\ \A k \in 1..Len(offers) : Offered(k) = Offered(k - 1) + offers[k]
         /\ \A k \in 0..Len(offers) : Offered(k) \in Nat
         /\ \A k \in 0..Len(offers) : Offered(k) <= Offered(Len(offers))
         /\ Offered(Len(offers)) = Total(offers)
<1> DEFINE n == Len(offers)
           r == Running(offers)
<1>1. n \in Nat /\ offers \in Seq(Int) /\ \A k \in 1..n : offers[k] \in Nat
  OBVIOUS
<1>2. r \in [0..n -> Int] /\ r[0] = 0 /\ \A k \in 1..n : r[k] = r[k-1] + offers[k]
  BY <1>1, RunningStep DEF RunUpTo
<1>3. \A k \in Nat : Offered(k) = r[k]
  BY DEF Offered
<1>4. r[n] = Total(offers)
  BY DEF Total
<1> HIDE DEF r
<1>5. \A k \in 1..n : r[k-1] <= r[k]
  <2> TAKE k \in 1..n
  <2>1. k - 1 \in 0..n
    BY <1>1
  <2>2. r[k-1] \in Int /\ offers[k] \in Nat /\ r[k] = r[k-1] + offers[k]
    BY <1>1, <1>2, <2>1
  <2> QED BY <2>2
<1>6. \A k \in 0..n : r[0] <= r[k] /\ r[k] <= r[n] /\ r[k] \in Int
  BY <1>1, <1>2, <1>5, RisesTo
<1>7. n \in 0..n /\ \A k \in 1..n : k - 1 \in Nat
  BY <1>1
<1> HIDE DEF n
<1>8. ASSUME NEW k \in 0..n PROVE Offered(k) \in Nat /\ Offered(k) <= Offered(n)
  <2>1. k \in Nat /\ n \in Nat
    BY <1>1
  <2> QED BY <1>2, <1>3, <1>6, <2>1
<1>9. \A k \in 1..n : Offered(k) = Offered(k - 1) + offers[k]
  BY <1>2, <1>3, <1>7
<1>10. Offered(0) = 0 /\ Offered(n) = Total(offers)
  BY <1>1, <1>2, <1>3, <1>4
<1> QED BY <1>8, <1>9, <1>10 DEF n

(* Payments are rounded already.                                           *)
LEMMA PaymentIsRounded ==
  ASSUME RoundingTypeOK, NEW k \in 1..Len(taken)
  PROVE  Payment(k) \in Nat /\ Rounded(Payment(k)) = Payment(k)
<1>1. taken[k] \in Nat /\ k \in 1..Len(Quotes)
  BY QuotesAssumption DEF RoundingTypeOK
<1>2. Quotes[k] \in Nat
  BY <1>1, QuotesAssumption
<1> DEFINE c == taken[k] * Quotes[k]
<1>3. c \in Nat
  BY <1>1, <1>2, ProductNat
<1>4. Payment(k) = Rounded(c)
  BY DEF Payment
<1> HIDE DEF c
<1> QED BY <1>3, <1>4, OfNothingLess

IsNeeds(f) == f = [k \in 0..Len(taken) |-> IF k = 0 THEN 0 ELSE Rounded(f[k-1] + Payment(k))]

LEMMA NeedsIsChoice == Needs = CHOOSE f : IsNeeds(f)
BY DEF Needs, IsNeeds

LEMMA NeedsAddUp ==
  ASSUME RoundingTypeOK
  PROVE  /\ Needs \in [0..Len(taken) -> Nat]
         /\ Needs[0] = 0
         /\ \A k \in 1..Len(taken) : Needs[k] = Rounded(Needs[k-1] + Payment(k))
<1> DEFINE n == Len(taken)
           step == [k \in 1..n |-> [a \in Nat |-> Rounded(a + Payment(k))]]
<1>1. n \in Nat
  BY DEF RoundingTypeOK
<1>2. PICK f : Iterates(f, n, Nat, 0, step)
  <2>1. ASSUME NEW k \in 1..n, NEW a \in Nat PROVE Rounded(a + Payment(k)) \in Nat
    <3>1. a + Payment(k) \in Nat
      BY PaymentIsRounded
    <3> QED BY <3>1, RoundedIs
  <2>2. step \in [1..n -> [Nat -> Nat]] /\ 0 \in Nat
    BY <2>1
  <2> HIDE DEF step, n
  <2> QED BY <1>1, <2>2, RecursionExists
<1>3. /\ f \in [0..n -> Nat] /\ f[0] = 0
      /\ \A k \in 1..n : f[k] = Rounded(f[k-1] + Payment(k))
  <2>1. ASSUME NEW k \in 1..n PROVE f[k] = Rounded(f[k-1] + Payment(k))
    <3>1. k - 1 \in 0..n
      BY <1>1
    <3>2. f[k] = step[k][f[k-1]] /\ f[k-1] \in Nat
      BY <1>2, <3>1 DEF Iterates
    <3> QED BY <3>2
  <2> QED BY <1>2, <2>1 DEF Iterates
<1>4. IsNeeds(f)
  <2>1. \A k \in 0..n : f[k] = IF k = 0 THEN 0 ELSE Rounded(f[k-1] + Payment(k))
    BY <1>1, <1>3
  <2>2. f = [k \in 0..n |-> f[k]]
    BY <1>3
  <2> QED BY <2>1, <2>2 DEF IsNeeds
<1> DEFINE g == Needs
<1>5. IsNeeds(g)
  BY <1>4, NeedsIsChoice, Zenon
<1> HIDE DEF g
<1>6. /\ g = [k \in 0..n |-> g[k]]
      /\ \A k \in 0..n : g[k] = IF k = 0 THEN 0 ELSE Rounded(g[k-1] + Payment(k))
  BY <1>5 DEF IsNeeds
<1> DEFINE S == {k \in Nat : k <= n => f[k] = g[k]}
<1>7. 0 \in S
  <2>1. 0 \in 0..n
    BY <1>1
  <2>2. g[0] = 0
    BY <1>6, <2>1
  <2> QED BY <1>3, <2>2
<1>8. ASSUME NEW k \in S PROVE k + 1 \in S
  <2>1. k \in Nat
    OBVIOUS
  <2>2. CASE k + 1 <= n
    <3>1. k + 1 \in 1..n /\ k + 1 \in 0..n /\ (k + 1) - 1 = k /\ k + 1 # 0
      BY <1>1, <2>1, <2>2
    <3>2. f[k] = g[k]
      BY <1>1, <1>8, <2>1, <2>2
    <3>3. f[k+1] = Rounded(f[k] + Payment(k+1))
      BY <1>3, <3>1
    <3>4. g[k+1] = Rounded(g[k] + Payment(k+1))
      BY <1>6, <3>1
    <3> QED BY <2>1, <3>2, <3>3, <3>4
  <2> QED BY <2>1, <2>2
<1>9. S = Nat
  <2> HIDE DEF S
  <2> QED BY <1>7, <1>8, NatSetInduction, S \subseteq Nat DEF S
<1>10. f = g
  <2>1. \A k \in 0..n : f[k] = g[k]
    BY <1>9
  <2> QED BY <1>3, <1>6, <2>1
<1> QED BY <1>3, <1>10 DEF g

(* The sums of can_buy never fall.                                         *)
LEMMA NeedsGrow ==
  ASSUME RoundingTypeOK, NEW k \in 0..Len(taken)
  PROVE  Needs[k] \in Nat /\ Needs[k] <= Needs[Len(taken)]
<1> DEFINE n == Len(taken)
           f == Needs
<1>1. n \in Nat
  BY DEF RoundingTypeOK
<1>2. /\ f \in [0..n -> Nat] /\ f[0] = 0
      /\ \A i \in 1..n : f[i] = Rounded(f[i-1] + Payment(i))
  BY NeedsAddUp
<1>3. \A i \in 1..n : Payment(i) \in Nat
  BY PaymentIsRounded
<1> HIDE DEF f, n
<1>4. \A i \in 0..n : Rounded(f[i]) = f[i]
  <2> TAKE i \in 0..n
  <2>1. CASE i = 0
    BY <1>2, <2>1, NearestNothing, OfNothingLess
  <2>2. CASE i # 0
    <3>1. i \in 1..n /\ i - 1 \in 0..n
      BY <1>1, <2>2
    <3> DEFINE x == f[i-1] + Payment(i)
    <3>2. x \in Nat
      BY <1>2, <1>3, <3>1
    <3>3. f[i] = Rounded(x)
      BY <1>2, <3>1
    <3> HIDE DEF x
    <3> QED BY <3>2, <3>3, OfNothingLess
  <2> QED BY <2>1, <2>2
<1>5. \A i \in 1..n : f[i-1] <= f[i]
  <2> TAKE i \in 1..n
  <2>1. i - 1 \in 0..n
    BY <1>1
  <2>2. f[i-1] \in Nat /\ Payment(i) \in Nat /\ f[i] = Rounded(f[i-1] + Payment(i)) /\ Rounded(f[i-1]) = f[i-1]
    BY <1>2, <1>3, <1>4, <2>1
  <2> DEFINE x == f[i-1]
             y == f[i-1] + Payment(i)
  <2>3. x \in Int /\ y \in Int /\ x <= y
    BY <2>2
  <2>4. Rounded(x) <= Rounded(y)
    <3> HIDE DEF x, y
    <3> QED BY <2>3, RoundedKeepsOrder
  <2> QED BY <2>2, <2>4
<1>6. k \in 0..n
  BY DEF n
<1>7. f[k] \in Nat /\ f[k] <= f[n]
  <2>1. f \in [0..n -> Int]
    BY <1>2
  <2> QED BY <1>1, <1>2, <1>5, <1>6, <2>1, RisesTo
<1> QED BY <1>7 DEF f, n

LEMMA DueIs ==
  ASSUME RoundingTypeOK
  PROVE  /\ Due(0) = 0
         /\ \A k \in 1..Len(taken) : Due(k) = Due(k - 1) + Payment(k)
         /\ \A k \in 0..Len(taken) : Due(k) \in Int
<1>1. Len(taken) \in Nat
  BY DEF RoundingTypeOK
<1>2. /\ Payments \in Seq(Int) /\ Len(Payments) = Len(taken)
      /\ \A k \in 1..Len(taken) : Payments[k] = Payment(k)
  <2>1. \A k \in 1..Len(taken) : Payment(k) \in Int
    BY PaymentIsRounded
  <2>2. Payments \in [1..Len(taken) -> Int] /\ \A k \in 1..Len(taken) : Payments[k] = Payment(k)
    BY <2>1 DEF Payments
  <2> QED BY <1>1, <2>2
<1> DEFINE r == Running(Payments)
<1>3. RunUpTo(r, Payments, Len(Payments))
  BY <1>2, RunningStep
<1> HIDE DEF r
<1>4. r \in [0..Len(taken) -> Int] /\ r[0] = 0 /\ \A k \in 1..Len(taken) : r[k] = r[k-1] + Payment(k)
  BY <1>2, <1>3 DEF RunUpTo
<1>5. \A k : Due(k) = r[k]
  BY DEF Due, r
<1> QED BY <1>1, <1>4, <1>5

(* If the cash covers what can_buy added up, the exact payments exceed     *)
(* that by the roundings of all sums but the first.                        *)
LEMMA NeedsAreDue ==
  ASSUME RoundingTypeOK, Needs[Len(taken)] <= at_first, NEW k \in 1..Len(taken)
  PROVE  2 * (Due(k) - Needs[k]) <= Slack(at_first, k - 1)
<1> DEFINE n == Len(taken)
           f == Needs
           S == {j \in Nat : j + 1 <= n => 2 * (Due(j + 1) - f[j + 1]) <= Slack(at_first, j)}
<1>1. n \in Nat /\ at_first \in Nat /\ Rounded(at_first) = at_first
  BY DEF RoundingTypeOK
<1>2. /\ f \in [0..n -> Nat] /\ f[0] = 0
      /\ \A i \in 1..n : f[i] = Rounded(f[i-1] + Payment(i))
  BY NeedsAddUp
<1>3. \A i \in 1..n : Payment(i) \in Nat /\ Rounded(Payment(i)) = Payment(i)
  BY PaymentIsRounded
<1>4. \A i \in 0..n : f[i] \in Nat /\ f[i] <= at_first
  <2> TAKE i \in 0..n
  <2>1. f[i] \in Nat /\ f[i] <= f[n] /\ f[n] \in Nat /\ f[n] <= at_first
    <3>1. n \in 0..n
      BY <1>1
    <3> QED BY <1>2, <3>1, NeedsGrow
  <2> QED BY <1>1, <2>1
<1>5. Due(0) = 0 /\ (\A i \in 1..n : Due(i) = Due(i - 1) + Payment(i)) /\ \A i \in 0..n : Due(i) \in Int
  BY DueIs
<1> HIDE DEF f, n
<1>6. 0 \in S
  <2>1. CASE 1 <= n
    <3>1. 1 \in 1..n /\ 0 + 1 = 1 /\ 1 - 1 = 0
      BY <1>1, <2>1
    <3>2. Due(1) = Payment(1) /\ f[1] = Payment(1) /\ Payment(1) \in Nat
      <4>1. Due(1) = Due(0) + Payment(1) /\ f[1] = Rounded(f[0] + Payment(1)) /\ Payment(1) \in Nat
            /\ Rounded(Payment(1)) = Payment(1)
        BY <1>2, <1>3, <1>5, <3>1
      <4>2. 0 + Payment(1) = Payment(1)
        BY <4>1
      <4> QED BY <1>2, <1>5, <4>1, <4>2
    <3>3. Slack(at_first, 0) \in Nat
      BY <1>1, Slacks
    <3> QED BY <3>1, <3>2, <3>3
  <2> QED BY <1>1, <2>1
<1>7. ASSUME NEW j \in S PROVE j + 1 \in S
  <2>1. j \in Nat
    OBVIOUS
  <2>2. CASE (j + 1) + 1 <= n
    <3> DEFINE i == j + 1
    <3>1. i \in Nat /\ i \in 0..n /\ i + 1 \in 1..n /\ (i + 1) - 1 = i /\ i + 1 \in 0..n
      BY <1>1, <2>1, <2>2
    <3>2. 2 * (Due(i) - f[i]) <= Slack(at_first, j)
      BY <1>1, <1>7, <2>1, <2>2
    <3>3. Slack(at_first, i) = Slack(at_first, j) + Ulp(at_first) /\ Slack(at_first, j) \in Nat
          /\ Ulp(at_first) \in Nat
      BY <1>1, <2>1, Slacks
    <3> HIDE DEF i
    <3> DEFINE x == f[i] + Payment(i + 1)
    <3>4. x \in Nat /\ f[i] \in Nat /\ Payment(i + 1) \in Nat
      BY <1>3, <1>4, <3>1
    <3>5. f[i + 1] = Rounded(x) /\ Rounded(x) <= at_first
      BY <1>2, <1>4, <3>1
    <3>10. x - f[i] = Payment(i + 1)
      BY <3>4
    <3> HIDE DEF x
    <3>6. 2 * (x - Rounded(x)) <= Ulp(at_first) /\ Rounded(x) \in Nat
      BY <1>1, <3>4, <3>5, RoundedUpTo
    <3>7. Due(i + 1) = Due(i) + Payment(i + 1) /\ Due(i) \in Int
      BY <1>5, <3>1
    <3>8. Due(i + 1) - f[i + 1] = (Due(i) - f[i]) + (x - Rounded(x))
      BY <3>4, <3>5, <3>6, <3>7, <3>10
    <3>9. 2 * (Due(i + 1) - f[i + 1]) <= Slack(at_first, i)
      <4> DEFINE a == Due(i) - f[i]
                 b == x - Rounded(x)
      <4>1. a \in Int /\ b \in Int /\ 2 * a <= Slack(at_first, j) /\ 2 * b <= Ulp(at_first)
        BY <3>2, <3>4, <3>6, <3>7
      <4>2. Due(i + 1) - f[i + 1] = a + b
        BY <3>8
      <4> HIDE DEF a, b
      <4> QED BY <3>3, <4>1, <4>2
    <3> QED BY <2>1, <3>1, <3>9 DEF i
  <2> QED BY <1>1, <2>1, <2>2
<1>8. S = Nat
  <2> HIDE DEF S
  <2> QED BY <1>6, <1>7, NatSetInduction, S \subseteq Nat DEF S
<1> DEFINE m == k - 1
<1>9. k \in 1..n
  BY DEF n
<1>10. m \in S /\ m + 1 = k /\ m + 1 <= n
  BY <1>1, <1>8, <1>9
<1> HIDE DEF m
<1>11. 2 * (Due(m + 1) - f[m + 1]) <= Slack(at_first, m)
  BY <1>10
<1> QED BY <1>10, <1>11 DEF f, m

----------------------------------------------------------------------------
(* Every action preserves the invariant.                                   *)

(* The invariant holds of an order that has not begun.                     *)
LEMMA RoundingStarts == RoundingInit => RoundingInv
<1> SUFFICES ASSUME RoundingInit PROVE RoundingInv
  OBVIOUS
<1>1. Rounded(0) = 0
  BY OfNothingLess, NearestNothing
<1>2. RoundingTypeOK
  BY <1>1, QuotesAssumption DEF RoundingInit, RoundingTypeOK
<1>3. AllButRounding /\ OverdraftIsRounding
  BY DEF RoundingInit, AllButRounding, OverdraftIsRounding
<1> QED BY <1>2, <1>3 DEF RoundingInit, RoundingInv

LEMMA BeginOrderKeeps ==
  ASSUME RoundingInv, NEW amount \in Sizes, NEW n \in 1..Len(Quotes), NEW book \in [1..n -> Sizes],
         BeginOrder(amount, book)
  PROVE  RoundingInv'
<1>1. Sizes \subseteq Nat /\ Rounded(amount) = amount
  BY NumbersAssumption
<1>2. Len(Quotes) \in Nat /\ n \in Nat /\ n > 0 /\ n <= Len(Quotes)
  BY QuotesAssumption
<1>3. book \in Seq(Nat) /\ book \in Seq(Int) /\ Len(book) = n
  <2>1. book = [k \in 1..n |-> book[k]] /\ \A k \in 1..n : book[k] \in Nat
    BY <1>1
  <2> QED BY <1>2, <2>1
<1>4. RoundingTypeOK /\ stage = "idle" /\ next = 1 /\ available = 0 /\ taken = << >> /\ need = 0 /\ purse = 0
      /\ at_first = 0
  BY DEF RoundingInv, BeginOrder
<1>5. /\ asked' = amount /\ offers' = book /\ stage' = "counting"
      /\ next' = 1 /\ available' = 0 /\ taken' = << >> /\ need' = 0 /\ purse' = 0 /\ at_first' = 0
      /\ left' = left
  BY <1>4 DEF BeginOrder
<1>6. RoundingTypeOK'
  BY <1>1, <1>2, <1>3, <1>4, <1>5 DEF RoundingTypeOK
<1>7. Counted'
  <2>1. Running(book)[0] = 0
    BY <1>3, RunningStep DEF RunUpTo
  <2>2. Offered(next - 1)' = 0
    BY <1>5, <2>1 DEF Offered
  <2>3. Slack(amount, 0) \in Nat
    BY <1>1, Slacks
  <2>4. Slack(asked, next - 1)' \in Nat /\ asked' \in Nat
    BY <1>1, <1>5, <2>3
  <2>5. /\ available' < asked' => 2 * (available' - 0) <= Slack(asked, next - 1)'
        /\ available' >= asked' => 2 * (asked' - 0) <= Slack(asked, next - 1)'
    BY <1>5, <2>4
  <2>6. /\ available' < asked' => 2 * (available' - Offered(next - 1)') <= Slack(asked, next - 1)'
        /\ available' >= asked' => 2 * (asked' - Offered(next - 1)') <= Slack(asked, next - 1)'
    BY <2>2, <2>5
  <2>7. next' <= Len(offers') + 1 /\ Len(offers') > 0 /\ taken' = << >>
    BY <1>2, <1>3, <1>5
  <2> QED BY <2>6, <2>7 DEF Counted
<1>8. AllButRounding' /\ OverdraftIsRounding'
  BY <1>5 DEF AllButRounding, OverdraftIsRounding
<1> QED BY <1>5, <1>6, <1>7, <1>8 DEF RoundingInv

LEMMA CountLevelKeeps == ASSUME RoundingInv, CountLevel PROVE RoundingInv'
<1> DEFINE k == next - 1
           o == offers[next]
           x == available + o
<1>1. /\ RoundingTypeOK /\ Counted /\ stage = "counting" /\ need = 0 /\ purse = 0 /\ at_first = 0
      /\ next <= Len(offers) /\ available < asked
  BY DEF RoundingInv, CountLevel
<1>2. /\ available' = Rounded(x) /\ next' = next + 1
      /\ UNCHANGED <<stage, asked, offers, left, taken, need, purse, at_first>>
  BY DEF CountLevel
<1>3. /\ next \in 1..Len(offers) /\ k \in Nat /\ k \in 0..Len(offers) /\ k + 1 = next
      /\ asked \in Nat /\ Rounded(asked) = asked /\ available \in Nat /\ o \in Nat /\ x \in Nat
  BY <1>1 DEF RoundingTypeOK
<1>4. /\ Rounded(x) \in Nat
      /\ Rounded(x) <= asked => 2 * (Rounded(x) - x) <= Ulp(asked)
      /\ Rounded(x) >= asked => 2 * (asked - x) <= Ulp(asked)
  <2> HIDE DEF x
  <2> QED BY <1>3, RoundedUpTo
<1>5. RoundingTypeOK'
  BY <1>1, <1>2, <1>3, <1>4 DEF RoundingTypeOK
<1>6. Counted'
  <2> DEFINE a == Offered(k)
             z == Slack(asked, k)
             u == Ulp(asked)
             y == Rounded(x)
  <2>1. a \in Nat /\ Offered(next) = a + o
    BY <1>1, <1>3, OfferedIs DEF RoundingTypeOK
  <2>2. z \in Nat /\ u \in Nat /\ Slack(asked, next) = z + u
    BY <1>3, Slacks
  <2>3. 2 * (available - a) <= z
    BY <1>1 DEF Counted
  <2>4. (next - 1)' = next
    BY <1>2, <1>3
  <2>5. Offered(next - 1)' = a + o
    BY <1>2, <2>1, <2>4 DEF Offered
  <2>6. Slack(asked, next - 1)' = z + u
    BY <1>2, <2>2, <2>4
  <2>7. /\ y <= asked => 2 * (y - x) <= u
        /\ y >= asked => 2 * (asked - x) <= u
        /\ y \in Nat
    BY <1>4
  <2> HIDE DEF a, z, u, y, k, o
  <2>8. /\ y < asked => 2 * (y - (a + o)) <= z + u
        /\ y >= asked => 2 * (asked - (a + o)) <= z + u
    BY <1>3, <2>1, <2>2, <2>3, <2>7
  <2>9. /\ available' < asked' => 2 * (available' - Offered(next - 1)') <= Slack(asked, next - 1)'
        /\ available' >= asked' => 2 * (asked' - Offered(next - 1)') <= Slack(asked, next - 1)'
    BY <1>2, <2>5, <2>6, <2>8 DEF y
  <2>10. next' <= Len(offers') + 1 /\ Len(offers') > 0 /\ taken' = << >>
    BY <1>1, <1>2, <1>3 DEF Counted
  <2> QED BY <2>9, <2>10 DEF Counted
<1>7. AllButRounding' /\ OverdraftIsRounding'
  BY <1>1, <1>2 DEF AllButRounding, OverdraftIsRounding
<1> QED BY <1>1, <1>2, <1>5, <1>6, <1>7 DEF RoundingInv

LEMMA EndCountKeeps == ASSUME RoundingInv, EndCount PROVE RoundingInv'
<1>1. /\ RoundingTypeOK /\ Counted /\ stage = "counting" /\ need = 0 /\ purse = 0 /\ at_first = 0
  BY DEF RoundingInv, EndCount
<1>2. /\ stage' = IF available < asked THEN "done" ELSE "sweeping"
      /\ left' = asked /\ next' = 1
      /\ UNCHANGED <<asked, offers, available, taken, need, purse, at_first>>
  BY DEF EndCount
<1>3. RoundingTypeOK'
  BY <1>1, <1>2 DEF RoundingTypeOK
<1>4. taken' = << >>
  BY <1>1, <1>2 DEF Counted
<1>5. AllButRounding' /\ OverdraftIsRounding'
  BY <1>1, <1>2, <1>4 DEF AllButRounding, OverdraftIsRounding
<1>6. CASE available < asked
  BY <1>2, <1>3, <1>5, <1>6 DEF RoundingInv
<1>7. CASE ~(available < asked)
  <2> DEFINE k == next - 1
             n == Len(offers)
  <2>1. k \in Nat /\ k \in 0..n /\ n \in Nat /\ n > 0 /\ asked \in Nat /\ available \in Nat /\ offers \in Seq(Nat)
    BY <1>1 DEF RoundingTypeOK, Counted
  <2>2. 2 * (asked - Offered(k)) <= Slack(asked, k)
    BY <1>1, <1>7, <2>1 DEF Counted
  <2>3. Slack(asked, k) <= Slack(asked, n) /\ Slack(asked, k) \in Nat /\ Slack(asked, n) \in Nat
    <3>1. k <= n
      BY <2>1
    <3> HIDE DEF k, n
    <3> QED BY <2>1, <3>1, Slacks
  <2>4. Offered(k) <= Offered(n) /\ Offered(k) \in Nat /\ Offered(n) \in Nat
    <3>1. n \in 0..n
      BY <2>1
    <3> QED BY <2>1, <3>1, OfferedIs
  <2> HIDE DEF k
  <2>5. 2 * (asked - Offered(n)) <= Slack(asked, n)
    BY <2>1, <2>2, <2>3, <2>4
  <2>6. Enough'
    BY <1>2, <2>5 DEF Enough, Offered
  <2>7. Swept'
    <3>1. Total(taken') = 0 /\ Len(taken') = 0
      BY <1>4, TotalEmpty
    <3>2. Slack(asked, 0) \in Nat
      BY <2>1, Slacks
    <3>3. Slack(asked, Len(taken))' \in Nat
      BY <1>2, <3>1, <3>2
    <3>4. (asked - Total(taken))' = asked /\ left' = asked
      BY <1>2, <2>1, <3>1
    <3>5. 2 * ((asked - Total(taken))' - left') = 0 /\ 2 * (left' - (asked - Total(taken))') = 0
      BY <2>1, <3>4
    <3>6. /\ 2 * ((asked - Total(taken))' - left') <= Slack(asked, Len(taken))'
          /\ 2 * (left' - (asked - Total(taken))') <= Slack(asked, Len(taken))'
      BY <3>3, <3>5
    <3>7. next' = Len(taken') + 1 /\ Len(offers') > 0 /\ left' <= asked' /\ 1..Len(taken') = {}
      BY <1>2, <2>1, <3>1
    <3> QED BY <3>6, <3>7 DEF Swept
  <2>8. stage' = "sweeping" /\ need' = 0 /\ purse' = 0 /\ at_first' = 0
    BY <1>1, <1>2, <1>7
  <2> QED BY <1>3, <1>5, <2>6, <2>7, <2>8 DEF RoundingInv
<1> QED BY <1>6, <1>7

LEMMA SweepLevelKeeps == ASSUME RoundingInv, SweepLevel PROVE RoundingInv'
<1> DEFINE o == offers[next]
           p == Portion(left, o)
           x == left - p
           n == Len(taken)
<1>1. /\ RoundingTypeOK /\ Enough /\ Swept /\ stage = "sweeping" /\ need = 0 /\ purse = 0 /\ at_first = 0
      /\ next <= Len(offers) /\ left > 0
  BY DEF RoundingInv, SweepLevel
<1>2. /\ taken' = Append(taken, p) /\ left' = Rounded(x) /\ next' = next + 1
      /\ UNCHANGED <<stage, asked, offers, available, need, purse, at_first>>
  BY DEF SweepLevel
<1>3. /\ next \in 1..Len(offers) /\ n \in Nat /\ next = n + 1
      /\ asked \in Nat /\ Rounded(asked) = asked /\ left \in Nat /\ o \in Nat /\ left <= asked
      /\ taken \in Seq(Nat) /\ taken \in Seq(Int)
  <2>1. /\ next \in Nat \ {0} /\ offers \in Seq(Nat) /\ asked \in Nat /\ Rounded(asked) = asked
        /\ left \in Nat /\ left <= asked /\ taken \in Seq(Nat) /\ next = n + 1
    BY <1>1 DEF RoundingTypeOK, Swept
  <2>2. next \in 1..Len(offers)
    BY <1>1, <2>1
  <2>3. o \in Nat /\ n \in Nat /\ taken \in Seq(Int)
    BY <2>1, <2>2
  <2> QED BY <2>1, <2>2, <2>3
<1>4. p \in Nat /\ x \in Nat /\ x <= asked /\ (x > 0 => p = o)
  BY <1>3 DEF Portion, Smallest
<1> HIDE DEF p
<1>5. /\ Rounded(x) \in Nat /\ Rounded(x) <= asked
      /\ 2 * (Rounded(x) - x) <= Ulp(asked) /\ 2 * (x - Rounded(x)) <= Ulp(asked)
  <2> HIDE DEF x
  <2>1. Rounded(x) <= Rounded(asked)
    BY <1>3, <1>4, RoundedKeepsOrder
  <2> QED BY <1>3, <1>4, <2>1, RoundedUpTo
<1>6. taken' \in Seq(Nat) /\ Len(taken') = n + 1
  BY <1>2, <1>3, <1>4
<1>7. RoundingTypeOK'
  <2> DEFINE y == Rounded(x)
  <2>1. left' = y /\ y \in Nat
    BY <1>2, <1>5
  <2>2. Len(taken') <= Len(offers)
    BY <1>3, <1>6
  <2> HIDE DEF y, x
  <2> QED BY <1>1, <1>2, <1>3, <1>6, <2>1, <2>2 DEF RoundingTypeOK
<1>8. Enough'
  BY <1>1, <1>2 DEF Enough, Offered
<1>9. Swept'
  <2> DEFINE z == Slack(asked, n)
             u == Ulp(asked)
             y == Rounded(x)
             t == Total(taken)
  <2>1. z \in Nat /\ u \in Nat /\ Slack(asked, n + 1) = z + u
    BY <1>3, Slacks
  <2>2. t \in Int /\ Total(taken)' = t + p
    BY <1>2, <1>3, <1>4, TotalInt, TotalAppend
  <2>3. 2 * ((asked - t) - left) <= z /\ 2 * (left - (asked - t)) <= z
    BY <1>1 DEF Swept
  <2>4. Slack(asked, Len(taken))' = z + u
    BY <1>2, <1>6, <2>1
  <2>5. y \in Nat /\ 2 * (y - x) <= u /\ 2 * (x - y) <= u /\ left' = y
    BY <1>2, <1>5
  <2>6. (asked - Total(taken))' = asked - (t + p)
    BY <1>2, <2>2
  <2>7. left' > 0 => \A k \in 1..Len(taken)' : taken'[k] = offers'[k]
    <3> SUFFICES ASSUME left' > 0, NEW k \in 1..(n + 1) PROVE taken'[k] = offers[k]
      BY <1>2, <1>6
    <3>1. x > 0
      <4>1. Rounded(0) = 0
        BY OfNothingLess, NearestNothing
      <4> QED BY <1>2, <1>4, <4>1
    <3>2. \A j \in 1..n : taken[j] = offers[j]
      BY <1>1 DEF Swept
    <3>3. k = n + 1 \/ k \in 1..n
      BY <1>3
    <3>4. k = n + 1 => taken'[k] = p
      BY <1>2, <1>3
    <3>5. k \in 1..n => taken'[k] = taken[k]
      BY <1>2, <1>3
    <3> QED BY <1>3, <1>4, <3>1, <3>2, <3>3, <3>4, <3>5
  <2> HIDE DEF z, u, y, t
  <2>8. x = left - p
    OBVIOUS
  <2> HIDE DEF x, n, o
  <2>9. 2 * ((asked - (t + p)) - y) <= z + u /\ 2 * (y - (asked - (t + p))) <= z + u
    BY <1>3, <1>4, <2>1, <2>2, <2>3, <2>5, <2>8
  <2>10. /\ 2 * ((asked - Total(taken))' - left') <= Slack(asked, Len(taken))'
         /\ 2 * (left' - (asked - Total(taken))') <= Slack(asked, Len(taken))'
    BY <2>4, <2>5, <2>6, <2>9
  <2>11. next' = Len(taken)' + 1 /\ Len(offers)' > 0 /\ left' <= asked'
    BY <1>1, <1>2, <1>3, <1>5, <1>6 DEF Swept
  <2> QED BY <2>7, <2>10, <2>11 DEF Swept
<1>10. AllButRounding' /\ OverdraftIsRounding'
  BY <1>1, <1>2 DEF AllButRounding, OverdraftIsRounding
<1> QED BY <1>1, <1>2, <1>7, <1>8, <1>9, <1>10 DEF RoundingInv

LEMMA EndOfLevelsKeeps == ASSUME RoundingInv, EndOfLevels PROVE RoundingInv'
<1> DEFINE n == Len(offers)
           t == Total(taken)
           z == Slack(asked, n)
<1>1. /\ RoundingTypeOK /\ Enough /\ Swept /\ stage = "sweeping" /\ need = 0 /\ purse = 0 /\ at_first = 0
      /\ next > n \/ left <= 0
  BY DEF RoundingInv, EndOfLevels
<1>2. /\ stage' = "adding" /\ next' = 1 /\ UNCHANGED <<asked, offers, available, left, taken, need>>
  BY DEF EndOfLevels
<1>3. PICK cash \in Purses : purse' = cash /\ at_first' = cash
  BY DEF EndOfLevels
<1>4. cash \in Nat /\ Rounded(cash) = cash
  BY NumbersAssumption
<1>5. RoundingTypeOK'
  BY <1>1, <1>2, <1>3, <1>4 DEF RoundingTypeOK
<1>6. Summed'
  <2>1. (Needs[0] = 0)'
    <3>1. Needs[0] = 0
      BY <1>1, NeedsAddUp
    <3>2. Needs' = Needs
      BY <1>2 DEF Needs, Payment
    <3> QED BY <3>1, <3>2
  <2>2. (next - 1)' = 0 /\ (next <= Len(taken) + 1)'
    BY <1>1, <1>2 DEF RoundingTypeOK
  <2>3. (Needs[next - 1])' = 0
    BY <2>1, <2>2
  <2> QED BY <1>1, <1>2, <1>3, <2>2, <2>3 DEF Summed
<1>7. AllButRounding'
  <2>1. /\ n \in Nat /\ n > 0 /\ asked \in Nat /\ left \in Nat /\ offers \in Seq(Nat)
        /\ taken \in Seq(Nat) /\ taken \in Seq(Int) /\ Len(taken) \in Nat /\ Len(taken) <= n
        /\ next = Len(taken) + 1
    BY <1>1 DEF RoundingTypeOK, Swept
  <2>2. t \in Int
    BY <2>1, TotalInt
  <2>3. /\ Slack(asked, Len(taken)) <= z /\ Slack(asked, Len(taken)) \in Nat /\ z \in Nat /\ z > 0
    <3> HIDE DEF n
    <3>1. Slack(asked, Len(taken)) <= Slack(asked, n) /\ Slack(asked, Len(taken)) \in Nat /\ Slack(asked, n) \in Nat
      BY <2>1, Slacks
    <3>2. n - 1 \in Nat /\ (n - 1) + 1 = n
      BY <2>1
    <3>3. Slack(asked, n) = Slack(asked, n - 1) + Ulp(asked) /\ Slack(asked, n - 1) \in Nat
          /\ Ulp(asked) \in Nat \ {0}
      BY <2>1, <3>2, Slacks
    <3> QED BY <3>1, <3>3
  <2>4. 2 * ((asked - t) - left) <= Slack(asked, Len(taken)) /\ 2 * (left - (asked - t)) <= Slack(asked, Len(taken))
    BY <1>1 DEF Swept
  <2>5. 2 * (t - asked) <= z
    <3> HIDE DEF t, z, n
    <3> QED BY <2>1, <2>2, <2>3, <2>4
  <2>6. 2 * (asked - t) <= z
    <3>1. CASE left = 0
      <4> HIDE DEF t, z, n
      <4> QED BY <2>1, <2>2, <2>3, <2>4, <3>1
    <3>2. CASE left # 0
      <4>1. Len(taken) = n /\ \A k \in 1..n : taken[k] = offers[k]
        BY <1>1, <2>1, <3>2 DEF Swept
      <4>2. taken = offers
        BY <2>1, <4>1
      <4>3. Offered(n) = t
        BY <2>1, <4>2, OfferedIs
      <4> QED BY <1>1, <4>3 DEF Enough
    <3> QED BY <3>1, <3>2
  <2>7. Distance(t, asked) < z
    <3> HIDE DEF t, z, n
    <3> QED BY <2>1, <2>2, <2>3, <2>5, <2>6 DEF Distance
  <2>8. Distance(t, asked) < n * Ulp(asked)
    BY <2>7 DEF Slack
  <2>9. (Distance(Total(taken), asked) < Len(offers) * Ulp(asked))'
    BY <1>2, <2>8
  <2> QED BY <2>9 DEF AllButRounding
<1>8. OverdraftIsRounding'
  BY <1>3, <1>4 DEF OverdraftIsRounding
<1> QED BY <1>2, <1>5, <1>6, <1>7, <1>8 DEF RoundingInv

(* While the payments are added up and paid, the fills stay what they are. *)
LEMMA FillsStay ==
  ASSUME RoundingInv, stage \in {"adding", "paying"}, UNCHANGED <<asked, offers, taken>>
  PROVE  /\ AllButRounding' /\ Needs' = Needs
         /\ \A k : Payment(k)' = Payment(k) /\ Due(k)' = Due(k)
<1>1. taken = << >> \/ Distance(Total(taken), asked) < Len(offers) * Ulp(asked)
  BY DEF RoundingInv, AllButRounding
<1>2. (taken = << >> \/ Distance(Total(taken), asked) < Len(offers) * Ulp(asked))'
  BY <1>1
<1>3. AllButRounding'
  BY <1>2 DEF AllButRounding
<1>4. Needs' = Needs
  BY DEF Needs, Payment
<1>5. Payments' = Payments
  BY DEF Payments, Payment
<1>6. \A k : Payment(k)' = Payment(k)
  BY DEF Payment
<1>7. \A k : Due(k)' = Due(k)
  BY <1>5 DEF Due
<1> QED BY <1>3, <1>4, <1>6, <1>7

LEMMA AddCostKeeps == ASSUME RoundingInv, AddCost PROVE RoundingInv'
<1>1. /\ RoundingTypeOK /\ Summed /\ stage = "adding" /\ next <= Len(taken)
      /\ OverdraftIsRounding
  BY DEF RoundingInv, AddCost
<1>2. /\ need' = Rounded(need + Payment(next)) /\ next' = next + 1
      /\ UNCHANGED <<stage, asked, offers, available, left, taken, purse, at_first>>
  BY DEF AddCost, Added
<1>3. next \in 1..Len(taken) /\ next \in 0..Len(taken) /\ (next - 1)' = next
  BY <1>1, <1>2 DEF RoundingTypeOK
<1>4. need' = Needs[next] /\ Needs[next] \in Nat
  <2>1. Needs[next] = Rounded(Needs[next - 1] + Payment(next)) /\ Needs[next] \in Nat
    BY <1>1, <1>3, NeedsAddUp
  <2> QED BY <1>1, <1>2, <2>1 DEF Summed
<1>5. RoundingTypeOK'
  BY <1>1, <1>2, <1>4 DEF RoundingTypeOK
<1>6. AllButRounding' /\ Needs' = Needs
  BY <1>1, <1>2, FillsStay
<1>7. Summed'
  <2>1. need' = Needs'[(next - 1)']
    BY <1>3, <1>4, <1>6
  <2>2. (next <= Len(taken) + 1 /\ purse = at_first)'
    BY <1>1, <1>2, <1>3 DEF Summed
  <2> QED BY <2>1, <2>2 DEF Summed
<1>8. OverdraftIsRounding'
  BY <1>1, <1>2 DEF OverdraftIsRounding
<1> QED BY <1>1, <1>2, <1>5, <1>6, <1>7, <1>8 DEF RoundingInv

LEMMA CanPayKeeps == ASSUME RoundingInv, CanPay PROVE RoundingInv'
<1>1. /\ RoundingTypeOK /\ Summed /\ stage = "adding" /\ next > Len(taken)
      /\ OverdraftIsRounding
  BY DEF RoundingInv, CanPay
<1>2. /\ stage' = IF purse >= need THEN "paying" ELSE "done"
      /\ next' = 1 /\ UNCHANGED <<asked, offers, available, left, taken, need, purse, at_first>>
  BY DEF CanPay
<1>3. Len(taken) \in Nat /\ next - 1 = Len(taken) /\ (next - 1)' = 0 /\ purse = at_first /\ need = Needs[Len(taken)]
  BY <1>1, <1>2 DEF RoundingTypeOK, Summed
<1>4. RoundingTypeOK'
  BY <1>1, <1>2 DEF RoundingTypeOK
<1>5. AllButRounding' /\ Needs' = Needs /\ Due(0)' = Due(0)
  BY <1>1, <1>2, FillsStay
<1>6. OverdraftIsRounding'
  BY <1>1, <1>2 DEF OverdraftIsRounding
<1>7. CASE purse >= need
  <2>1. at_first \in Nat
    BY <1>1 DEF RoundingTypeOK
  <2>2. Needs[0] = 0 /\ Needs[Len(taken)] \in Nat /\ Due(0) = 0 /\ Slack(at_first, 0) \in Nat
    <3>1. Len(taken) \in 0..Len(taken)
      BY <1>3
    <3> QED BY <1>1, <2>1, <3>1, NeedsAddUp, DueIs, Slacks
  <2>3. Needs'[(next - 1)'] = 0 /\ Due(next - 1)' = 0 /\ Slack(at_first, next - 1)' = Slack(at_first, 0)
    <3>1. Due(next - 1)' = Due(0)'
      BY <1>3 DEF Due
    <3> QED BY <1>2, <1>3, <1>5, <2>2, <3>1
  <2>4. Needs'[Len(taken)'] <= at_first'
    BY <1>2, <1>3, <1>5, <1>7, <2>1, <2>2
  <2>5. PaidFor'
    BY <1>2, <1>3, <2>1, <2>2, <2>3, <2>4 DEF PaidFor
  <2> QED BY <1>2, <1>4, <1>5, <1>6, <1>7, <2>5 DEF RoundingInv
<1>8. CASE ~(purse >= need)
  BY <1>2, <1>4, <1>5, <1>6, <1>8 DEF RoundingInv
<1> QED BY <1>7, <1>8

(* What one payment takes from the cash, while can_buy's sum covers it.    *)
LEMMA PaymentRounds ==
  ASSUME NEW cash \in Nat, Rounded(cash) = cash, NEW has \in Int, has <= cash,
         NEW sum \in Nat, -sum <= has, NEW pay \in Nat, Rounded(sum + pay) <= cash
  PROVE  /\ Rounded(has - pay) \in Int /\ Rounded(has - pay) <= cash
         /\ -Rounded(sum + pay) <= Rounded(has - pay)
         /\ 2 * ((has - pay) - Rounded(has - pay)) <= Ulp(cash)
<1> DEFINE x == has - pay
           y == sum + pay
<1>1. x \in Int /\ y \in Nat /\ x <= cash /\ -y <= x /\ -y \in Int /\ -y <= 0 /\ -(-y) = y
  OBVIOUS
<1> HIDE DEF x, y
<1>2. Rounded(x) <= cash
  <2>1. Rounded(x) <= Rounded(cash)
    BY <1>1, RoundedKeepsOrder
  <2> QED BY <2>1
<1>3. Rounded(y) = Nearest(y) /\ Nearest(y) \in Nat /\ Nearest(y) <= cash
  <2>1. Rounded(y) <= cash
    BY DEF y
  <2> QED BY <1>1, <2>1, OfNothingLess
<1>4. -Rounded(y) <= Rounded(x)
  <2>1. Rounded(-y) <= Rounded(x)
    BY <1>1, RoundedKeepsOrder
  <2>2. Rounded(-y) = -Nearest(y)
    <3> DEFINE z == -y
    <3>1. z \in Int /\ z <= 0 /\ -z = y
      BY <1>1
    <3> HIDE DEF z
    <3>2. Rounded(z) = -Nearest(-z)
      BY <3>1, RoundedIs
    <3> QED BY <3>1, <3>2 DEF z
  <2> QED BY <1>3, <2>1, <2>2
<1>5. /\ Rounded(x) \in Int /\ Size(x) \in Nat /\ Ulp(Size(x)) \in Nat
      /\ 2 * (x - Rounded(x)) <= Ulp(Size(x))
  BY <1>1, RoundedIs
<1>6. Nearest(Size(x)) <= cash
  <2>1. CASE x < 0
    <3>1. Size(x) = -x /\ -x \in Nat /\ -x <= y
      BY <1>1, <2>1 DEF Size
    <3>2. Nearest(-x) <= Nearest(y) /\ Nearest(-x) \in Nat
      BY <1>1, <3>1, NearestKeepsOrder, NearestIsExact
    <3> QED BY <1>3, <3>1, <3>2
  <2>2. CASE ~(x < 0)
    <3>1. Size(x) = x /\ x \in Nat
      BY <1>1, <2>2 DEF Size
    <3> QED BY <1>2, <3>1, OfNothingLess
  <2> QED BY <2>1, <2>2
<1>7. Ulp(Size(x)) <= Ulp(cash) /\ Ulp(cash) \in Nat
  BY <1>5, <1>6, UlpBelow, UlpFits
<1>8. 2 * (x - Rounded(x)) <= Ulp(cash)
  BY <1>1, <1>5, <1>7
<1> QED BY <1>2, <1>4, <1>5, <1>8 DEF x, y

LEMMA PayKeeps == ASSUME RoundingInv, Pay PROVE RoundingInv'
<1> DEFINE k == next - 1
           n == Len(taken)
           pay == Payment(next)
           u == Ulp(at_first)
           z == Slack(at_first, k)
           due == Due(k)
           y == Rounded(purse - pay)
<1>1. /\ RoundingTypeOK /\ PaidFor /\ stage = "paying" /\ next <= n
  BY DEF RoundingInv, Pay
<1>2. /\ purse' = y /\ next' = next + 1
      /\ UNCHANGED <<stage, asked, offers, available, left, taken, need, at_first>>
  BY DEF Pay
<1>3. /\ next \in 1..n /\ next \in 0..n /\ k \in 0..n /\ k \in Nat /\ k + 1 = next /\ (next - 1)' = next
      /\ n \in Nat /\ n \in 0..n
      /\ at_first \in Nat /\ Rounded(at_first) = at_first /\ purse \in Int
  BY <1>1, <1>2 DEF RoundingTypeOK
<1>4. pay \in Nat
  BY <1>1, <1>3, PaymentIsRounded
<1>5. /\ Needs[k] \in Nat /\ Needs[next] \in Nat
      /\ Needs[next] = Rounded(Needs[k] + pay) /\ Needs[next] <= at_first
  <2>1. Needs[next] <= Needs[n] /\ Needs[n] <= at_first /\ Needs[next] \in Nat /\ Needs[n] \in Nat
    BY <1>1, <1>3, NeedsGrow DEF PaidFor
  <2>2. Needs[k] \in Nat
    BY <1>1, <1>3, NeedsGrow
  <2>3. Needs[next] = Rounded(Needs[next - 1] + Payment(next))
    BY <1>1, <1>3, NeedsAddUp
  <2> QED BY <1>3, <2>1, <2>2, <2>3
<1>6. purse <= at_first /\ -Needs[k] <= purse
  BY <1>1 DEF PaidFor
<1>7. /\ y \in Int /\ y <= at_first /\ -Needs[next] <= y
      /\ 2 * ((purse - pay) - y) <= u
  <2> DEFINE sum == Needs[k]
  <2>1. sum \in Nat /\ -sum <= purse /\ Rounded(sum + pay) <= at_first
    BY <1>5, <1>6
  <2>2. Needs[next] = Rounded(sum + pay)
    BY <1>5
  <2> HIDE DEF sum, pay
  <2> QED BY <1>3, <1>4, <1>6, <2>1, <2>2, PaymentRounds
<1>8. z \in Nat /\ u \in Nat \ {0} /\ Slack(at_first, next) = z + u
  BY <1>3, Slacks
<1>9. due \in Int /\ Due(next) = due + pay
  <2>1. Due(next) = Due(next - 1) + Payment(next) /\ Due(k) \in Int
    BY <1>1, <1>3, DueIs
  <2> QED BY <2>1
<1>10. 2 * ((at_first - due) - purse) <= z
  BY <1>1 DEF PaidFor
<1>11. 2 * ((at_first - (due + pay)) - y) <= z + u
  <2> HIDE DEF due, pay, y, z, u
  <2> QED BY <1>3, <1>4, <1>7, <1>8, <1>9, <1>10
<1>12. RoundingTypeOK'
  BY <1>1, <1>2, <1>3, <1>7 DEF RoundingTypeOK
<1>13. /\ AllButRounding' /\ Needs' = Needs /\ Due(next)' = Running(Payments)[next']
       /\ \A j : Due(j)' = Due(j)
  <2>1. AllButRounding' /\ Needs' = Needs /\ \A j : Due(j)' = Due(j)
    BY <1>1, <1>2, FillsStay
  <2>2. Payments' = Payments
    BY <1>2 DEF Payments, Payment
  <2> QED BY <2>1, <2>2 DEF Due
<1>14. PaidFor'
  <2>1. Due(next - 1)' = due + pay
    <3>1. Due(next - 1)' = Running(Payments')[(next - 1)']
      BY DEF Due
    <3>2. Payments' = Payments
      BY <1>2 DEF Payments, Payment
    <3> QED BY <1>3, <1>9, <3>1, <3>2 DEF Due
  <2>2. Slack(at_first, next - 1)' = z + u
    BY <1>2, <1>3, <1>8
  <2>3. (2 * ((at_first - Due(next - 1)) - purse) <= Slack(at_first, next - 1))'
    BY <1>2, <1>11, <2>1, <2>2
  <2>4. (Needs[Len(taken)] <= at_first)'
    BY <1>1, <1>2, <1>13 DEF PaidFor
  <2>5. (-Needs[next - 1] <= purse /\ purse <= at_first)'
    BY <1>2, <1>3, <1>7, <1>13
  <2>6. (next <= Len(taken) + 1)'
    BY <1>1, <1>2, <1>3
  <2> QED BY <2>3, <2>4, <2>5, <2>6 DEF PaidFor
<1>15. OverdraftIsRounding'
  <2>1. 2 * (Due(next) - Needs[next]) <= z
    BY <1>1, <1>3, NeedsAreDue DEF PaidFor
  <2>2. z + u <= Slack(at_first, n) /\ Slack(at_first, n) \in Nat
    <3>1. Slack(at_first, next) <= Slack(at_first, n) /\ Slack(at_first, n) \in Nat
      <4> HIDE DEF n
      <4>1. next \in Nat /\ next <= n
        BY <1>3
      <4> QED BY <1>3, <4>1, Slacks
    <3> QED BY <1>8, <3>1
  <2>3. -y < Slack(at_first, n)
    <3> DEFINE needed == Needs[next]
               most == Slack(at_first, n)
    <3>1. needed \in Nat /\ needed <= at_first /\ 2 * ((due + pay) - needed) <= z
          /\ most \in Nat /\ z + u <= most
      BY <1>5, <1>9, <2>1, <2>2
    <3> HIDE DEF due, pay, y, z, u, needed, most
    <3>2. -y < most
      BY <1>3, <1>4, <1>7, <1>8, <1>9, <1>11, <3>1
    <3> QED BY <3>2 DEF most
  <2>4. (-purse < Len(taken) * Ulp(at_first))'
    BY <1>2, <2>3 DEF Slack
  <2> QED BY <2>4 DEF OverdraftIsRounding
<1> QED BY <1>1, <1>2, <1>12, <1>13, <1>14, <1>15 DEF RoundingInv

LEMMA PaidKeeps == ASSUME RoundingInv, Paid PROVE RoundingInv'
<1>1. /\ RoundingTypeOK /\ stage = "paying" /\ OverdraftIsRounding
  BY DEF RoundingInv, Paid
<1>2. /\ stage' = "done" /\ UNCHANGED <<asked, offers, next, available, left, taken, need, purse, at_first>>
  BY DEF Paid
<1>3. AllButRounding'
  BY <1>1, <1>2, FillsStay
<1>4. RoundingTypeOK' /\ OverdraftIsRounding'
  BY <1>1, <1>2 DEF RoundingTypeOK, OverdraftIsRounding
<1> QED BY <1>2, <1>3, <1>4 DEF RoundingInv

----------------------------------------------------------------------------
(* The theorems.                                                           *)

(* Whatever the order, the levels and the cash, the loops keep count of    *)
(* what their roundings may be off (src/orders.cpp, src/portfolio.cpp).    *)
THEOREM RoundingIsCounted == RoundingSpec => []RoundingInv
<1>1. RoundingInv /\ [RoundingNext]_roundingVars => RoundingInv'
  <2> SUFFICES ASSUME RoundingInv, [RoundingNext]_roundingVars PROVE RoundingInv'
    OBVIOUS
  <2>1. CASE UNCHANGED roundingVars
    BY <2>1 DEF roundingVars, RoundingInv, RoundingTypeOK, Counted, Enough, Swept, Summed, PaidFor, Offered,
                Needs, Due, Payments, Payment, AllButRounding, OverdraftIsRounding
  <2>2. ASSUME NEW amount \in Sizes, NEW n \in 1..Len(Quotes), NEW book \in [1..n -> Sizes],
               BeginOrder(amount, book)
        PROVE  RoundingInv'
    BY <2>2, BeginOrderKeeps
  <2>3. CASE CountLevel
    BY <2>3, CountLevelKeeps
  <2>4. CASE EndCount
    BY <2>4, EndCountKeeps
  <2>5. CASE SweepLevel
    BY <2>5, SweepLevelKeeps
  <2>6. CASE EndOfLevels
    BY <2>6, EndOfLevelsKeeps
  <2>7. CASE AddCost
    BY <2>7, AddCostKeeps
  <2>8. CASE CanPay
    BY <2>8, CanPayKeeps
  <2>9. CASE Pay
    BY <2>9, PayKeeps
  <2>10. CASE Paid
    BY <2>10, PaidKeeps
  <2> QED BY <2>1, <2>2, <2>3, <2>4, <2>5, <2>6, <2>7, <2>8, <2>9, <2>10 DEF RoundingNext
<1> QED BY <1>1, RoundingStarts, PTL DEF RoundingSpec

(* A fill-or-kill order has no fills, or what they obtain differs from it  *)
(* by less than the last bits of an operation per level, for significands  *)
(* of any length and any number of levels (src/orders.cpp, fill_or_kill).  *)
THEOREM AllOrNothingButRounding == RoundingSpec => []AllButRounding
<1>1. RoundingInv => AllButRounding
  BY DEF RoundingInv
<1> QED BY <1>1, RoundingIsCounted, PTL

(* The payments take the cash below zero by less than the last bits of an  *)
(* operation per payment (can_buy and buy in src/portfolio.cpp).           *)
THEOREM OverdraftOnlyByRounding == RoundingSpec => []OverdraftIsRounding
<1>1. RoundingInv => OverdraftIsRounding
  BY DEF RoundingInv
<1> QED BY <1>1, RoundingIsCounted, PTL
=============================================================================
