---------------------------- MODULE SumTheorems ----------------------------
(***************************************************************************)
(* Facts about Total, the left-to-right sum every accumulation loop of the *)
(* library computes.  The prover has no induction over sequences, so an    *)
(* induction principle for sets of naturals is derived first and the       *)
(* recursive function behind Total is shown to exist and to be unique.     *)
(***************************************************************************)
EXTENDS Sums, FiniteSetsExt, WellFoundedInduction, SequenceTheorems, TLAPS

(* Products of naturals are naturals.                                      *)
LEMMA ProductNat == ASSUME NEW a \in Nat, NEW b \in Nat PROVE a * b \in Nat
  OBVIOUS

(* Products are integers and distribute over sums and differences.         *)
LEMMA Distributes ==
  ASSUME NEW a \in Int, NEW b \in Int, NEW c \in Int
  PROVE  /\ a * c \in Int /\ b * c \in Int /\ a * c = c * a
         /\ (a + b) * c = a * c + b * c
         /\ (a - b) * c = a * c - b * c
  OBVIOUS

(* Products keep the order of their first factors, and show it.            *)
LEMMA ProductsOrdered ==
  ASSUME NEW a \in Int, NEW b \in Int, NEW c \in Nat, a <= b
  PROVE  a * c \in Int /\ b * c \in Int /\ a * c <= b * c
<1>1. b - a \in Nat
  OBVIOUS
<1>2. (b - a) * c \in Nat
  BY <1>1, ProductNat
<1>3. (b - a) * c = b * c - a * c /\ a * c \in Int /\ b * c \in Int
  BY Distributes
<1> QED BY <1>2, <1>3

LEMMA ProductsCancel ==
  ASSUME NEW a \in Int, NEW b \in Int, NEW c \in Nat, c > 0, a * c <= b * c
  PROVE  a <= b
<1> SUFFICES ASSUME ~(a <= b) PROVE FALSE
  OBVIOUS
<1>1. b + 1 <= a /\ b + 1 \in Int
  OBVIOUS
<1>2. (b + 1) * c <= a * c
  BY <1>1, ProductsOrdered
<1>3. (b + 1) * c = b * c + 1 * c /\ b * c \in Int /\ a * c \in Int /\ 1 * c = c
  BY Distributes
<1> QED BY <1>2, <1>3

NatLess == {p \in Nat \X Nat : p[1] < p[2]}

(* The strict order of the naturals is well founded. *)
LEMMA NatLessWellFounded == IsWellFoundedOn(NatLess, Nat)
<1>1. OpToRel(<, Nat) = NatLess
  BY Zenon DEF OpToRel, NatLess
<1> QED
  BY <1>1, NatLessThanWellFounded, Zenon

(* Membership in NatLess is the arithmetic comparison. *)
LEMMA NatLessMember ==
  ASSUME NEW a \in Nat, NEW b \in Nat, a < b PROVE <<a, b>> \in NatLess
<1> DEFINE p == <<a, b>>
<1>1. p \in Nat \X Nat /\ p[1] = a /\ p[2] = b
  OBVIOUS
<1> HIDE DEF p
<1>2. p[1] < p[2]
  BY <1>1
<1>3. p \in NatLess
  BY <1>1, <1>2, Zenon DEF NatLess
<1> QED BY <1>3 DEF p

(* Induction: a set of naturals that has 0 and every successor is Nat. *)
LEMMA NatSetInduction ==
  ASSUME NEW S \in SUBSET Nat, 0 \in S, \A n \in S : n+1 \in S
  PROVE  S = Nat
<1> DEFINE T == Nat \ S
<1>1. CASE T # {}
  <2>1. PICK x \in T : \A y \in T : ~(<<y, x>> \in NatLess)
    BY <1>1, NatLessWellFounded, WFMin
  <2>2. x # 0 /\ x - 1 \in Nat /\ x - 1 < x
    OBVIOUS
  <2>3. x - 1 \notin T
    BY <2>1, <2>2, NatLessMember
  <2> QED BY <2>2, <2>3
<1> QED BY <1>1

(* What a recursive function over an interval computes: from a first       *)
(* value, one step after the other.                                        *)
Iterates(f, n, V, first, step) ==
  f \in [0..n -> V] /\ f[0] = first /\ \A k \in 1..n : f[k] = step[k][f[k-1]]

(* A recursion over an interval that starts with a value of a set and      *)
(* steps inside it defines a function, so it has what the CHOOSE of a      *)
(* recursive function definition looks for.                                *)
LEMMA RecursionExists ==
  ASSUME NEW n \in Nat, NEW V, NEW first \in V, NEW step \in [1..n -> [V -> V]]
  PROVE  \E f : Iterates(f, n, V, first, step)
<1> DEFINE Upto(f, m) == f \in [0..m -> V] /\ f[0] = first /\ \A k \in 1..m : f[k] = step[k][f[k-1]]
           P(m) == \E f : Upto(f, m)
           S == {m \in Nat : m <= n => P(m)}
<1>1. 0 \in S
  <2> DEFINE f == [k \in 0..0 |-> first]
  <2>1. Upto(f, 0)
    OBVIOUS
  <2> QED BY <2>1
<1>2. ASSUME NEW m \in S PROVE m + 1 \in S
  <2>1. m \in Nat
    OBVIOUS
  <2>2. ASSUME m + 1 <= n PROVE P(m + 1)
    <3>1. PICK f : Upto(f, m)
      BY <2>1, <2>2
    <3> DEFINE g == [k \in 0..(m + 1) |-> IF k <= m THEN f[k] ELSE step[m+1][f[m]]]
    <3>2. m + 1 \in 1..n /\ f[m] \in V
      BY <2>1, <2>2, <3>1
    <3>3. step[m+1] \in [V -> V]
      BY <3>2
    <3>4. step[m+1][f[m]] \in V
      BY <3>2, <3>3
    <3>5. g \in [0..(m + 1) -> V] /\ g[0] = first
      BY <2>1, <3>1, <3>4
    <3>6. ASSUME NEW k \in 1..(m + 1) PROVE g[k] = step[k][g[k-1]]
      <4>1. CASE k <= m
        <5>1. f[k] = step[k][f[k-1]] /\ g[k] = f[k] /\ g[k-1] = f[k-1]
          BY <2>1, <3>1, <4>1
        <5> QED BY <5>1
      <4>2. CASE k = m + 1
        BY <2>1, <4>2
      <4> QED BY <2>1, <4>1, <4>2
    <3> HIDE DEF g
    <3> QED BY <3>5, <3>6
  <2> HIDE DEF P
  <2> QED BY <2>1, <2>2
<1>3. S = Nat
  <2> HIDE DEF S
  <2> QED BY <1>1, <1>2, NatSetInduction, S \subseteq Nat DEF S
<1>4. \E f : Upto(f, n)
  BY <1>3
<1> QED BY <1>4 DEF Iterates

(* A set of naturals that is not empty has a least element. *)
LEMMA LeastElement ==
  ASSUME NEW T \in SUBSET Nat, T # {}
  PROVE  \E x \in T : \A y \in T : x <= y
<1>1. PICK x \in T : \A y \in T : ~(<<y, x>> \in NatLess)
  BY NatLessWellFounded, WFMin
<1>2. \A y \in T : x <= y
  <2>1. SUFFICES ASSUME NEW y \in T, ~(x <= y) PROVE FALSE
    OBVIOUS
  <2>2. y \in Nat /\ x \in Nat /\ y < x
    BY <2>1
  <2> QED BY <1>1, <2>2, NatLessMember
<1> QED BY <1>2

(* Min and Max are the least and the greatest of a set of naturals.        *)
LEMMA LeastOf ==
  ASSUME NEW T \in SUBSET Nat, T # {}
  PROVE  Min(T) \in T /\ \A y \in T : Min(T) <= y
<1>1. \E x \in T : \A y \in T : x <= y
  BY LeastElement
<1> QED BY <1>1, Zenon DEF Min

LEMMA GreatestOf ==
  ASSUME NEW n \in Nat, NEW T \in SUBSET (0..n), T # {}
  PROVE  Max(T) \in T /\ \A y \in T : y <= Max(T)
<1> DEFINE below == {n - y : y \in T}
<1>0. \A y \in T : y \in 0..n /\ n - y \in Nat
  OBVIOUS
<1>1. below \in SUBSET Nat /\ below # {}
  BY <1>0
<1>2. PICK u \in below : \A v \in below : u <= v
  <2> HIDE DEF below
  <2> QED BY <1>1, LeastElement
<1>3. PICK x \in T : u = n - x
  OBVIOUS
<1>4. \A y \in T : x >= y
  <2> TAKE y \in T
  <2>1. u <= n - y /\ x \in 0..n /\ y \in 0..n
    BY <1>2
  <2> QED BY <1>3, <2>1
<1>5. \E z \in T : \A y \in T : z >= y
  BY <1>4
<1>6. Max(T) \in T /\ \A y \in T : Max(T) >= y
  BY <1>5, Zenon DEF Max
<1>7. T \subseteq Int
  OBVIOUS
<1> QED BY <1>6, <1>7

IsRun(r, s) == r = [i \in 0..Len(s) |-> IF i = 0 THEN 0 ELSE r[i-1] + s[i]]

(* Running is the choice that a recursive function definition stands for. *)
LEMMA RunningIsChoice == ASSUME NEW s PROVE Running(s) = CHOOSE r : IsRun(r, s)
  BY DEF Running, IsRun

(* Two functions that satisfy the running-sum equation are equal. *)
LEMMA RunUnique ==
  ASSUME NEW s \in Seq(Int), NEW q, NEW r, IsRun(q, s), IsRun(r, s)
  PROVE  q = r
<1> DEFINE S == {k \in Nat : k <= Len(s) => q[k] = r[k]}
<1>1. 0 \in S
  BY DEF IsRun
<1>2. ASSUME NEW k \in S PROVE k+1 \in S
  <2>1. k \in Nat /\ Len(s) \in Nat
    OBVIOUS
  <2>2. CASE k+1 <= Len(s)
    <3>1. q[k+1] = q[k] + s[k+1] /\ r[k+1] = r[k] + s[k+1]
      BY <2>1, <2>2 DEF IsRun
    <3>2. q[k] = r[k]
      BY <1>2, <2>1, <2>2
    <3> QED BY <2>1, <3>1, <3>2
  <2> QED BY <2>1, <2>2
<1>3. S = Nat
  <2> HIDE DEF S
  <2> QED BY <1>1, <1>2, NatSetInduction, S \subseteq Nat DEF S
<1>4. \A k \in 0..Len(s) : q[k] = r[k]
  BY <1>3
<1> QED BY <1>4 DEF IsRun

RunUpTo(r, s, n) == /\ r \in [0..n -> Int]
                    /\ r[0] = 0
                    /\ \A i \in 1..n : r[i] = r[i-1] + s[i]

(* A running sum of the first n+1 elements extends one of the first n. *)
LEMMA RunExtends ==
  ASSUME NEW s \in Seq(Int), NEW n \in Nat, n + 1 <= Len(s), NEW r, RunUpTo(r, s, n)
  PROVE  \E q : RunUpTo(q, s, n+1)
<1> DEFINE q == [i \in 0..n+1 |-> IF i <= n THEN r[i] ELSE r[n] + s[n+1]]
<1>1. s[n+1] \in Int /\ r[n] \in Int
  BY DEF RunUpTo
<1>2. q \in [0..n+1 -> Int] /\ q[0] = 0
  BY <1>1 DEF RunUpTo
<1>3. ASSUME NEW i \in 1..n+1 PROVE q[i] = q[i-1] + s[i]
  <2>1. CASE i \in 1..n
    <3>1. r[i] = r[i-1] + s[i]
      BY <2>1 DEF RunUpTo
    <3>2. q[i] = r[i] /\ q[i-1] = r[i-1]
      BY <2>1
    <3> QED BY <3>1, <3>2
  <2>2. CASE i = n+1
    BY <2>2
  <2> QED BY <2>1, <2>2
<1>4. RunUpTo(q, s, n+1)
  <2> HIDE DEF q
  <2> QED BY <1>2, <1>3 DEF RunUpTo
<1> QED BY <1>4

(* Every sequence of integers has a running sum. *)
LEMMA RunExists ==
  ASSUME NEW s \in Seq(Int)
  PROVE  \E r : RunUpTo(r, s, Len(s))
<1> DEFINE P(n) == \E r : RunUpTo(r, s, n)
           S == {n \in Nat : n <= Len(s) => P(n)}
<1>1. 0 \in S
  <2>1. RunUpTo([i \in 0..0 |-> 0], s, 0)
    BY DEF RunUpTo
  <2> QED BY <2>1
<1>2. ASSUME NEW n \in S PROVE n+1 \in S
  <2>1. n \in Nat /\ Len(s) \in Nat /\ n + 1 \in Nat
    OBVIOUS
  <2>2. ASSUME n+1 <= Len(s) PROVE P(n+1)
    <3>1. P(n)
      BY <1>2, <2>1, <2>2
    <3> QED BY <2>1, <2>2, <3>1, RunExtends
  <2> QED BY <2>1, <2>2
<1>3. S = Nat
  <2> HIDE DEF S
  <2> QED BY <1>1, <1>2, NatSetInduction, S \subseteq Nat DEF S
<1>4. Len(s) \in S /\ Len(s) <= Len(s)
  <2>1. Len(s) \in Nat
    OBVIOUS
  <2> HIDE DEF S
  <2> QED BY <1>3, <2>1
<1> QED BY <1>4

(* Running satisfies its own recursive equation. *)
LEMMA RunningStep ==
  ASSUME NEW s \in Seq(Int)
  PROVE  RunUpTo(Running(s), s, Len(s)) /\ IsRun(Running(s), s)
<1>1. PICK r : RunUpTo(r, s, Len(s))
  BY RunExists
<1>2. IsRun(r, s)
  <2>1. \A i \in 0..Len(s) : r[i] = IF i = 0 THEN 0 ELSE r[i-1] + s[i]
    BY <1>1 DEF RunUpTo
  <2> QED BY <1>1, <2>1 DEF RunUpTo, IsRun
<1>3. IsRun(Running(s), s)
  BY <1>2, RunningIsChoice, Zenon
<1>4. Running(s) = r
  BY <1>2, <1>3, RunUnique, Zenon
<1> QED BY <1>1, <1>3, <1>4

(* The sum of no elements is zero. *)
LEMMA TotalEmpty == Total(<< >>) = 0
<1>1. << >> \in Seq(Int) /\ Len(<< >>) = 0
  OBVIOUS
<1> QED BY <1>1, RunningStep DEF Total, RunUpTo

(* The sum of integers is an integer. *)
LEMMA TotalInt == ASSUME NEW s \in Seq(Int) PROVE Total(s) \in Int
  BY RunningStep DEF Total, RunUpTo

(* Two sequences that agree on a prefix have the same running sums there. *)
LEMMA RunningPrefix ==
  ASSUME NEW s \in Seq(Int), NEW t \in Seq(Int), NEW m \in Nat, m <= Len(s), m <= Len(t),
         \A i \in 1..m : s[i] = t[i]
  PROVE  Running(s)[m] = Running(t)[m]
<1> DEFINE q == Running(s)
           r == Running(t)
           S == {k \in Nat : k <= m => q[k] = r[k]}
<1>1. RunUpTo(q, s, Len(s)) /\ RunUpTo(r, t, Len(t))
  BY RunningStep
<1> HIDE DEF q, r
<1>2. 0 \in S
  BY <1>1 DEF RunUpTo
<1>3. ASSUME NEW k \in S PROVE k+1 \in S
  <2>1. k \in Nat /\ Len(s) \in Nat /\ Len(t) \in Nat
    OBVIOUS
  <2>2. CASE k+1 <= m
    <3>1. q[k+1] = q[k] + s[k+1] /\ r[k+1] = r[k] + t[k+1]
      BY <1>1, <2>1, <2>2 DEF RunUpTo
    <3>2. q[k] = r[k] /\ s[k+1] = t[k+1]
      BY <1>3, <2>1, <2>2
    <3> QED BY <2>1, <3>1, <3>2
  <2> QED BY <2>1, <2>2
<1>4. S = Nat
  <2> HIDE DEF S
  <2> QED BY <1>2, <1>3, NatSetInduction, S \subseteq Nat DEF S
<1> QED BY <1>4 DEF q, r

(* Appending an element adds it to the sum. *)
LEMMA TotalAppend ==
  ASSUME NEW s \in Seq(Int), NEW x \in Int
  PROVE  Total(Append(s, x)) = Total(s) + x
<1> DEFINE t == Append(s, x)
           n == Len(s)
<1>1. t \in Seq(Int) /\ Len(t) = n+1 /\ t[n+1] = x /\ \A i \in 1..n : t[i] = s[i]
  OBVIOUS
<1>2. n \in Nat /\ n <= n /\ n <= n+1
  OBVIOUS
<1> HIDE DEF t
<1>3. Running(t)[n] = Running(s)[n]
  BY <1>1, <1>2, RunningPrefix
<1>4. Running(t)[n+1] = Running(t)[n] + t[n+1]
  <2>1. RunUpTo(Running(t), t, n+1)
    BY <1>1, RunningStep
  <2>2. n+1 \in 1..(n+1)
    BY <1>2
  <2> QED BY <1>2, <2>1, <2>2 DEF RunUpTo
<1> QED BY <1>1, <1>3, <1>4 DEF Total, t

(* Removing the first element takes it off the sum. *)
LEMMA TotalTail ==
  ASSUME NEW s \in Seq(Int), s # << >>
  PROVE  Total(Tail(s)) = Total(s) - Head(s)
<1> DEFINE t == Tail(s)
           q == Running(s)
           r == Running(t)
           S == {k \in Nat : k <= Len(t) => r[k] = q[k+1] - s[1]}
<1>1. /\ t \in Seq(Int) /\ Len(s) \in Nat \ {0} /\ Len(t) = Len(s) - 1 /\ Head(s) = s[1]
      /\ s[1] \in Int
      /\ \A i \in 1..Len(t) : t[i] = s[i+1]
  OBVIOUS
<1> HIDE DEF t
<1>2. RunUpTo(q, s, Len(s)) /\ RunUpTo(r, t, Len(t))
  BY <1>1, RunningStep
<1> HIDE DEF q, r
<1>3. 0 \in S
  <2>1. q[1] = q[0] + s[1] /\ q[0] = 0 /\ r[0] = 0
    BY <1>1, <1>2 DEF RunUpTo
  <2> QED BY <1>1, <2>1
<1>4. ASSUME NEW k \in S PROVE k+1 \in S
  <2>1. k \in Nat /\ Len(t) \in Nat
    BY <1>1
  <2>2. CASE k+1 <= Len(t)
    <3>3. k+2 \in 1..Len(s) /\ (k+2)-1 = k+1 /\ k+1 \in 1..Len(t) /\ (k+1)-1 = k
          /\ k+1 \in 0..Len(s)
      BY <1>1, <2>1, <2>2
    <3>1. q[k+2] = q[k+1] + s[k+2] /\ r[k+1] = r[k] + t[k+1] /\ q[k+1] \in Int
      BY <1>2, <3>3 DEF RunUpTo
    <3>2. r[k] = q[k+1] - s[1] /\ t[k+1] = s[k+2] /\ s[k+2] \in Int
      BY <1>1, <1>4, <2>1, <2>2
    <3> QED BY <1>1, <2>1, <3>1, <3>2
  <2> QED BY <2>1, <2>2
<1>5. S = Nat
  <2> HIDE DEF S
  <2> QED BY <1>3, <1>4, NatSetInduction, S \subseteq Nat DEF S
<1>6. r[Len(t)] = q[Len(s)] - s[1]
  <2>1. Len(t) \in Nat /\ Len(t) <= Len(t) /\ Len(t) + 1 = Len(s)
    BY <1>1
  <2>2. Len(t) \in S
    BY <1>5, <2>1
  <2> QED BY <2>1, <2>2
<1> QED BY <1>1, <1>6 DEF Total, t, q, r

(* Replacing the first element changes the sum by the difference. *)
LEMMA TotalReplaceHead ==
  ASSUME NEW s \in Seq(Int), s # << >>, NEW a \in Int
  PROVE  Total([s EXCEPT ![1] = a]) = Total(s) - Head(s) + a
<1> DEFINE t == [s EXCEPT ![1] = a]
<1>1. t \in Seq(Int) /\ t # << >> /\ Head(t) = a /\ Tail(t) = Tail(s)
  OBVIOUS
<1>4. Tail(s) \in Seq(Int) /\ Head(s) \in Int
  OBVIOUS
<1> HIDE DEF t
<1>2. Total(Tail(s)) \in Int /\ Total(s) \in Int /\ Total(t) \in Int /\ Head(s) \in Int
  BY <1>1, <1>4, TotalInt
<1>3. Total(Tail(t)) = Total(t) - Head(t) /\ Total(Tail(s)) = Total(s) - Head(s)
  BY <1>1, TotalTail
<1>6. Total(t) - a = Total(s) - Head(s)
  BY <1>1, <1>3
<1>5. Total(t) = Total(s) - Head(s) + a
  BY <1>2, <1>6
<1> QED BY <1>5 DEF t

(* The sum of naturals is a natural. *)
LEMMA TotalNat == ASSUME NEW s \in Seq(Nat) PROVE Total(s) \in Nat
<1> DEFINE q == Running(s)
           S == {k \in Nat : k <= Len(s) => q[k] \in Nat}
<1>1. s \in Seq(Int) /\ RunUpTo(q, s, Len(s))
  BY RunningStep
<1> HIDE DEF q
<1>2. 0 \in S
  BY <1>1 DEF RunUpTo
<1>3. ASSUME NEW k \in S PROVE k+1 \in S
  <2>1. k \in Nat /\ Len(s) \in Nat
    OBVIOUS
  <2>2. CASE k+1 <= Len(s)
    <3>1. q[k+1] = q[k] + s[k+1] /\ s[k+1] \in Nat
      BY <1>1, <2>1, <2>2 DEF RunUpTo
    <3>2. q[k] \in Nat
      BY <1>3, <2>1, <2>2
    <3> QED BY <2>1, <3>1, <3>2
  <2> QED BY <2>1, <2>2
<1>4. S = Nat
  <2> HIDE DEF S
  <2> QED BY <1>2, <1>3, NatSetInduction, S \subseteq Nat DEF S
<1> QED BY <1>4 DEF Total, q

(* A sequence with one element more sums to that much more.  This and the  *)
(* next two restate the lemmas above for sequences given by their elements.*)
LEMMA TotalGrows ==
  ASSUME NEW s \in Seq(Int), NEW t \in Seq(Int), Len(t) = Len(s) + 1,
         \A i \in 1..Len(s) : t[i] = s[i]
  PROVE  Total(t) = Total(s) + t[Len(t)]
<1>1. t = Append(s, t[Len(t)]) /\ t[Len(t)] \in Int
  OBVIOUS
<1> QED BY <1>1, TotalAppend

(* A sequence that lacks the first element of another sums to that less.   *)
LEMMA TotalShrinks ==
  ASSUME NEW s \in Seq(Int), NEW t \in Seq(Int), Len(s) = Len(t) + 1,
         \A i \in 1..Len(t) : t[i] = s[i+1]
  PROVE  Total(t) = Total(s) - s[1]
<1>1. t = Tail(s) /\ s # << >> /\ Head(s) = s[1]
  BY SMTT(20)
<1> QED BY <1>1, TotalTail

(* Two sequences that differ at most in the first element differ by that.  *)
LEMMA TotalHeadChanges ==
  ASSUME NEW s \in Seq(Int), NEW t \in Seq(Int), Len(s) = Len(t), s # << >>,
         \A i \in 2..Len(t) : t[i] = s[i]
  PROVE  Total(t) = Total(s) - s[1] + t[1]
<1>1. t = [s EXCEPT ![1] = t[1]] /\ t[1] \in Int /\ Head(s) = s[1]
  OBVIOUS
<1> QED BY <1>1, TotalReplaceHead

----------------------------------------------------------------------------
(* Sums of two sequences of the same length.                               *)

(* Zeros after the elements of a sequence leave its sum as it is.          *)
LEMMA TotalPadded ==
  ASSUME NEW s \in Seq(Int), NEW t \in Seq(Int), Len(s) <= Len(t),
         \A i \in 1..Len(s) : t[i] = s[i],
         \A i \in 1..Len(t) : i > Len(s) => t[i] = 0
  PROVE  Total(t) = Total(s)
<1> DEFINE r == Running(t)
           m == Len(s)
           S == {k \in Nat : m <= k /\ k <= Len(t) => r[k] = r[m]}
<1>1. RunUpTo(r, t, Len(t)) /\ m \in Nat /\ Len(t) \in Nat
  BY RunningStep
<1>2. r[m] = Total(s)
  BY <1>1, RunningPrefix DEF Total
<1> HIDE DEF r
<1>3. 0 \in S
  BY <1>1
<1>4. ASSUME NEW k \in S PROVE k+1 \in S
  <2>1. k \in Nat
    OBVIOUS
  <2>2. CASE m <= k /\ k+1 <= Len(t)
    <3>1. r[k+1] = r[k] + t[k+1] /\ t[k+1] = 0 /\ r[k] \in Int
      BY <1>1, <2>1, <2>2 DEF RunUpTo
    <3>2. r[k] = r[m]
      BY <1>4, <2>1, <2>2
    <3> QED BY <2>1, <3>1, <3>2
  <2>3. CASE m = k+1
    BY <2>3
  <2> QED BY <1>1, <2>1, <2>2, <2>3
<1>5. S = Nat
  <2> HIDE DEF S
  <2> QED BY <1>3, <1>4, NatSetInduction, S \subseteq Nat DEF S
<1>6. r[Len(t)] = r[m]
  BY <1>1, <1>5
<1> QED BY <1>2, <1>6 DEF Total, r

(* A sequence of zeros sums to zero.                                       *)
LEMMA TotalZeros ==
  ASSUME NEW t \in Seq(Int), \A i \in 1..Len(t) : t[i] = 0
  PROVE  Total(t) = 0
<1> DEFINE e == << >>
<1>1. e \in Seq(Int) /\ Len(e) <= Len(t) /\ \A i \in 1..Len(e) : t[i] = e[i]
  OBVIOUS
<1>2. \A i \in 1..Len(t) : i > Len(e) => t[i] = 0
  OBVIOUS
<1>3. Total(e) = 0
  BY TotalEmpty
<1> HIDE DEF e
<1> QED BY <1>1, <1>2, <1>3, TotalPadded

(* The sum of x[i] - c * y[i] is that of the x less c times that of the y. *)
LEMMA TotalCombined ==
  ASSUME NEW x \in Seq(Int), NEW y \in Seq(Int), NEW z \in Seq(Int), NEW c \in Int,
         Len(y) = Len(x), Len(z) = Len(x),
         \A i \in 1..Len(x) : z[i] = x[i] - c * y[i]
  PROVE  Total(z) = Total(x) - c * Total(y)
<1> DEFINE p == Running(x)
           q == Running(y)
           r == Running(z)
           n == Len(x)
           S == {k \in Nat : k <= n => r[k] = p[k] - c * q[k]}
<1>1. RunUpTo(p, x, n) /\ RunUpTo(q, y, n) /\ RunUpTo(r, z, n) /\ n \in Nat
  BY RunningStep
<1> HIDE DEF p, q, r
<1>2. 0 \in S
  BY <1>1 DEF RunUpTo
<1>3. ASSUME NEW k \in S PROVE k+1 \in S
  <2>1. k \in Nat
    OBVIOUS
  <2>2. CASE k+1 <= n
    <3>1. k \in 0..n /\ k+1 \in 1..n /\ (k+1)-1 = k
      BY <1>1, <2>1, <2>2
    <3>2. /\ p[k+1] = p[k] + x[k+1] /\ p[k] \in Int
          /\ q[k+1] = q[k] + y[k+1] /\ q[k] \in Int
          /\ r[k+1] = r[k] + z[k+1]
      BY <1>1, <3>1 DEF RunUpTo
    <3>3. z[k+1] = x[k+1] - c * y[k+1] /\ x[k+1] \in Int /\ y[k+1] \in Int
      BY <3>1
    <3>4. r[k] = p[k] - c * q[k]
      BY <1>3, <2>1, <2>2
    <3>5. c * (q[k] + y[k+1]) = c * q[k] + c * y[k+1] /\ c * q[k] \in Int /\ c * y[k+1] \in Int
      <4> DEFINE a == q[k]
                 b == y[k+1]
      <4>1. a \in Int /\ b \in Int
        BY <3>2, <3>3
      <4> HIDE DEF a, b
      <4>2. c * (a + b) = c * a + c * b /\ c * a \in Int /\ c * b \in Int
        BY <4>1
      <4> QED BY <4>2 DEF a, b
    <3> DEFINE cq == c * q[k]
               cy == c * y[k+1]
               cn == c * q[k+1]
    <3>6. r[k+1] = (p[k] - cq) + (x[k+1] - cy) /\ cn = cq + cy /\ cq \in Int /\ cy \in Int
      BY <3>2, <3>3, <3>4, <3>5
    <3> HIDE DEF cq, cy, cn
    <3>7. r[k+1] = p[k+1] - cn
      BY <3>2, <3>3, <3>6
    <3> QED BY <2>1, <3>7 DEF cn
  <2> QED BY <1>1, <2>1, <2>2
<1>4. S = Nat
  <2> HIDE DEF S
  <2> QED BY <1>2, <1>3, NatSetInduction, S \subseteq Nat DEF S
<1> QED BY <1>1, <1>4 DEF Total, p, q, r

(* A sum grows with its elements.                                          *)
LEMMA TotalMonotone ==
  ASSUME NEW s \in Seq(Int), NEW t \in Seq(Int), Len(s) = Len(t),
         \A i \in 1..Len(s) : s[i] <= t[i]
  PROVE  Total(s) <= Total(t)
<1> DEFINE d   == [i \in 1..Len(s) |-> t[i] - s[i]]
           one == 1
<1>1. d \in Seq(Nat) /\ d \in Seq(Int) /\ Len(d) = Len(t) /\ \A i \in 1..Len(t) : d[i] = t[i] - s[i]
  <2>1. \A i \in 1..Len(s) : t[i] - s[i] \in Nat
    OBVIOUS
  <2> QED BY <2>1
<1>3. one \in Int /\ (\A n \in Int : one * n = n) /\ \A i \in 1..Len(s) : s[i] \in Int
  OBVIOUS
<1> HIDE DEF d, one
<1>2. Total(s) \in Int /\ Total(t) \in Int /\ Total(d) \in Nat
  BY <1>1, TotalNat, TotalInt
<1>4. \A i \in 1..Len(t) : d[i] = t[i] - one * s[i]
  BY <1>1, <1>3
<1>5. Total(d) = Total(t) - one * Total(s)
  BY <1>1, <1>3, <1>4, TotalCombined
<1>6. Total(d) = Total(t) - Total(s)
  BY <1>2, <1>3, <1>5
<1> QED BY <1>2, <1>6

(* The sum of a sequence with one element that may not be zero is that one.*)
LEMMA TotalOfOne ==
  ASSUME NEW t \in Seq(Int), NEW k \in 1..Len(t), \A i \in 1..Len(t) : i # k => t[i] = 0
  PROVE  Total(t) = t[k]
<1> DEFINE u == [i \in 1..k |-> t[i]]
           z == [i \in 1..k-1 |-> 0]
<1>1. Len(t) \in Nat /\ k \in Nat /\ 1 <= k /\ k <= Len(t)
  OBVIOUS
<1>2. u \in Seq(Int) /\ Len(u) = k /\ \A i \in 1..k : u[i] = t[i]
  BY <1>1
<1>3. z \in Seq(Int) /\ Len(z) = k - 1 /\ \A i \in 1..k-1 : z[i] = 0
  BY <1>1
<1> HIDE DEF u, z
<1>4. Total(z) = 0
  BY <1>3, TotalZeros
<1>5. Total(u) = t[k]
  <2>1. ASSUME NEW i \in 1..k-1 PROVE u[i] = z[i]
    <3>1. i \in 1..k /\ i \in 1..Len(t) /\ i # k
      BY <1>1
    <3> QED BY <1>2, <1>3, <3>1
  <2>2. Total(u) = Total(z) + u[Len(u)]
    BY <1>1, <1>2, <1>3, <2>1, TotalGrows, SMTT(20)
  <2>3. u[Len(u)] = t[k] /\ t[k] \in Int
    BY <1>1, <1>2
  <2> QED BY <1>4, <2>2, <2>3
<1>6. Total(t) = Total(u)
  <2>1. Len(u) <= Len(t) /\ \A i \in 1..Len(u) : t[i] = u[i]
    BY <1>1, <1>2
  <2>2. \A i \in 1..Len(t) : i > Len(u) => t[i] = 0
    BY <1>1, <1>2
  <2> QED BY <1>2, <2>1, <2>2, TotalPadded
<1> QED BY <1>5, <1>6

(* Two sequences that differ at most in one element differ by that.        *)
LEMMA TotalOneChanges ==
  ASSUME NEW s \in Seq(Int), NEW t \in Seq(Int), Len(s) = Len(t), NEW k \in 1..Len(t),
         \A i \in 1..Len(t) : i # k => t[i] = s[i]
  PROVE  Total(t) = Total(s) + (t[k] - s[k])
<1> DEFINE d   == [i \in 1..Len(t) |-> t[i] - s[i]]
           one == 1
<1>1. /\ d \in Seq(Int) /\ Len(d) = Len(t) /\ \A i \in 1..Len(t) : d[i] = t[i] - s[i]
  BY \A i \in 1..Len(t) : t[i] \in Int /\ s[i] \in Int
<1>2. one \in Int /\ (\A n \in Int : one * n = n) /\ \A i \in 1..Len(t) : s[i] \in Int /\ t[i] \in Int
  OBVIOUS
<1> HIDE DEF d, one
<1>3. Total(s) \in Int /\ Total(t) \in Int /\ Total(d) \in Int
  BY <1>1, TotalInt
<1>4. \A i \in 1..Len(t) : d[i] = t[i] - one * s[i]
  BY <1>1, <1>2
<1>5. Total(d) = Total(t) - one * Total(s)
  BY <1>1, <1>2, <1>4, TotalCombined
<1>6. Total(d) = d[k]
  <2>1. k \in 1..Len(d)
    BY <1>1
  <2>2. \A i \in 1..Len(d) : i # k => d[i] = 0
    BY <1>1, <1>2
  <2> QED BY <1>1, <2>1, <2>2, TotalOfOne
<1>7. d[k] = t[k] - s[k] /\ one * Total(s) = Total(s) /\ s[k] \in Int /\ t[k] \in Int
  BY <1>1, <1>2, <1>3
<1> QED BY <1>3, <1>5, <1>6, <1>7

(* No element of a sum of naturals is above the sum.                       *)
LEMMA TotalAbove ==
  ASSUME NEW s \in Seq(Nat), NEW k \in 1..Len(s)
  PROVE  s[k] <= Total(s)
<1> DEFINE t == [i \in 1..Len(s) |-> IF i = k THEN s[k] ELSE 0]
<1>1. s \in Seq(Int) /\ s[k] \in Nat
  OBVIOUS
<1>2. t \in Seq(Int) /\ Len(t) = Len(s) /\ \A i \in 1..Len(s) : t[i] = IF i = k THEN s[k] ELSE 0
  BY <1>1
<1>3. \A i \in 1..Len(s) : t[i] <= s[i]
  BY <1>2
<1> HIDE DEF t
<1>4. Total(t) = s[k]
  BY <1>1, <1>2, TotalOfOne
<1>5. Total(t) <= Total(s)
  BY <1>1, <1>2, <1>3, TotalMonotone
<1> QED BY <1>4, <1>5
=============================================================================
