---------------------------- MODULE ScalingProofs ----------------------------
(***************************************************************************)
(* Proofs about SensorScaling: for all limits, of any exponent, within the *)
(* digits of InputAssumption.                                              *)
(*                                                                         *)
(* The invariant follows the base through the loops: base and exponent     *)
(* together stand for the range, then for the offset; a base in range      *)
(* rounds to ten bits; rounding and dividing by ten commute; and M, with   *)
(* two digits, is within 1 in 102 of the double.                           *)
(***************************************************************************)
EXTENDS SensorScaling, TLAPS

-----------------------------------------------------------------------------
(* When a loop ends, the base is in range, and as large as it can be.      *)
AsLarge == dbase.n = 0 \/ exp = -8 \/ ~InRange(Times10(dbase))

BaseInv ==
  /\ pc \in {"shrink", "round"} /\ InRange(dbase) => AsLarge
  /\ pc \in {"round", "normalize"} => InRange(dbase)

(* An integer m is as good as the double: 255 m and n 10^e differ by no    *)
(* more than rounding can do to a number of 51 or more.                    *)
Close(m, n, e) ==
  IF e >= 0 THEN 2 * Abs(255 * m - n * 10 ^ Least(e, 9)) <= 5 * m
            ELSE 2 * Abs(255 * m * 10 ^ Least(-e, 9) - n) <= 5 * m * 10 ^ Least(-e, 9)

Digits(m, r) == m * 10 ^ Least(r + 8, 2) >= 51

(* While M is scaled, base and exponent stand for the range.               *)
MultiplierInv ==
  of = "M" /\ pc \in Running =>
    /\ input.finite /\ input.range > 0 /\ dbase.n = input.range
    /\ (pc = "normalize" /\ ibase = 0) \/ dbase.e + exp = input.unit
    /\ pc = "normalize" /\ Digits(ibase, exp) => Close(ibase, dbase.n, dbase.e)

(* While B is, M is known, and they stand for the offset.                  *)
Unit == input.unit - multiplier.rExp

OffsetInv ==
  of = "B" =>
    /\ pc \in Running \cup {"illegal", "scaled"}
    /\ input.range > 0 /\ multiplier.m \in 1 .. 511 /\ Unit \in -8 .. 5
    /\ dbase.n = 255 * input.min - input.range * Lowest
    /\ \/ dbase.e + exp = Unit
       \/ pc \in {"normalize", "scaled"} /\ ibase = 0 /\ exp = 0
    /\ TwoDigits => Close(multiplier.m, input.range, Unit)

Started ==
  pc = "start" => of = "M"
ScaledInv ==
  pc = "scaled" =>
    /\ of = "B" /\ InRange(dbase) /\ ibase = RoundDiv(dbase.n, dbase.e, 255)
    /\ ibase = 0 => exp = 0

IInv ==
  /\ TypeOK /\ BaseInv /\ IntegerTracksDouble /\ MultiplierInv /\ OffsetInv
  /\ ScaledInv /\ Started

-----------------------------------------------------------------------------
(* Powers of ten.  The provers know 10 ^ k for a number k, and not for a   *)
(* variable.                                                               *)
LEMMA TenCases ==
  ASSUME NEW k \in Nat
  PROVE  \/ k = 0 /\ 10 ^ Least(k, 9) = 1 /\ 10 ^ Least(k, 4) = 1
         \/ k = 1 /\ 10 ^ Least(k, 9) = 10 /\ 10 ^ Least(k, 4) = 10
         \/ k = 2 /\ 10 ^ Least(k, 9) = 100 /\ 10 ^ Least(k, 4) = 100
         \/ k = 3 /\ 10 ^ Least(k, 9) = 1000 /\ 10 ^ Least(k, 4) = 1000
         \/ k = 4 /\ 10 ^ Least(k, 9) = 10000 /\ 10 ^ Least(k, 4) = 10000
         \/ k = 5 /\ 10 ^ Least(k, 9) = 100000 /\ 10 ^ Least(k, 4) = 10000
         \/ k = 6 /\ 10 ^ Least(k, 9) = 1000000 /\ 10 ^ Least(k, 4) = 10000
         \/ k = 7 /\ 10 ^ Least(k, 9) = 10000000 /\ 10 ^ Least(k, 4) = 10000
         \/ k = 8 /\ 10 ^ Least(k, 9) = 100000000 /\ 10 ^ Least(k, 4) = 10000
         \/ k >= 9 /\ 10 ^ Least(k, 9) = 1000000000 /\ 10 ^ Least(k, 4) = 10000
<1> DEFINE p == 10 ^ Least(k, 9)
           q == 10 ^ Least(k, 4)
<1>0. k = 0 => p = 1 /\ q = 1
  BY DEF Least
<1>1. k = 1 => p = 10 /\ q = 10
  BY DEF Least
<1>2. k = 2 => p = 100 /\ q = 100
  BY DEF Least
<1>3. k = 3 => p = 1000 /\ q = 1000
  BY DEF Least
<1>4. k = 4 => p = 10000 /\ q = 10000
  BY DEF Least
<1>5. k = 5 => p = 100000 /\ q = 10000
  BY DEF Least
<1>6. k = 6 => p = 1000000 /\ q = 10000
  BY DEF Least
<1>7. k = 7 => p = 10000000 /\ q = 10000
  BY DEF Least
<1>8. k = 8 => p = 100000000 /\ q = 10000
  BY DEF Least
<1>9. k >= 9 => p = 1000000000 /\ q = 10000
  BY DEF Least
<1> HIDE DEF p, q
<1> QED BY <1>0, <1>1, <1>2, <1>3, <1>4, <1>5, <1>6, <1>7, <1>8, <1>9 DEF p, q

(* Twice the rounded quotient, before it is rounded.                       *)
Twice(n, e) ==
  IF e >= 0 THEN (2 * Abs(n) * 10 ^ Least(e, 9)) \div 255
            ELSE ((2 * Abs(n)) \div 10 ^ Least(-e, 9)) \div 255

Away(t) == (t + 1) \div 2

LEMMA RoundIs ==
  ASSUME NEW n \in Int, NEW e \in Int
  PROVE  RoundDiv(n, e, 255) = IF n < 0 THEN -Away(Twice(n, e)) ELSE Away(Twice(n, e))
BY DEF RoundDiv, Twice, Away

(* A base in range, times 255.                                             *)
Limit(n) == IF n < 0 THEN 512 * 255 ELSE 511 * 255

LEMMA RangeIs ==
  ASSUME NEW n \in Int, NEW e \in Int, InRange([n |-> n, e |-> e])
  PROVE  /\ Abs(n) \in Nat /\ Limit(n) \in {511 * 255, 512 * 255}
         /\ e >= 0 => Abs(n) <= Limit(n) \div 10 ^ Least(e, 9)
         /\ e < 0 => Abs(n) <= Limit(n) * 10 ^ Least(-e, 4)
BY DEF InRange, AtMost, Abs, Limit

LEMMA DivTimes ==
  ASSUME NEW a \in Nat, NEW b \in Nat,
         NEW p \in {1, 10, 100, 1000, 10000, 100000, 1000000, 10000000, 100000000,
                    1000000000}
  PROVE  a <= b \div p <=> a * p <= b
<1>1. \A q \in {1, 10, 100, 1000, 10000} : a <= b \div q <=> a * q <= b
  OBVIOUS
<1>2. \A q \in {100000, 1000000, 10000000} : a <= b \div q <=> a * q <= b
  OBVIOUS
<1>3. \A q \in {100000000, 1000000000} : a <= b \div q <=> a * q <= b
  OBVIOUS
<1> QED BY <1>1, <1>2, <1>3

(* It rounds to an integer of ten bits.                                    *)
LEMMA TwiceBound ==
  ASSUME NEW n \in Int, NEW e \in Int, InRange([n |-> n, e |-> e])
  PROVE  Twice(n, e) \in 0 .. (IF n < 0 THEN 1024 ELSE 1022)
<1> DEFINE a == Abs(n)
           b == Limit(n)
<1>1. a \in Nat /\ b \in {511 * 255, 512 * 255} /\ b = IF n < 0 THEN 512 * 255 ELSE 511 * 255
  BY RangeIs DEF Limit
<1>2. CASE e >= 0
  <2> DEFINE p == 10 ^ Least(e, 9)
  <2>1. a <= b \div p /\ Twice(n, e) = (2 * a * p) \div 255
    BY <1>2, RangeIs DEF Twice
  <2>2. p \in {1, 10, 100, 1000, 10000, 100000, 1000000, 10000000, 100000000, 1000000000}
    BY <1>2, TenCases
  <2> HIDE DEF a, b, p
  <2>3. a * p <= b /\ a * p \in Nat
    BY <1>1, <2>1, <2>2, DivTimes
  <2>4. 2 * a * p = 2 * (a * p)
    BY <1>1, <2>2
  <2> QED BY <1>1, <2>1, <2>3, <2>4
<1>3. CASE e < 0
  <2> DEFINE p == 10 ^ Least(-e, 9)
             q == 10 ^ Least(-e, 4)
  <2>1. a <= b * q /\ Twice(n, e) = ((2 * a) \div p) \div 255
    BY <1>3, RangeIs DEF Twice
  <2>2. -e \in Nat /\ -e # 0
    BY <1>3
  <2>3. \/ p \in {10, 100, 1000} /\ q = p
        \/ p \in {10000, 100000, 1000000, 10000000, 100000000, 1000000000} /\ q = 10000
    <3> DEFINE k == -e
    <3>1. k \in Nat /\ k # 0
      BY <2>2
    <3> HIDE DEF k
    <3>2. LET x == 10 ^ Least(k, 9)
              y == 10 ^ Least(k, 4)
          IN  \/ x \in {10, 100, 1000} /\ y = x
              \/ x \in {10000, 100000, 1000000, 10000000, 100000000, 1000000000} /\ y = 10000
      BY <3>1, TenCases
    <3> QED BY <3>2 DEF k
  <2> HIDE DEF a, b, p, q
  <2> QED BY <1>1, <2>1, <2>3
<1> QED BY <1>2, <1>3

LEMMA TenStep ==
  ASSUME NEW k \in Nat
  PROVE  /\ k <= 8 => 10 ^ Least(k + 1, 9) = 10 * 10 ^ Least(k, 9)
         /\ k >= 9 => 10 ^ Least(k + 1, 9) = 10 ^ Least(k, 9)
         /\ k <= 3 => 10 ^ Least(k + 1, 4) = 10 * 10 ^ Least(k, 4)
         /\ k >= 4 => 10 ^ Least(k + 1, 4) = 10 ^ Least(k, 4)
<1> DEFINE l == k + 1
<1>1. l \in Nat
  OBVIOUS
<1> HIDE DEF l
<1>2. l = k + 1
  BY DEF l
<1> SUFFICES /\ k <= 8 => 10 ^ Least(l, 9) = 10 * 10 ^ Least(k, 9)
             /\ k >= 9 => 10 ^ Least(l, 9) = 10 ^ Least(k, 9)
             /\ k <= 3 => 10 ^ Least(l, 4) = 10 * 10 ^ Least(k, 4)
             /\ k >= 4 => 10 ^ Least(l, 4) = 10 ^ Least(k, 4)
  BY <1>2
<1> QED BY <1>1, <1>2, TenCases

(* A tenth of the base rounds to a tenth of the integer, if that is one.   *)
LEMMA TwiceTenth ==
  ASSUME NEW n \in Int, NEW e \in Int, InRange([n |-> n, e |-> e])
  PROVE  /\ Twice(n, e - 1) = Twice(n, e) \div 10
         /\ InRange([n |-> n, e |-> e - 1])
<1> DEFINE a == Abs(n)
           b == Limit(n)
<1>1. /\ a \in Nat /\ b \in {511 * 255, 512 * 255}
      /\ b = IF n < 0 THEN 512 * 255 ELSE 511 * 255
  BY RangeIs DEF Limit
<1>2. CASE e >= 1
  <2> DEFINE k == e - 1
             p == 10 ^ Least(e, 9)
             q == 10 ^ Least(k, 9)
  <2>1. /\ a <= b \div p /\ Twice(n, e) = (2 * a * p) \div 255
        /\ Twice(n, e - 1) = (2 * a * q) \div 255
    BY <1>2, RangeIs DEF Twice
  <2>2. k \in Nat /\ e = k + 1 /\ e \in Nat
    BY <1>2
  <2>3. IF k <= 8 THEN p = 10 * q ELSE p = q /\ p = 1000000000
    BY <2>2, TenStep, TenCases
  <2>4. q \in {1, 10, 100, 1000, 10000, 100000, 1000000, 10000000, 100000000, 1000000000}
    BY <2>2, TenCases
  <2>5. p \in {1, 10, 100, 1000, 10000, 100000, 1000000, 10000000, 100000000, 1000000000}
    BY <2>2, TenCases
  <2>6. InRange([n |-> n, e |-> k]) <=> n <= (511 * 255) \div q /\ -n <= (512 * 255) \div q
    BY <2>2 DEF InRange, AtMost
  <2>7. InRange([n |-> n, e |-> e]) <=> n <= (511 * 255) \div p /\ -n <= (512 * 255) \div p
    BY <1>2 DEF InRange, AtMost
  <2>8. a = IF n < 0 THEN -n ELSE n
    BY DEF Abs
  <2> HIDE DEF a, b, p, q, k
  <2>9. CASE k <= 8
    <3>1. (2 * a * q) \div 255 = ((2 * a * p) \div 255) \div 10
      <4> DEFINE x == 2 * a * q
      <4>1. x \in Int /\ 2 * a * p = 10 * x
        BY <1>1, <2>3, <2>4, <2>9
      <4> HIDE DEF x
      <4>2. x \div 255 = ((10 * x) \div 255) \div 10
        BY <4>1
      <4> QED BY <4>1, <4>2 DEF x
    <3>2. n <= (511 * 255) \div q /\ -n <= (512 * 255) \div q
      BY <2>3, <2>4, <2>5, <2>7, <2>9
    <3> QED BY <2>1, <2>2, <2>6, <3>1, <3>2 DEF k
  <2>10. CASE k > 8
    <3>1. a = 0 /\ p = q
      BY <1>1, <2>1, <2>2, <2>3, <2>10
    <3> QED BY <2>1, <2>2, <2>3, <2>6, <2>7, <2>10, <3>1 DEF k
  <2> QED BY <2>2, <2>9, <2>10
<1>3. CASE e <= 0
  <2> DEFINE k == -e
             l == k + 1
             p == 10 ^ Least(k, 9)
             q == 10 ^ Least(l, 9)
             r == 10 ^ Least(k, 4)
             s == 10 ^ Least(l, 4)
  <2>1. k \in Nat /\ l = k + 1 /\ -(e - 1) = l /\ e - 1 < 0
    BY <1>3
  <2>2. Twice(n, e - 1) = ((2 * a) \div q) \div 255
    BY <2>1 DEF Twice
  <2>3. Twice(n, e) = ((2 * a) \div p) \div 255
    <3>1. CASE e = 0
      <4>1. 10 ^ Least(e, 9) = 1 /\ p = 1
        BY <3>1 DEF Least
      <4> HIDE DEF a, p
      <4> QED BY <1>1, <3>1, <4>1 DEF Twice, a
    <3> QED BY <1>3, <3>1 DEF Twice
  <2>4. a <= b * r
    <3>1. CASE e = 0
      <4>1. 10 ^ Least(e, 9) = 1 /\ r = 1
        BY <3>1 DEF Least
      <4>2. a <= b \div 1
        BY <3>1, <4>1, RangeIs
      <4> QED BY <1>1, <4>1, <4>2
    <3> QED BY <1>3, <3>1, RangeIs
  <2>5. InRange([n |-> n, e |-> e - 1]) <=> n <= 511 * 255 * s /\ -n <= 512 * 255 * s
    BY <2>1 DEF InRange, AtMost
  <2>6. /\ IF k <= 8 THEN q = 10 * p ELSE p = 1000000000 /\ q = p
        /\ IF k <= 3 THEN s = 10 * r ELSE s = 10000 /\ r = 10000
        /\ p \in {1, 10, 100, 1000, 10000, 100000, 1000000, 10000000, 100000000, 1000000000}
        /\ r \in {1, 10, 100, 1000, 10000}
    <3> HIDE DEF k, l
    <3> QED BY <2>1, TenStep, TenCases
  <2>7. a = IF n < 0 THEN -n ELSE n
    BY DEF Abs
  <2> HIDE DEF a, b, p, q, r, s, k, l
  <2>8. n <= 511 * 255 * s /\ -n <= 512 * 255 * s
    BY <1>1, <2>4, <2>6, <2>7
  <2>9. ((2 * a) \div q) \div 255 = (((2 * a) \div p) \div 255) \div 10
    <3>1. CASE k <= 8
      BY <1>1, <2>6, <3>1
    <3>2. CASE k > 8
      BY <1>1, <2>1, <2>4, <2>6, <3>2
    <3> QED BY <2>1, <3>1, <3>2
  <2> QED BY <2>2, <2>3, <2>5, <2>8, <2>9
<1> QED BY <1>2, <1>3

LEMMA RoundBound ==
  ASSUME NEW n \in Int, NEW e \in Int, InRange([n |-> n, e |-> e])
  PROVE  /\ RoundDiv(n, e, 255) \in IBase
         /\ n >= 0 => RoundDiv(n, e, 255) \in 0 .. 511
<1> DEFINE t == Twice(n, e)
<1>1. t \in 0 .. (IF n < 0 THEN 1024 ELSE 1022)
  BY TwiceBound
<1>2. RoundDiv(n, e, 255) = IF n < 0 THEN -Away(t) ELSE Away(t)
  BY RoundIs
<1> HIDE DEF t
<1> QED BY <1>1, <1>2 DEF Away, IBase

LEMMA RoundTenth ==
  ASSUME NEW n \in Int, NEW e \in Int, InRange([n |-> n, e |-> e]),
         RoundDiv(n, e, 255) % 10 = 0
  PROVE  RoundDiv(n, e - 1, 255) = RoundDiv(n, e, 255) \div 10
<1> DEFINE t == Twice(n, e)
           u == Twice(n, e - 1)
<1>1. t \in Nat /\ u = t \div 10
  <2>1. t \in 0 .. (IF n < 0 THEN 1024 ELSE 1022)
    BY TwiceBound
  <2>2. u = t \div 10
    BY TwiceTenth
  <2> HIDE DEF t, u
  <2> QED BY <2>1, <2>2
<1>2. RoundDiv(n, e, 255) = IF n < 0 THEN -Away(t) ELSE Away(t)
  BY RoundIs
<1>3. RoundDiv(n, e - 1, 255) = IF n < 0 THEN -Away(u) ELSE Away(u)
  <2> DEFINE f == e - 1
  <2>1. f \in Int
    OBVIOUS
  <2> HIDE DEF f
  <2>2. RoundDiv(n, f, 255) = IF n < 0 THEN -Away(Twice(n, f)) ELSE Away(Twice(n, f))
    BY <2>1, RoundIs
  <2> QED BY <2>2 DEF f
<1> HIDE DEF t, u
<1>4. Away(t) % 10 = 0 /\ Away(t) \in Nat
  BY <1>1, <1>2 DEF Away
<1>5. Away(u) = Away(t) \div 10
  BY <1>1, <1>4 DEF Away
<1> QED BY <1>2, <1>3, <1>4, <1>5

LEMMA ZeroInRange ==
  ASSUME NEW e \in Int
  PROVE  InRange([n |-> 0, e |-> e])
<1>1. CASE e >= 0
  <2>1. 10 ^ Least(e, 9) \in
          {1, 10, 100, 1000, 10000, 100000, 1000000, 10000000, 100000000, 1000000000}
    BY <1>1, TenCases, SMT
  <2> QED BY <1>1, <2>1, SMT DEF InRange, AtMost
<1>2. CASE e < 0
  <2> DEFINE k == -e
  <2>1. k \in Nat /\ ~(e >= 0)
    BY <1>2
  <2> HIDE DEF k
  <2>2. 10 ^ Least(k, 4) \in {1, 10, 100, 1000, 10000}
    BY <2>1, TenCases, SMT
  <2> QED BY <2>1, <2>2 DEF InRange, AtMost, k
<1> QED BY <1>1, <1>2

(* A range whose multiplier is not 0 is not far from it in its exponent.   *)
LEMMA ExponentBound ==
  ASSUME NEW n \in Nat, n >= 1, n <= 10000, NEW e \in Int, InRange([n |-> n, e |-> e])
  PROVE  e <= 5 /\ (RoundDiv(n, e, 255) # 0 => e >= -8)
<1>0. Abs(n) = n /\ Limit(n) = 511 * 255 /\ n \in Int /\ n >= 1
  BY DEF Abs, Limit
<1>1. e <= 5
  <2> DEFINE p == 10 ^ Least(e, 9)
  <2>1. e > 5 => e \in Nat /\ n <= (511 * 255) \div p
    BY <1>0, RangeIs
  <2>2. e > 5 => p \in {1000000, 10000000, 100000000, 1000000000}
    BY <2>1, TenCases, SMT
  <2> HIDE DEF p
  <2>3. \A d \in {1000000, 10000000, 100000000, 1000000000} : (511 * 255) \div d = 0
    BY SMT
  <2>4. e > 5 => (511 * 255) \div p = 0
    BY <2>2, <2>3
  <2> QED BY <1>0, <2>1, <2>4
<1>2. ASSUME e < -8 PROVE RoundDiv(n, e, 255) = 0
  <2> DEFINE k == -e
             p == 10 ^ Least(k, 9)
  <2>1. k \in Nat /\ k >= 9 /\ Twice(n, e) = ((2 * n) \div p) \div 255
    BY <1>0, <1>2 DEF Twice
  <2> HIDE DEF k
  <2>2. p = 1000000000
    BY <2>1, TenCases, SMT
  <2> HIDE DEF p
  <2>3. Twice(n, e) = 0
    BY <2>1, <2>2, SMT
  <2> QED BY <1>0, <2>3, RoundIs DEF Away
<1> QED BY <1>1, <1>2

(* A multiplier of two digits is close to the double it was rounded from.  *)
LEMMA CloseRound ==
  ASSUME NEW n \in Nat, n >= 1, n <= 10000, NEW e \in Int, RoundDiv(n, e, 255) >= 51
  PROVE  Close(RoundDiv(n, e, 255), n, e)
<1> DEFINE m == RoundDiv(n, e, 255)
           t == Twice(n, e)
<1>0. Abs(n) = n /\ n \in Nat /\ n <= 10000 /\ m = Away(t)
  BY RoundIs DEF Abs
<1>1. CASE e >= 0
  <2> DEFINE p == 10 ^ Least(e, 9)
             x == n * p
  <2>1. p \in {1, 10, 100, 1000, 10000, 100000, 1000000, 10000000, 100000000, 1000000000}
    BY <1>1, TenCases, SMT
  <2>2. t = (2 * n * p) \div 255
    BY <1>0, <1>1 DEF Twice
  <2>3. Close(m, n, e) <=> 2 * Abs(255 * m - x) <= 5 * m
    BY <1>1 DEF Close
  <2> HIDE DEF p, t, m
  <2>4. x \in Nat /\ 2 * n * p = 2 * x
    BY <1>0, <2>1, SMT
  <2> HIDE DEF x
  <2>5. m \in Nat /\ m >= 51 /\ m = (((2 * x) \div 255) + 1) \div 2
    BY <1>0, <2>2, <2>4 DEF Away, m
  <2>6. 2 * Abs(255 * m - x) <= 5 * m
    BY <2>4, <2>5 DEF Abs
  <2> QED BY <2>3, <2>6 DEF m
<1>2. e >= 0
  <2> DEFINE k == -e
             p == 10 ^ Least(k, 9)
  <2>1. e < 0 => k \in Nat /\ k # 0 /\ t = ((2 * n) \div p) \div 255
    BY <1>0 DEF Twice
  <2> HIDE DEF k, t
  <2>2. e < 0 => p \in {10, 100, 1000, 10000, 100000, 1000000, 10000000, 100000000, 1000000000}
    BY <2>1, TenCases, SMT
  <2> HIDE DEF p
  <2>3. \A d \in {10, 100, 1000, 10000, 100000, 1000000, 10000000, 100000000, 1000000000} :
          ((2 * n) \div d) \div 255 \in 0 .. 7
    BY <1>0, SMT
  <2>4. e < 0 => t \in 0 .. 7
    BY <2>1, <2>2, <2>3
  <2>5. e < 0 => m <= 4
    BY <1>0, <2>4 DEF Away
  <2>6. m >= 51
    OBVIOUS
  <2> QED BY <1>0, <2>4, <2>5, <2>6 DEF Away
<1> QED BY <1>1, <1>2

(* A base that is as large as it can be has two digits.                    *)
LEMMA LargeEnough ==
  ASSUME NEW n \in Nat, n >= 1, n <= 10000, NEW e \in Int, InRange([n |-> n, e |-> e]),
         ~InRange([n |-> n, e |-> e + 1])
  PROVE  RoundDiv(n, e, 255) >= 51
<1> DEFINE k == e + 1
           p == 10 ^ Least(e, 9)
           q == 10 ^ Least(k, 9)
<1>0. /\ Abs(n) = n /\ n \in Nat /\ n >= 1 /\ n <= 10000 /\ e <= 5
      /\ RoundDiv(n, e, 255) = Away(Twice(n, e))
  <2>1. Abs(n) = n /\ n \in Nat /\ n >= 1 /\ n <= 10000
    BY DEF Abs
  <2>2. e <= 5
    BY ExponentBound
  <2> QED BY <2>1, <2>2, RoundIs
<1>1. e >= -1
  <2> DEFINE j == -k
  <2>1. e < -1 => ~AtMost(n, k, 511 * 255) \/ ~AtMost(-n, k, 512 * 255)
    BY DEF InRange
  <2>2. e < -1 =>
          \/ ~(n <= 511 * 255 * 10 ^ Least(j, 4))
          \/ ~(-n <= 512 * 255 * 10 ^ Least(j, 4))
    BY <2>1 DEF AtMost
  <2>3. e < -1 => j \in Nat
    OBVIOUS
  <2> HIDE DEF j
  <2>4. e < -1 => 10 ^ Least(j, 4) \in {1, 10, 100, 1000, 10000}
    BY <2>3, TenCases
  <2> QED BY <1>0, <2>2, <2>4
<1>2. k \in Nat /\ (~(n <= (511 * 255) \div q) \/ ~(-n <= (512 * 255) \div q))
  BY <1>1 DEF InRange, AtMost
<1>3. CASE e >= 0
  <2>1. e \in Nat /\ e <= 8 /\ k = e + 1
    BY <1>0, <1>3
  <2>2. q = 10 * p /\ p \in {1, 10, 100, 1000, 10000, 100000, 1000000, 10000000, 100000000}
    BY <2>1, TenStep, TenCases, SMT
  <2>3. Twice(n, e) = (2 * n * p) \div 255
    BY <1>0, <1>3 DEF Twice
  <2> DEFINE x == n * p
  <2> HIDE DEF k, p, q
  <2>4. x \in Nat /\ 2 * n * p = 2 * x /\ n * q = 10 * x
    BY <1>0, <2>2, SMT
  <2>5. 10 * x > 511 * 255
    <3>1. q \in {1, 10, 100, 1000, 10000, 100000, 1000000, 10000000, 100000000, 1000000000}
      BY <2>2, SMT
    <3>2. -n <= (512 * 255) \div q
      BY <1>0, <3>1, SMT
    <3>3. n <= (511 * 255) \div q <=> n * q <= 511 * 255
      BY <1>0, <3>1, DivTimes, SMT
    <3> QED BY <1>2, <2>4, <3>2, <3>3, SMT
  <2> HIDE DEF x
  <2>6. Away((2 * x) \div 255) >= 51
    BY <2>4, <2>5 DEF Away
  <2> QED BY <1>0, <2>3, <2>4, <2>6
<1>4. CASE e = -1
  <2>1. q = 1
    BY <1>4 DEF Least
  <2> HIDE DEF q
  <2> QED BY <1>0, <1>2, <2>1
<1> QED BY <1>1, <1>3, <1>4

LEMMA CloseTenth ==
  ASSUME NEW n \in Nat, NEW e \in -8 .. 5, NEW m \in Nat, m % 10 = 0, Close(m, n, e)
  PROVE  Close(m \div 10, n, e - 1)
<1> DEFINE l == m \div 10
<1>0. l \in Nat /\ m = 10 * l
  OBVIOUS
<1> HIDE DEF l
<1>1. CASE e >= 1
  <2> DEFINE k == e - 1
             p == 10 ^ Least(e, 9)
             q == 10 ^ Least(k, 9)
  <2>1. k \in 0 .. 4 /\ e = k + 1
    BY <1>1
  <2>2. 2 * Abs(255 * m - n * p) <= 5 * m
    BY <1>1 DEF Close
  <2>3. Close(l, n, k) <=> 2 * Abs(255 * l - n * q) <= 5 * l
    BY <2>1 DEF Close
  <2>4. p = 10 * q /\ q \in {1, 10, 100, 1000, 10000}
    <3> HIDE DEF k
    <3> QED BY <2>1, TenStep, TenCases
  <2> DEFINE x == n * q
  <2> HIDE DEF p, q, k
  <2>5. x \in Nat /\ n * p = 10 * x
    BY <2>4
  <2>6. n * q = x
    OBVIOUS
  <2> HIDE DEF x
  <2>7. 2 * Abs(255 * l - x) <= 5 * l
    BY <1>0, <2>2, <2>5 DEF Abs
  <2> QED BY <2>3, <2>6, <2>7 DEF k, l
<1>2. CASE e <= 0
  <2> DEFINE k == -e
             j == k + 1
             p == 10 ^ Least(k, 9)
             q == 10 ^ Least(j, 9)
  <2>1. k \in 0 .. 8 /\ j = k + 1 /\ -(e - 1) = j /\ e - 1 < 0 /\ ~(e - 1 >= 0)
    BY <1>2
  <2>2. Close(l, n, e - 1) <=> 2 * Abs(255 * l * q - n) <= 5 * l * q
    BY <2>1 DEF Close
  <2>3. q = 10 * p /\ p \in {1, 10, 100, 1000, 10000, 100000, 1000000, 10000000, 100000000}
    <3> HIDE DEF k, j
    <3> QED BY <2>1, TenStep, TenCases, SMT
  <2>4. 2 * Abs(255 * m * p - n) <= 5 * m * p
    <3>1. CASE e = 0
      <4>1. 10 ^ Least(e, 9) = 1 /\ p = 1
        BY <3>1 DEF Least
      <4>2. 2 * Abs(255 * m - n * 1) <= 5 * m
        BY <3>1, <4>1 DEF Close
      <4> HIDE DEF p
      <4>3. 255 * m * p = 255 * m /\ 5 * m * p = 5 * m /\ n * 1 = n
        BY <4>1
      <4> QED BY <4>2, <4>3
    <3>2. CASE e < 0
      BY <3>2 DEF Close
    <3> QED BY <1>2, <3>1, <3>2
  <2> HIDE DEF p, q, k, j
  <2>5. 255 * l * q = 255 * m * p /\ 5 * l * q = 5 * m * p
    BY <1>0, <2>3, SMT
  <2> QED BY <2>2, <2>4, <2>5 DEF l
<1> QED BY <1>1, <1>2

-----------------------------------------------------------------------------
(* The steps.                                                              *)

LEMMA TypeFacts ==
  ASSUME TypeOK
  PROVE  /\ input.min \in Int /\ input.range \in Int /\ input.range <= 10000
         /\ input.unit \in Int
         /\ dbase.n \in Int /\ dbase.e \in Int
         /\ multiplier.m \in IBase /\ multiplier.rExp \in Exp
<1>1. input.min \in Minima /\ input.range \in Ranges /\ input.unit \in Units
  BY DEF TypeOK, Input
<1>2. dbase.n \in Int /\ dbase.e \in Int /\ multiplier.m \in IBase /\ multiplier.rExp \in Exp
  BY DEF TypeOK
<1>3. input.min \in Int /\ input.unit \in Int
  <2>1. \A m \in Minima : m \in Int
    BY InputAssumption
  <2>2. Units \subseteq Int
    BY InputAssumption
  <2> QED BY <1>1, <2>1, <2>2
<1>4. input.range \in Int /\ Abs(input.range) <= 10000
  BY <1>1, InputAssumption
<1>5. input.range <= 10000
  BY <1>4 DEF Abs
<1> QED BY <1>2, <1>3, <1>4, <1>5

LEMMA BaseIs == \A d : InRange(d) <=> InRange([n |-> d.n, e |-> d.e])
BY DEF InRange

LEMMA ExponentFacts ==
  \A x \in Exp : x \in Int /\ x >= -8 /\ x <= 7
BY DEF Exp

(* M is at hand when B is solved, and dbase is still dM.                   *)
LEMMA SolveBFacts ==
  ASSUME IInv, SolveB
  PROVE  /\ dbase.n = input.range /\ input.range >= 1 /\ input.unit - exp = dbase.e
         /\ dbase'.n = 255 * input.min - input.range * Lowest
         /\ dbase'.e = dbase.e /\ dbase' \in [n : Int, e : Int]
         /\ ibase \in 1 .. 511 /\ ibase = RoundDiv(input.range, dbase.e, 255)
         /\ dbase.e \in -8 .. 5
         /\ Digits(ibase, exp) => Close(ibase, input.range, dbase.e)
<1>0. /\ TypeOK /\ pc = "normalize" /\ of = "M" /\ ibase # 0 /\ input.range > 0
      /\ dbase.n = input.range /\ dbase.e + exp = input.unit
      /\ Digits(ibase, exp) => Close(ibase, dbase.n, dbase.e)
      /\ ibase = RoundDiv(dbase.n, dbase.e, 255)
      /\ InRange([n |-> dbase.n, e |-> dbase.e])
  BY BaseIs DEF IInv, BaseInv, IntegerTracksDouble, MultiplierInv, SolveB, Normalized, Running
<1>1. /\ input.min \in Int /\ input.range \in Int /\ input.range <= 10000
      /\ input.unit \in Int /\ dbase.n \in Int /\ dbase.e \in Int /\ exp \in Int
  BY <1>0, TypeFacts, ExponentFacts DEF TypeOK
<1>2. dbase.e + exp - input.unit = 0 /\ input.unit - exp = dbase.e /\ input.range >= 1
  BY <1>0, <1>1
<1>3. 10 ^ (dbase.e + exp - input.unit) = 1
  <2> DEFINE k == dbase.e + exp - input.unit
  <2>1. k = 0
    BY <1>2
  <2> HIDE DEF k
  <2>2. 10 ^ k = 1
    BY <2>1
  <2> QED BY <2>2 DEF k
<1>4. dbase' = [n |-> 255 * input.min - dbase.n * 10 ^ (dbase.e + exp - input.unit) * Lowest,
                e |-> input.unit - exp]
  BY DEF SolveB, StartScale
<1>5. Lowest \in Int
  BY DEF Lowest
<1>6. dbase.n * 1 * Lowest = input.range * Lowest /\ input.range * Lowest \in Int
  BY <1>0, <1>1, <1>5
<1>7. ibase \in 1 .. 511
  <2>1. ibase \in 0 .. 511
    BY <1>0, <1>1, <1>2, RoundBound
  <2> QED BY <1>0, <2>1
<1>8. dbase.e \in -8 .. 5
  <2> DEFINE n == dbase.n
             e == dbase.e
  <2>1. n \in Nat /\ n >= 1 /\ n <= 10000 /\ e \in Int
    BY <1>0, <1>1, <1>2
  <2>2. InRange([n |-> n, e |-> e]) /\ RoundDiv(n, e, 255) # 0
    BY <1>0
  <2> HIDE DEF n, e
  <2>3. e <= 5 /\ e >= -8
    BY <2>1, <2>2, ExponentBound
  <2> QED BY <2>1, <2>3 DEF e
<1>9. dbase'.n = 255 * input.min - input.range * Lowest
  BY <1>3, <1>4, <1>6
<1>10. dbase'.e = dbase.e
  BY <1>2, <1>4
<1>11. dbase' \in [n : Int, e : Int]
  <2> DEFINE N == 255 * input.min - dbase.n * 10 ^ (dbase.e + exp - input.unit) * Lowest
             E == input.unit - exp
  <2>1. N \in Int
    <3>1. N = 255 * input.min - input.range * Lowest
      BY <1>3, <1>6
    <3>2. 255 * input.min \in Int
      BY <1>1
    <3>3. \A x, y \in Int : x - y \in Int
      OBVIOUS
    <3> HIDE DEF N
    <3> QED BY <1>6, <3>1, <3>2, <3>3
  <2>2. E \in Int
    BY <1>1
  <2>3. dbase' = [n |-> N, e |-> E]
    BY <1>4
  <2> HIDE DEF N, E
  <2> QED BY <2>1, <2>2, <2>3
<1> QED BY <1>0, <1>1, <1>2, <1>7, <1>8, <1>9, <1>10, <1>11

LEMMA TypeNext ==
  ASSUME IInv, [Next]_vars
  PROVE  TypeOK'
<1> USE DEF TypeOK
<1>0. TypeOK /\ exp \in Exp
  BY DEF IInv
<1>1. CASE SolveM
  <2>1. input.range \in Int /\ input.unit \in Int
    BY <1>0, TypeFacts
  <2>2. 0 \in IBase /\ 0 \in Exp
    BY DEF IBase, Exp
  <2> QED BY <1>0, <1>1, <2>1, <2>2 DEF SolveM, StartScale, Running
<1>2. CASE Expand \/ Shrink
  <2>1. exp' \in Exp
    BY <1>0, <1>2 DEF Expand, Shrink, CanExpand, CanShrink, Exp
  <2>2. dbase' \in [n : Int, e : Int]
    BY <1>0, <1>2 DEF Expand, Shrink, Times10, Over10
  <2> QED BY <1>0, <1>2, <2>1, <2>2 DEF Expand, Shrink, Running
<1>3. CASE Round
  <2>1. InRange([n |-> dbase.n, e |-> dbase.e]) /\ dbase.n \in Int /\ dbase.e \in Int
    BY <1>3, TypeFacts, BaseIs DEF IInv, BaseInv, Round
  <2>2. ibase' \in IBase
    BY <1>3, <2>1, RoundBound DEF Round
  <2> QED BY <1>0, <1>3, <2>2 DEF Round, Running
<1>4. CASE Normalize
  <2>1. ibase' \in IBase /\ exp' \in Exp
    BY <1>0, <1>4 DEF Normalize, CanNormalize, IBase, Exp
  <2>2. dbase' \in [n : Int, e : Int]
    BY <1>0, <1>4 DEF Normalize, Over10
  <2> QED BY <1>0, <1>4, <2>1, <2>2 DEF Normalize, Running
<1>5. CASE NormalizeZero
  BY <1>0, <1>5 DEF NormalizeZero, Exp
<1>6. CASE SolveB
  <2>1. 0 \in IBase /\ 0 \in Exp
    BY DEF IBase, Exp
  <2> QED BY <1>0, <1>6, <2>1, SolveBFacts DEF SolveB, StartScale, Running
<1>7. CASE BadLimits \/ ExpandEnds \/ IsZero \/ ShrinkEnds \/ BeyondScale \/ BelowScale \/ Scaled
  BY <1>0, <1>7 DEF BadLimits, ExpandEnds, IsZero, ShrinkEnds, BeyondScale, BelowScale, Scaled,
                    Goto, Running
<1>8. CASE UNCHANGED vars
  BY <1>0, <1>8 DEF vars
<1> QED BY <1>1, <1>2, <1>3, <1>4, <1>5, <1>6, <1>7, <1>8 DEF Next

LEMMA BaseNext ==
  ASSUME IInv, [Next]_vars
  PROVE  BaseInv'
<1>0. TypeOK /\ BaseInv /\ dbase.n \in Int /\ dbase.e \in Int
  BY TypeFacts DEF IInv
<1>1. CASE SolveM \/ Expand \/ SolveB \/ BadLimits \/ BeyondScale \/ BelowScale \/ Scaled
  BY <1>1 DEF SolveM, Expand, SolveB, StartScale, BadLimits, BeyondScale, BelowScale, Scaled,
              Goto, BaseInv
<1>2. CASE ExpandEnds
  <2>1. InRange(dbase) => exp = -8
    BY <1>0, <1>2 DEF ExpandEnds, CanExpand, TypeOK, Exp
  <2>2. pc' = "shrink" /\ dbase' = dbase /\ exp' = exp
    BY <1>2 DEF ExpandEnds, Goto
  <2> QED BY <2>1, <2>2 DEF BaseInv, AsLarge
<1>3. CASE IsZero
  <2>1. InRange(dbase)
    BY <1>0, <1>3, ZeroInRange, BaseIs DEF IsZero
  <2>2. pc' = "round" /\ dbase' = dbase /\ dbase.n = 0
    BY <1>3 DEF IsZero, Goto
  <2> QED BY <2>1, <2>2 DEF BaseInv, AsLarge
<1>4. CASE Shrink
  <2>1. pc' = "shrink" /\ ~InRange(dbase) /\ dbase' = Over10(dbase)
    BY <1>4 DEF Shrink
  <2> DEFINE d == Times10(dbase')
  <2>2. d.n = dbase.n /\ d.e = dbase.e
    BY <1>0, <2>1 DEF Times10, Over10, TypeOK
  <2>3. ~InRange(d)
    BY <2>1, <2>2, BaseIs
  <2> QED BY <2>1, <2>3 DEF BaseInv, AsLarge
<1>5. CASE ShrinkEnds
  BY <1>0, <1>5 DEF ShrinkEnds, Goto, BaseInv, AsLarge
<1>6. CASE Round \/ NormalizeZero
  BY <1>0, <1>6 DEF Round, NormalizeZero, BaseInv
<1>7. CASE Normalize
  <2>1. InRange([n |-> dbase.n, e |-> dbase.e]) /\ pc' = "normalize" /\ dbase' = Over10(dbase)
    BY <1>0, <1>7, BaseIs DEF Normalize, BaseInv
  <2>2. InRange([n |-> dbase.n, e |-> dbase.e - 1])
    BY <1>0, <2>1, TwiceTenth
  <2>3. dbase'.n = dbase.n /\ dbase'.e = dbase.e - 1
    BY <1>0, <2>1 DEF Over10, TypeOK
  <2>4. InRange(dbase')
    BY <2>2, <2>3, BaseIs
  <2> QED BY <2>1, <2>4 DEF BaseInv
<1>8. CASE UNCHANGED vars
  BY <1>0, <1>8 DEF BaseInv, AsLarge, vars
<1> QED BY <1>1, <1>2, <1>3, <1>4, <1>5, <1>6, <1>7, <1>8 DEF Next

LEMMA TracksNext ==
  ASSUME IInv, [Next]_vars
  PROVE  IntegerTracksDouble'
<1>0. /\ TypeOK /\ IntegerTracksDouble /\ dbase.n \in Int /\ dbase.e \in Int
      /\ pc \in {"round", "normalize"} => InRange([n |-> dbase.n, e |-> dbase.e])
  BY TypeFacts, BaseIs DEF IInv, BaseInv
<1>1. CASE Round
  BY <1>1 DEF Round, IntegerTracksDouble
<1>2. CASE Normalize
  <2>1. /\ pc = "normalize" /\ ibase % 10 = 0 /\ ibase' = ibase \div 10
        /\ dbase' = Over10(dbase)
    BY <1>2 DEF Normalize, CanNormalize
  <2>2. dbase'.n = dbase.n /\ dbase'.e = dbase.e - 1
    BY <1>0, <2>1 DEF Over10, TypeOK
  <2>3. RoundDiv(dbase.n, dbase.e - 1, 255) = ibase \div 10
    <3> DEFINE n == dbase.n
               e == dbase.e
    <3>1. n \in Int /\ e \in Int /\ InRange([n |-> n, e |-> e]) /\ RoundDiv(n, e, 255) = ibase
      BY <1>0, <2>1 DEF IntegerTracksDouble
    <3> HIDE DEF n, e
    <3>2. RoundDiv(n, e - 1, 255) = RoundDiv(n, e, 255) \div 10
      BY <2>1, <3>1, RoundTenth
    <3> QED BY <3>1, <3>2 DEF n, e
  <2> QED BY <2>1, <2>2, <2>3 DEF IntegerTracksDouble
<1>3. CASE NormalizeZero \/ UNCHANGED vars
  BY <1>0, <1>3 DEF NormalizeZero, IntegerTracksDouble, vars
<1>4. CASE \/ SolveM \/ Expand \/ SolveB \/ BadLimits \/ BeyondScale \/ BelowScale \/ Scaled
           \/ ExpandEnds \/ IsZero \/ Shrink \/ ShrinkEnds
  BY <1>4 DEF SolveM, Expand, SolveB, StartScale, BadLimits, BeyondScale, BelowScale, Scaled,
              ExpandEnds, IsZero, Shrink, ShrinkEnds, Goto, IntegerTracksDouble
<1> QED BY <1>1, <1>2, <1>3, <1>4 DEF Next

(* The number of digits M has is the same before and after it is divided.  *)
LEMMA DigitsTenth ==
  ASSUME NEW m \in Nat, m # 0, m % 10 = 0, NEW r \in Exp, r < 7
  PROVE  Digits(m \div 10, r + 1) => Digits(m, r)
<1>0. r \in Int /\ r >= -8 /\ m \div 10 \in Nat /\ m = 10 * (m \div 10) /\ m >= 1
  BY ExponentFacts
<1>1. CASE r = -8
  <2>1. Least(r + 8, 2) = 0 /\ Least(r + 9, 2) = 1
    BY <1>1 DEF Least
  <2>2. 10 ^ Least(r + 8, 2) = 1 /\ 10 ^ Least(r + 1 + 8, 2) = 10
    BY <1>1 DEF Least
  <2> QED BY <1>0, <2>2 DEF Digits
<1>2. CASE r = -7
  <2>1. 10 ^ Least(r + 8, 2) = 10 /\ 10 ^ Least(r + 1 + 8, 2) = 100
    BY <1>2 DEF Least
  <2> QED BY <1>0, <2>1 DEF Digits
<1>3. CASE r >= -6
  <2> DEFINE k == Least(r + 8, 2)
  <2>1. k = 2
    BY <1>0, <1>3 DEF Least
  <2> HIDE DEF k
  <2>2. 10 ^ k = 100
    BY <2>1
  <2> QED BY <1>0, <2>2 DEF Digits, k
<1> QED BY <1>0, <1>1, <1>2, <1>3

LEMMA NoDigits ==
  ASSUME NEW r \in Exp
  PROVE  ~Digits(0, r)
<1>1. r \in Int /\ r >= -8
  BY ExponentFacts
<1> DEFINE k == Least(r + 8, 2)
<1>2. k = 0 \/ k = 1 \/ k = 2
  BY <1>1 DEF Least
<1> HIDE DEF k
<1>3. CASE k = 0
  BY <1>3 DEF Digits, k
<1>4. CASE k = 1
  BY <1>4 DEF Digits, k
<1>5. CASE k = 2
  BY <1>5 DEF Digits, k
<1> QED BY <1>2, <1>3, <1>4, <1>5

LEMMA MultiplierNext ==
  ASSUME IInv, [Next]_vars
  PROVE  MultiplierInv'
<1>0. /\ TypeOK /\ MultiplierInv /\ BaseInv /\ IntegerTracksDouble
      /\ input.range \in Int /\ input.range <= 10000 /\ input.unit \in Int
      /\ dbase.n \in Int /\ dbase.e \in Int /\ exp \in Int /\ ibase \in Int
  BY TypeFacts, ExponentFacts DEF IInv, TypeOK, IBase
<1>1. CASE SolveM
  <2>1. /\ input.range > 0 /\ input.finite /\ input' = input /\ exp' = 0
        /\ dbase' = [n |-> input.range, e |-> input.unit] /\ pc' = "expand"
    BY <1>1 DEF SolveM, StartScale
  <2>2. dbase'.n = input.range /\ dbase'.e + exp' = input.unit
    BY <1>0, <2>1
  <2> QED BY <2>1, <2>2 DEF MultiplierInv
<1>2. CASE Expand
  <2>1. /\ dbase'.n = dbase.n /\ dbase'.e = dbase.e + 1 /\ exp' = exp - 1
        /\ pc = "expand" /\ pc' = pc /\ of' = of /\ input' = input
    BY <1>0, <1>2 DEF Expand, Times10, TypeOK
  <2>2. dbase'.e + exp' = dbase.e + exp
    BY <1>0, <2>1
  <2> QED BY <1>0, <2>1, <2>2 DEF MultiplierInv, Running
<1>3. CASE Shrink
  <2>1. /\ dbase'.n = dbase.n /\ dbase'.e = dbase.e - 1 /\ exp' = exp + 1
        /\ pc = "shrink" /\ pc' = pc /\ of' = of /\ input' = input
    BY <1>0, <1>3 DEF Shrink, Over10, TypeOK
  <2>2. dbase'.e + exp' = dbase.e + exp
    BY <1>0, <2>1
  <2> QED BY <1>0, <2>1, <2>2 DEF MultiplierInv, Running
<1>4. CASE ExpandEnds \/ IsZero \/ ShrinkEnds
  BY <1>0, <1>4 DEF ExpandEnds, IsZero, ShrinkEnds, Goto, MultiplierInv, Running
<1>5. CASE Round
  <2>1. /\ pc = "round" /\ pc' = "normalize" /\ dbase' = dbase /\ exp' = exp /\ of' = of
        /\ input' = input /\ ibase' = RoundDiv(dbase.n, dbase.e, 255)
    BY <1>5 DEF Round
  <2>2. ASSUME of = "M", Digits(ibase', exp) PROVE Close(ibase', dbase.n, dbase.e)
    <3> DEFINE n == dbase.n
               e == dbase.e
    <3>1. n \in Nat /\ n >= 1 /\ n <= 10000 /\ e \in Int /\ ibase' = RoundDiv(n, e, 255)
      BY <1>0, <2>1, <2>2 DEF MultiplierInv, Running
    <3>2. InRange([n |-> n, e |-> e]) /\ AsLarge
      BY <1>0, <2>1, BaseIs DEF BaseInv
    <3>3. InRange(Times10(dbase)) <=> InRange([n |-> n, e |-> e + 1])
      <4>1. Times10(dbase).n = n /\ Times10(dbase).e = e + 1
        BY <1>0 DEF Times10, TypeOK
      <4> QED BY <4>1, BaseIs
    <3> HIDE DEF n, e
    <3>4. RoundDiv(n, e, 255) >= 51
      <4>1. CASE exp = -8
        <5>1. ibase' \in Int
          BY <3>1, <3>2, RoundBound
        <5> DEFINE p == 10 ^ Least(exp + 8, 2)
        <5>2. p = 1 /\ ibase' * p >= 51
          BY <2>2, <4>1 DEF Least, Digits
        <5> HIDE DEF p
        <5> QED BY <3>1, <5>1, <5>2
      <4>2. CASE exp # -8
        <5>1. ~InRange([n |-> n, e |-> e + 1])
          BY <3>1, <3>2, <3>3, <4>2 DEF AsLarge, n
        <5> QED BY <3>1, <3>2, <5>1, LargeEnough
      <4> QED BY <4>1, <4>2
    <3>5. Close(RoundDiv(n, e, 255), n, e)
      BY <3>1, <3>4, CloseRound
    <3> QED BY <3>1, <3>5 DEF n, e
  <2> QED BY <1>0, <2>1, <2>2 DEF MultiplierInv, Running
<1>6. CASE Normalize /\ of = "M"
  <2>1. /\ pc = "normalize" /\ pc' = pc /\ of' = of /\ input' = input
        /\ ibase # 0 /\ ibase % 10 = 0 /\ ibase' = ibase \div 10 /\ exp' = exp + 1 /\ exp < 7
        /\ dbase'.n = dbase.n /\ dbase'.e = dbase.e - 1
    BY <1>0, <1>6 DEF Normalize, CanNormalize, Over10, TypeOK
  <2>2. /\ input.finite /\ input.range > 0 /\ dbase.n = input.range
        /\ dbase.e + exp = input.unit
        /\ Digits(ibase, exp) => Close(ibase, dbase.n, dbase.e)
    BY <1>0, <1>6, <2>1 DEF MultiplierInv, Running
  <2>3. dbase'.e + exp' = input.unit
    BY <1>0, <2>1, <2>2
  <2>4. ASSUME Digits(ibase', exp') PROVE Close(ibase', dbase'.n, dbase'.e)
    <3> DEFINE n == dbase.n
               e == dbase.e
               m == ibase
    <3>1. n \in Nat /\ n >= 1 /\ n <= 10000 /\ e \in Int /\ m = RoundDiv(n, e, 255) /\ m # 0
      BY <1>0, <2>1, <2>2 DEF IntegerTracksDouble
    <3>2. InRange([n |-> n, e |-> e])
      BY <1>0, <2>1, BaseIs DEF BaseInv
    <3>3. m % 10 = 0 /\ exp \in Exp /\ exp < 7
      BY <1>0, <2>1 DEF TypeOK
    <3>4. Digits(m \div 10, exp + 1) /\ (Digits(m, exp) => Close(m, n, e))
      BY <2>1, <2>2, <2>4
    <3> HIDE DEF n, e, m
    <3>5. m \in Nat /\ e \in -8 .. 5
      <4>1. e <= 5 /\ (RoundDiv(n, e, 255) # 0 => e >= -8)
        BY <3>1, <3>2, ExponentBound
      <4>2. RoundDiv(n, e, 255) \in 0 .. 511
        BY <3>1, <3>2, RoundBound
      <4> QED BY <3>1, <4>1, <4>2
    <3>6. Close(m, n, e)
      BY <3>1, <3>3, <3>4, <3>5, DigitsTenth
    <3>7. Close(m \div 10, n, e - 1)
      BY <3>1, <3>3, <3>5, <3>6, CloseTenth
    <3> QED BY <2>1, <3>7 DEF n, e, m
  <2> QED BY <2>1, <2>2, <2>3, <2>4 DEF MultiplierInv
<1>7. CASE NormalizeZero
  <2>1. /\ pc = "normalize" /\ pc' = pc /\ of' = of /\ input' = input /\ dbase' = dbase
        /\ ibase = 0 /\ ibase' = 0 /\ exp' = 0
    BY <1>7 DEF NormalizeZero
  <2>2. ~Digits(0, 0)
    BY NoDigits DEF Exp
  <2> QED BY <1>0, <2>1, <2>2 DEF MultiplierInv
<1>8. CASE BadLimits \/ BeyondScale \/ BelowScale \/ Scaled \/ SolveB
  BY <1>8 DEF BadLimits, BeyondScale, BelowScale, Scaled, SolveB, StartScale, Goto,
              MultiplierInv, Running
<1>9. CASE Normalize /\ of # "M"
  BY <1>9 DEF Normalize, MultiplierInv
<1>10. CASE UNCHANGED vars
  BY <1>0, <1>10 DEF MultiplierInv, vars
<1> QED BY <1>1, <1>2, <1>3, <1>4, <1>5, <1>6, <1>7, <1>8, <1>9, <1>10 DEF Next

(* What the limits and M are while B is solved does not change.            *)
LEMMA OffsetKeeps ==
  ASSUME IInv, of = "B", of' = of, input' = input, multiplier' = multiplier,
         dbase'.n = dbase.n, pc' \in Running \cup {"illegal", "scaled"},
         \/ dbase.e + exp = Unit /\ dbase'.e + exp' = dbase.e + exp
         \/ pc' \in {"normalize", "scaled"} /\ ibase' = 0 /\ exp' = 0
  PROVE  OffsetInv'
<1>1. OffsetInv
  BY DEF IInv
<1>2. Unit' = Unit /\ Lowest' = Lowest /\ (TwoDigits' <=> TwoDigits)
  BY DEF Unit, Lowest, TwoDigits
<1>3. Close(multiplier'.m, input'.range, Unit') <=> Close(multiplier.m, input.range, Unit)
  BY <1>2
<1> QED BY <1>1, <1>2, <1>3 DEF OffsetInv

LEMMA OffsetNext ==
  ASSUME IInv, [Next]_vars
  PROVE  OffsetInv'
<1>0. /\ TypeOK /\ OffsetInv /\ Started /\ dbase.n \in Int /\ dbase.e \in Int /\ exp \in Int
  BY TypeFacts, ExponentFacts DEF IInv, TypeOK
<1>1. CASE SolveM
  BY <1>1 DEF SolveM, StartScale, OffsetInv
<1>2. CASE BadLimits
  BY <1>0, <1>2 DEF BadLimits, Goto, OffsetInv, Started
<1>3. CASE BelowScale
  BY <1>3 DEF BelowScale, Goto, OffsetInv
<1>4. CASE SolveB
  <2>1. /\ dbase.n = input.range /\ input.range >= 1 /\ input.unit - exp = dbase.e
        /\ dbase'.n = 255 * input.min - input.range * Lowest
        /\ dbase'.e = dbase.e
        /\ ibase \in 1 .. 511
        /\ dbase.e \in -8 .. 5
        /\ Digits(ibase, exp) => Close(ibase, input.range, dbase.e)
    BY <1>4, SolveBFacts
  <2>2. /\ input' = input /\ multiplier'.m = ibase /\ multiplier'.rExp = exp
        /\ exp' = 0 /\ pc' = "expand"
    BY <1>4 DEF SolveB, StartScale
  <2>3. Unit' = dbase.e /\ Lowest' = Lowest
    BY <2>1, <2>2 DEF Unit, Lowest
  <2>4. TwoDigits' <=> Digits(ibase, exp)
    BY <2>2 DEF TwoDigits, Digits
  <2>5. TwoDigits' => Close(multiplier'.m, input'.range, Unit')
    BY <2>1, <2>2, <2>3, <2>4
  <2>6. dbase'.e + exp' = Unit'
    BY <1>0, <2>1, <2>2, <2>3
  <2>7. input'.range > 0
    BY <2>1, <2>2, TypeFacts, <1>0
  <2> QED BY <2>1, <2>2, <2>3, <2>5, <2>6, <2>7 DEF OffsetInv, Running
<1>5. CASE of = "B" /\ Expand
  <2>1. /\ dbase'.n = dbase.n /\ dbase'.e = dbase.e + 1 /\ exp' = exp - 1
        /\ pc = "expand" /\ pc' = pc /\ of' = of /\ input' = input /\ multiplier' = multiplier
    BY <1>0, <1>5 DEF Expand, Times10, TypeOK
  <2>2. dbase.e + exp = Unit /\ dbase'.e + exp' = dbase.e + exp
    BY <1>0, <1>5, <2>1 DEF OffsetInv
  <2> QED BY <1>5, <2>1, <2>2, OffsetKeeps DEF Running
<1>6. CASE of = "B" /\ Shrink
  <2>1. /\ dbase'.n = dbase.n /\ dbase'.e = dbase.e - 1 /\ exp' = exp + 1
        /\ pc = "shrink" /\ pc' = pc /\ of' = of /\ input' = input /\ multiplier' = multiplier
    BY <1>0, <1>6 DEF Shrink, Over10, TypeOK
  <2>2. dbase.e + exp = Unit /\ dbase'.e + exp' = dbase.e + exp
    BY <1>0, <1>6, <2>1 DEF OffsetInv
  <2> QED BY <1>6, <2>1, <2>2, OffsetKeeps DEF Running
<1>7. CASE of = "B" /\ Normalize
  <2>1. /\ dbase'.n = dbase.n /\ dbase'.e = dbase.e - 1 /\ exp' = exp + 1 /\ ibase # 0
        /\ pc = "normalize" /\ pc' = pc /\ of' = of /\ input' = input /\ multiplier' = multiplier
    BY <1>0, <1>7 DEF Normalize, CanNormalize, Over10, TypeOK
  <2>2. dbase.e + exp = Unit /\ dbase'.e + exp' = dbase.e + exp
    BY <1>0, <1>7, <2>1 DEF OffsetInv
  <2> QED BY <1>7, <2>1, <2>2, OffsetKeeps DEF Running
<1>8. CASE of = "B" /\ NormalizeZero
  <2>1. /\ dbase' = dbase /\ exp' = 0 /\ ibase' = 0 /\ pc = "normalize" /\ pc' = pc
        /\ of' = of /\ input' = input /\ multiplier' = multiplier
    BY <1>8 DEF NormalizeZero
  <2> QED BY <1>8, <2>1, OffsetKeeps DEF Running
<1>9. CASE of = "B" /\ (ExpandEnds \/ IsZero \/ ShrinkEnds \/ BeyondScale)
  <2>1. /\ dbase' = dbase /\ exp' = exp /\ pc \notin {"normalize", "scaled"}
        /\ pc' \in {"shrink", "round", "illegal"}
        /\ of' = of /\ input' = input /\ multiplier' = multiplier
    BY <1>9 DEF ExpandEnds, IsZero, ShrinkEnds, BeyondScale, Goto
  <2>2. dbase.e + exp = Unit /\ dbase'.e + exp' = dbase.e + exp
    BY <1>0, <1>9, <2>1 DEF OffsetInv
  <2> QED BY <1>9, <2>1, <2>2, OffsetKeeps DEF Running
<1>10. CASE of = "B" /\ Round
  <2>1. /\ dbase' = dbase /\ exp' = exp /\ pc = "round" /\ pc' = "normalize"
        /\ of' = of /\ input' = input /\ multiplier' = multiplier
    BY <1>10 DEF Round
  <2>2. dbase.e + exp = Unit /\ dbase'.e + exp' = dbase.e + exp
    BY <1>0, <1>10, <2>1 DEF OffsetInv
  <2> QED BY <1>10, <2>1, <2>2, OffsetKeeps DEF Running
<1>11. CASE Scaled
  <2>1. /\ of = "B" /\ dbase' = dbase /\ exp' = exp /\ ibase' = ibase
        /\ pc = "normalize" /\ pc' = "scaled"
        /\ of' = of /\ input' = input /\ multiplier' = multiplier
    BY <1>11 DEF Scaled, Normalized, Goto
  <2>2. dbase.e + exp = Unit \/ (ibase = 0 /\ exp = 0)
    BY <1>0, <2>1 DEF OffsetInv
  <2>3. dbase'.e + exp' = dbase.e + exp
    BY <2>1
  <2> QED BY <2>1, <2>2, <2>3, OffsetKeeps
<1>12. CASE of # "B" /\ ~SolveB
  <2>1. of' # "B"
    BY <1>12 DEF Next, vars, BadLimits, SolveM, Expand, ExpandEnds, IsZero, Shrink, ShrinkEnds,
                 BeyondScale, Round, Normalize, NormalizeZero, BelowScale, Scaled,
                 Goto, StartScale
  <2> QED BY <2>1 DEF OffsetInv
<1>13. CASE UNCHANGED vars
  BY <1>0, <1>13 DEF OffsetInv, Unit, TwoDigits, Lowest, vars
<1> QED BY <1>1, <1>2, <1>3, <1>4, <1>5, <1>6, <1>7, <1>8, <1>9, <1>10, <1>11, <1>12, <1>13
        DEF Next

LEMMA InvariantNext ==
  ASSUME IInv, [Next]_vars
  PROVE  IInv'
<1>0. BaseInv /\ IntegerTracksDouble /\ Started /\ ScaledInv
  BY DEF IInv
<1>1. Started'
  BY <1>0 DEF Started, Next, vars, BadLimits, SolveM, Expand, ExpandEnds, IsZero, Shrink,
              ShrinkEnds, BeyondScale, Round, Normalize, NormalizeZero, BelowScale, SolveB, Scaled,
              Goto, StartScale
<1>2. ScaledInv'
  <2>1. CASE Scaled
    BY <1>0, <2>1 DEF ScaledInv, Scaled, Normalized, Goto, BaseInv, IntegerTracksDouble
  <2>2. CASE ~Scaled /\ Next
    BY <2>2 DEF ScaledInv, Next, BadLimits, SolveM, Expand, ExpandEnds, IsZero, Shrink,
                ShrinkEnds, BeyondScale, Round, Normalize, NormalizeZero, BelowScale, SolveB,
                Goto, StartScale
  <2>3. CASE UNCHANGED vars
    BY <1>0, <2>3 DEF ScaledInv, vars
  <2> QED BY <2>1, <2>2, <2>3
<1> QED BY <1>1, <1>2, TypeNext, BaseNext, TracksNext, MultiplierNext, OffsetNext DEF IInv

LEMMA InvariantInit ==
  ASSUME Init
  PROVE  IInv
<1>1. /\ input \in Input /\ pc = "start" /\ of = "M" /\ dbase = [n |-> 0, e |-> 0]
      /\ ibase = 0 /\ exp = 0 /\ multiplier = [m |-> 0, rExp |-> 0]
  BY DEF Init
<1>2. 0 \in IBase /\ 0 \in Exp
  BY DEF IBase, Exp
<1>3. TypeOK
  BY <1>1, <1>2 DEF TypeOK
<1> QED BY <1>1, <1>3 DEF IInv, BaseInv, IntegerTracksDouble, MultiplierInv, Running,
                          OffsetInv, ScaledInv, Started

(* The inductive invariant: what each loop has made of the base.           *)
LEMMA Invariance == Spec => []IInv
BY InvariantInit, InvariantNext, PTL DEF Spec

-----------------------------------------------------------------------------
(* Every value the program computes has its type: M, B and their exponents *)
(* fit the ten and four bits of the sensor data record.                    *)
THEOREM TypeCorrect == Spec => []TypeOK
<1>1. IInv => TypeOK
  BY DEF IInv
<1> QED BY <1>1, Invariance, PTL

(* "The floating-point base will be as large as possible, but still within *)
(* the bounds": the two loops of scaleFloatExp, in this order, see to it.  *)
THEOREM BaseIsAsLarge == Spec => []BaseIsLargest
<1>1. IInv => BaseIsLargest
  BY DEF IInv, BaseInv, AsLarge, BaseIsLargest
<1> QED BY <1>1, Invariance, PTL

(* "The floating-point base must be kept in sync with the integer base":   *)
(* dividing both by ten commutes with rounding.                            *)
THEOREM IntegerKeepsTrack == Spec => []IntegerTracksDouble
<1>1. IInv => IntegerTracksDouble
  BY DEF IInv
<1> QED BY <1>1, Invariance, PTL

-----------------------------------------------------------------------------
(* Rounding to the nearest byte                                            *)

LEMMA PowerIs ==
  ASSUME NEW k \in 0 .. 9
  PROVE  10 ^ k \in Nat /\ 10 ^ k >= 1
<1>1. CASE k = 0 \/ k = 1 \/ k = 2 \/ k = 3 \/ k = 4
  <2>1. CASE k = 0
    BY <2>1
  <2>2. CASE k = 1
    BY <2>2
  <2>3. CASE k = 2
    BY <2>3
  <2>4. CASE k = 3
    BY <2>4
  <2>5. CASE k = 4
    BY <2>5
  <2> QED BY <1>1, <2>1, <2>2, <2>3, <2>4, <2>5
<1>2. CASE k = 5 \/ k = 6 \/ k = 7 \/ k = 8 \/ k = 9
  <2>1. CASE k = 5
    BY <2>1
  <2>2. CASE k = 6
    BY <2>2, SMT
  <2>3. CASE k = 7
    BY <2>3, SMT
  <2>4. CASE k = 8
    BY <2>4, SMT
  <2>5. CASE k = 9
    BY <2>5, SMT
  <2> QED BY <1>2, <2>1, <2>2, <2>3, <2>4, <2>5
<1> QED BY <1>1, <1>2

LEMMA DivIs ==
  ASSUME NEW a \in Nat, NEW m \in Nat, m >= 1
  PROVE  a \div m \in Nat /\ m * (a \div m) <= a /\ a < m * (a \div m) + m
OBVIOUS

LEMMA TimesGrows ==
  ASSUME NEW q \in Nat, NEW a \in Int, NEW b \in Int, a <= b
  PROVE  q * a <= q * b /\ q * a \in Int /\ q * b \in Int
OBVIOUS

(* Dividing in two steps is dividing by the product.                       *)
LEMMA DivDiv ==
  ASSUME NEW a \in Nat, NEW p \in Nat, p >= 1, NEW m \in Nat, m >= 1
  PROVE  LET t == (a \div p) \div m
         IN  t \in Nat /\ (m * p) * t <= a /\ a < (m * p) * t + m * p
<1> DEFINE d == a \div p
           t == d \div m
<1>1. d \in Nat /\ p * d <= a /\ a < p * d + p
  BY DivIs
<1> HIDE DEF d
<1>2. t \in Nat /\ m * t <= d /\ d < m * t + m
  BY <1>1, DivIs
<1> HIDE DEF t
<1>3. m * t \in Int /\ d + 1 <= m * t + m /\ m * t + m \in Int
  BY <1>1, <1>2
<1>4. p * (m * t) <= p * d /\ p * (d + 1) <= p * (m * t + m)
  BY <1>1, <1>2, <1>3, TimesGrows
<1>5. p * (m * t) = (m * p) * t /\ p * (m * t + m) = (m * p) * t + m * p /\ p * (d + 1) = p * d + p
  BY <1>1, <1>2
<1>6. p * d \in Int /\ (m * p) * t \in Int /\ m * p \in Int
  BY <1>1, <1>2
<1>7. (m * p) * t <= a /\ a < (m * p) * t + m * p
  BY <1>1, <1>4, <1>5, <1>6
<1> QED BY <1>2, <1>7 DEF t, d

(* What is rounded half away from zero is within half of a whole.          *)
LEMMA HalfAway ==
  ASSUME NEW n \in Int, NEW q \in Nat, NEW t \in Nat,
         q * t <= 2 * Abs(n), 2 * Abs(n) < q * t + q
  PROVE  LET r == IF n < 0 THEN -Away(t) ELSE Away(t)
         IN  r \in Int /\ 2 * Abs(q * r - n) <= q
<1> DEFINE w == Away(t)
           a == Abs(n)
<1>1. w \in Nat /\ (2 * w = t \/ 2 * w = t + 1)
  BY DEF Away
<1>2. a \in Nat /\ a = IF n < 0 THEN -n ELSE n
  BY DEF Abs
<1> HIDE DEF w, a
<1>3. q * w \in Int /\ q * t \in Int /\ q * (-w) = -(q * w)
  BY <1>1
<1>4. 2 * (q * w) = q * t \/ 2 * (q * w) = q * t + q
  <2>1. 2 * (q * w) = q * (2 * w)
    BY <1>1
  <2>2. q * (t + 1) = q * t + q
    OBVIOUS
  <2> QED BY <1>1, <2>1, <2>2
<1>5. q * t <= 2 * a /\ 2 * a < q * t + q
  BY DEF a
<1>6. -w \in Int
  BY <1>1
<1> DEFINE x == q * w
           y == q * t
<1>7. x \in Int /\ y \in Int
  BY <1>3
<1>8. 2 * x = y \/ 2 * x = y + q
  BY <1>4
<1>9. y <= 2 * a /\ 2 * a < y + q
  BY <1>5
<1> HIDE DEF x, y
<1>10. 2 * Abs((IF n < 0 THEN -x ELSE x) - n) <= q
  BY <1>2, <1>7, <1>8, <1>9 DEF Abs
<1>11. q * (IF n < 0 THEN -w ELSE w) = IF n < 0 THEN -x ELSE x
  BY <1>3 DEF x
<1> QED BY <1>1, <1>6, <1>10, <1>11 DEF w

(* Of the multiples of q, that one is nearest, also after it is clamped.   *)
LEMMA NearestMultiple ==
  ASSUME NEW n \in Int, NEW q \in Nat, q >= 1, NEW r \in Int, 2 * Abs(q * r - n) <= q,
         NEW lo \in Int, NEW hi \in Int, lo <= hi, NEW x \in Int, lo <= x, x <= hi
  PROVE  LET c == IF r < lo THEN lo ELSE IF r > hi THEN hi ELSE r
         IN  Abs(q * c - n) <= Abs(q * x - n)
<1> DEFINE A == q * r
<1>1. A \in Int /\ 2 * (A - n) <= q /\ 2 * (n - A) <= q
  <2>1. A \in Int
    OBVIOUS
  <2> HIDE DEF A
  <2>2. 2 * Abs(A - n) <= q
    BY DEF A
  <2> QED BY <2>1, <2>2 DEF Abs
<1>2. q * (r + 1) = A + q /\ q * (r - 1) = A - q
  OBVIOUS
<1> DEFINE B == q * x
           L == q * lo
           H == q * hi
<1>3. B \in Int /\ L \in Int /\ H \in Int /\ L <= B /\ B <= H
  BY TimesGrows
<1>4. r < x => A + q <= B
  <2>1. ASSUME r < x PROVE q * (r + 1) <= q * x
    <3>1. r + 1 \in Int /\ r + 1 <= x
      BY <2>1
    <3> QED BY <3>1, TimesGrows
  <2> QED BY <1>2, <2>1
<1>5. x < r => B <= A - q
  <2>1. ASSUME x < r PROVE q * x <= q * (r - 1)
    <3>1. r - 1 \in Int /\ x <= r - 1
      BY <2>1
    <3> QED BY <3>1, TimesGrows
  <2> QED BY <1>2, <2>1
<1>6. r < lo => A + q <= L
  <2>1. ASSUME r < lo PROVE q * (r + 1) <= q * lo
    <3>1. r + 1 \in Int /\ r + 1 <= lo
      BY <2>1
    <3> QED BY <3>1, TimesGrows
  <2> QED BY <1>2, <2>1
<1>7. hi < r => H <= A - q
  <2>1. ASSUME hi < r PROVE q * hi <= q * (r - 1)
    <3>1. r - 1 \in Int /\ hi <= r - 1
      BY <2>1
    <3> QED BY <3>1, TimesGrows
  <2> QED BY <1>2, <2>1
<1>8. x = r => B = A
  OBVIOUS
<1> HIDE DEF A, B, L, H
<1>9. r < lo => Abs(L - n) <= Abs(B - n)
  BY <1>1, <1>3, <1>6 DEF Abs
<1>10. r > hi => Abs(H - n) <= Abs(B - n)
  BY <1>1, <1>3, <1>7 DEF Abs
<1>11. Abs(A - n) <= Abs(B - n)
  BY <1>1, <1>3, <1>4, <1>5, <1>8 DEF Abs
<1> QED BY <1>9, <1>10, <1>11 DEF A, B, L, H

(* An offset that is not 0 is not far from it in its exponent either.      *)
LEMMA OffsetExponent ==
  ASSUME NEW n \in Int, n >= -10000000, n <= 10000000, NEW e \in Int,
         InRange([n |-> n, e |-> e])
  PROVE  /\ n # 0 => e <= 5
         /\ RoundDiv(n, e, 255) # 0 => n # 0 /\ e >= -4
<1> DEFINE a == Abs(n)
           b == Limit(n)
           t == Twice(n, e)
<1>1. a \in Nat /\ b \in {511 * 255, 512 * 255} /\ (e >= 0 => a <= b \div 10 ^ Least(e, 9))
  BY RangeIs
<1>2. a <= 10000000 /\ (n = 0 <=> a = 0)
  BY DEF Abs
<1>3. RoundDiv(n, e, 255) # 0 => t # 0
  <2>1. t = 0 => Away(t) = 0
    BY DEF Away
  <2>2. RoundDiv(n, e, 255) = IF n < 0 THEN -Away(t) ELSE Away(t)
    BY RoundIs
  <2> HIDE DEF t
  <2> QED BY <2>1, <2>2
<1>4. e >= 0 => t = (2 * a * 10 ^ Least(e, 9)) \div 255
  BY DEF Twice
<1>5. e < 0 => t = ((2 * a) \div 10 ^ Least(-e, 9)) \div 255
  BY DEF Twice
<1> HIDE DEF a, b, t
<1>6. ASSUME e > 5 PROVE a = 0
  <2> DEFINE p == 10 ^ Least(e, 9)
  <2>1. e \in Nat /\ e >= 6 /\ e >= 0
    BY <1>6
  <2>2. p \in {1000000, 10000000, 100000000, 1000000000}
    BY <2>1, TenCases, SMT
  <2>3. a <= b \div p
    BY <1>1, <2>1
  <2> HIDE DEF p
  <2>4. b \div p = 0
    BY <1>1, <2>2, SMT
  <2> QED BY <1>1, <2>3, <2>4
<1>7. ASSUME e < -4 PROVE t = 0
  <2> DEFINE k == -e
             p == 10 ^ Least(k, 9)
  <2>1. k \in Nat /\ k >= 5 /\ t = ((2 * a) \div p) \div 255
    BY <1>5, <1>7
  <2> HIDE DEF k
  <2>2. p \in {100000, 1000000, 10000000, 100000000, 1000000000}
    BY <2>1, TenCases, SMT
  <2> HIDE DEF p
  <2> QED BY <1>1, <1>2, <2>1, <2>2, SMT
<1>8. ASSUME a = 0 PROVE t = 0
  <2>1. CASE e >= 0
    <3> DEFINE p == 10 ^ Least(e, 9)
    <3>1. p \in {1, 10, 100, 1000, 10000, 100000, 1000000, 10000000, 100000000, 1000000000}
      BY <2>1, TenCases, SMT
    <3>2. t = (2 * a * p) \div 255
      BY <1>4, <2>1
    <3> HIDE DEF p
    <3>3. 2 * a * p = 0
      BY <1>8, <3>1, SMT
    <3> QED BY <3>2, <3>3
  <2>2. CASE e < 0
    <3> DEFINE k == -e
               p == 10 ^ Least(k, 9)
    <3>1. k \in Nat /\ t = ((2 * a) \div p) \div 255
      BY <1>5, <2>2
    <3> HIDE DEF k
    <3>2. p \in {1, 10, 100, 1000, 10000, 100000, 1000000, 10000000, 100000000, 1000000000}
      BY <3>1, TenCases, SMT
    <3> HIDE DEF p
    <3> QED BY <1>8, <3>1, <3>2, SMT
  <2> QED BY <2>1, <2>2
<1> QED BY <1>2, <1>3, <1>6, <1>7, <1>8

(* The exponents of a reading, of B and of M are all near each other.      *)
LEMMA ScaledFacts ==
  ASSUME IInv, pc = "scaled"
  PROVE  /\ Unit \in -8 .. 5 /\ Common \in -8 .. 0 /\ Common = Least(0, Least(Unit, exp))
         /\ Unit - Common \in 0 .. 8 /\ exp - Common \in 0 .. 8
         /\ dbase.n # 0 => dbase.e <= 5
         /\ ibase # 0 => dbase.n # 0 /\ dbase.e >= -4 /\ dbase.e + exp = Unit
<1> DEFINE u == Unit
           e == dbase.e
           n == dbase.n
<1>0. /\ TypeOK /\ u \in -8 .. 5
      /\ n = 255 * input.min - input.range * Lowest /\ input.range > 0
      /\ e + exp = u \/ ibase = 0
      /\ InRange([n |-> n, e |-> e]) /\ ibase = RoundDiv(n, e, 255) /\ (ibase = 0 => exp = 0)
  BY BaseIs DEF IInv, ScaledInv, OffsetInv
<1>1. /\ input.min \in Int /\ input.range \in Int /\ input.range <= 10000
      /\ n \in Int /\ e \in Int /\ exp \in -8 .. 7 /\ ibase \in Int
  BY <1>0, TypeFacts DEF TypeOK, Exp, IBase
<1>2. n >= -10000000 /\ n <= 10000000
  <2>1. input.min >= -5000 /\ input.min <= 5000
    <3>1. Abs(input.min) <= 5000
      BY <1>0, InputAssumption DEF TypeOK, Input
    <3> QED BY <1>1, <3>1 DEF Abs
  <2>2. Lowest = 0 \/ Lowest = -128
    BY DEF Lowest
  <2> QED BY <1>0, <1>1, <2>1, <2>2, SMT
<1>3. (n # 0 => e <= 5) /\ (ibase # 0 => n # 0 /\ e >= -4)
  BY <1>0, <1>1, <1>2, OffsetExponent
<1>4. u \in Int /\ u >= -8 /\ u <= 5 /\ exp \in Int /\ exp >= -8 /\ exp <= 7
  BY <1>0, <1>1
<1>5. ibase # 0 => u - exp >= -4 /\ u - exp <= 5
  BY <1>0, <1>1, <1>3, <1>4
<1>6. (ibase = 0 => exp = 0) /\ (ibase # 0 => e + exp = u)
  BY <1>0
<1>7. Common = Least(0, Least(u, exp))
  BY DEF Common, Unit
<1> HIDE DEF u, e, n
<1>8. Common \in Int /\ Common <= 0 /\ Common >= -8 /\ Common <= u /\ Common <= exp
  BY <1>4, <1>7 DEF Least
<1>9. u - Common <= 8 /\ exp - Common <= 8
  BY <1>4, <1>5, <1>6, <1>7 DEF Least
<1>10. u - Common \in 0 .. 8 /\ exp - Common \in 0 .. 8 /\ Common \in -8 .. 0
  BY <1>4, <1>8, <1>9
<1> QED BY <1>0, <1>3, <1>6, <1>7, <1>10 DEF u, e, n

(* What is computed for a reading, in whole numbers.                       *)
Whole == 10 ^ (-Common)
UnitTerm == 10 ^ (Unit - Common)
OffsetTerm == 10 ^ (exp - Common)

LEMMA ReadingFacts ==
  ASSUME IInv, pc = "scaled"
  PROVE  /\ multiplier.m \in Nat /\ multiplier.m >= 1
         /\ Whole \in Nat /\ Whole >= 1
         /\ UnitTerm \in Nat /\ OffsetTerm \in Nat
         /\ \A y \in Int : Distance(y) = y * UnitTerm - ibase * OffsetTerm /\ Distance(y) \in Int
<1>0. multiplier.m \in 1 .. 511 /\ ibase \in Int
  BY DEF IInv, ScaledInv, OffsetInv, TypeOK, IBase
<1>1. \A k \in 0 .. 8 : 10 ^ k \in Nat /\ 10 ^ k >= 1
  <2>1. \A k \in 0 .. 8 : k \in 0 .. 9
    OBVIOUS
  <2> QED BY <2>1, PowerIs
<1>2. Whole \in Nat /\ Whole >= 1
  <2> DEFINE k == -Common
  <2>1. k \in 0 .. 8
    BY ScaledFacts
  <2> HIDE DEF k
  <2>2. 10 ^ k \in Nat /\ 10 ^ k >= 1
    BY <1>1, <2>1
  <2> QED BY <2>2 DEF Whole, k
<1>3. UnitTerm \in Nat
  <2> DEFINE k == Unit - Common
  <2>1. k \in 0 .. 8
    BY ScaledFacts
  <2> HIDE DEF k
  <2>2. 10 ^ k \in Nat
    BY <1>1, <2>1
  <2> QED BY <2>2, Zenon DEF UnitTerm, k
<1>4. OffsetTerm \in Nat
  <2> DEFINE k == exp - Common
  <2>1. k \in 0 .. 8
    BY ScaledFacts
  <2> HIDE DEF k
  <2>2. 10 ^ k \in Nat
    BY <1>1, <2>1
  <2> QED BY <2>2, Zenon DEF OffsetTerm, k
<1>5. ASSUME NEW y \in Int
      PROVE  Distance(y) = y * UnitTerm - ibase * OffsetTerm /\ Distance(y) \in Int
  <2>1. Distance(y) = y * UnitTerm - ibase * OffsetTerm
    BY DEF Distance, UnitTerm, OffsetTerm, Unit
  <2> QED BY <1>0, <1>3, <1>4, <2>1
<1>6. multiplier.m \in Nat /\ multiplier.m >= 1
  BY <1>0
<1> QED BY <1>2, <1>3, <1>4, <1>5, <1>6, Zenon

(* Before it is clamped, the byte is the nearest integer.                  *)
LEMMA NearestInteger ==
  ASSUME NEW c \in Int, NEW k \in 0 .. 8, c + k = 0, NEW m \in Nat, m >= 1, NEW n \in Int
  PROVE  LET q == m * 10 ^ k
             r == RoundDiv(n, c, m)
         IN  q \in Nat /\ q >= 1 /\ r \in Int /\ 2 * Abs(q * r - n) <= q
<1> DEFINE p == 10 ^ k
           a == 2 * Abs(n)
           t == (a \div p) \div m
<1>1. Abs(n) \in Nat /\ a \in Nat /\ p \in Nat /\ p >= 1
  <2>1. p \in Nat /\ p >= 1
    <3>1. k \in 0 .. 9
      OBVIOUS
    <3>2. 10 ^ k \in Nat /\ 10 ^ k >= 1
      BY ONLY <3>1, PowerIs
    <3> QED BY <3>2
  <2>2. Abs(n) \in Nat
    BY DEF Abs
  <2>3. a \in Nat
    BY <2>2
  <2> QED BY <2>1, <2>2, <2>3
<1>2. RoundDiv(n, c, m) = IF n < 0 THEN -Away(t) ELSE Away(t)
  <2>1. CASE c = 0
    <3> DEFINE l == Least(c, 9)
    <3>1. l = 0
      BY <2>1 DEF Least
    <3>2. k = 0
      BY <2>1
    <3> HIDE DEF l
    <3>3. 10 ^ l = 1
      BY <3>1
    <3>4. p = 1
      BY <3>2
    <3> HIDE DEF p, a
    <3>5. a * 1 = a /\ a \div 1 = a
      BY <1>1
    <3>6. (a * 10 ^ l) \div m = (a \div p) \div m
      BY <3>3, <3>4, <3>5
    <3> QED BY <2>1, <3>6 DEF RoundDiv, Away, a, l
  <2>2. CASE c < 0
    <3>1. Least(-c, 9) = k
      <4>1. -c = k /\ k < 9
        OBVIOUS
      <4> QED BY <4>1 DEF Least
    <3> QED BY <2>2, <3>1 DEF RoundDiv, Away
  <2> QED BY <2>1, <2>2
<1>3. t \in Nat /\ (m * p) * t <= a /\ a < (m * p) * t + m * p
  <2> HIDE DEF a, p
  <2> QED BY <1>1, DivDiv
<1> DEFINE q == m * p
<1>4. q \in Nat /\ q >= 1
  <2> HIDE DEF p
  <2> QED BY <1>1
<1>5. q * t <= 2 * Abs(n) /\ 2 * Abs(n) < q * t + q
  BY <1>3
<1> HIDE DEF q, t, p
<1>6. LET r == IF n < 0 THEN -Away(t) ELSE Away(t)
      IN  r \in Int /\ 2 * Abs(q * r - n) <= q
  BY <1>3, <1>4, <1>5, HalfAway
<1>7. q = m * 10 ^ k
  BY DEF q, p
<1> QED BY <1>2, <1>4, <1>6, <1>7

(* A step of one byte, and the byte of a reading before it is clamped.     *)
Step == multiplier.m * Whole
Rounded(y) == RoundDiv(Distance(y), Common, multiplier.m)

LEMMA ByteFacts ==
  ASSUME IInv, pc = "scaled", NEW y \in Int
  PROVE  /\ Step \in Nat /\ Step >= 1 /\ Rounded(y) \in Int /\ Distance(y) \in Int
         /\ 2 * Abs(Step * Rounded(y) - Distance(y)) <= Step
         /\ Byte(y) = IF Rounded(y) < Lowest THEN Lowest
                      ELSE IF Rounded(y) > Highest THEN Highest ELSE Rounded(y)
<1> DEFINE c == Common
           k == -c
           n == Distance(y)
           m == multiplier.m
<1>1. c \in Int /\ k \in 0 .. 8 /\ c + k = 0 /\ Whole = 10 ^ k
  BY ScaledFacts DEF Whole
<1>2. m \in Nat /\ m >= 1 /\ n \in Int
  BY ReadingFacts
<1>3. Rounded(y) = RoundDiv(n, c, m) /\ Step = m * Whole
  BY DEF Rounded, Step
<1>4. Byte(y) = IF Rounded(y) < Lowest THEN Lowest
                ELSE IF Rounded(y) > Highest THEN Highest ELSE Rounded(y)
  BY DEF Byte, Clamp, Rounded
<1>5. Distance(y) = n
  OBVIOUS
<1> HIDE DEF n, m, c, k
<1>6. LET q == m * 10 ^ k
          r == RoundDiv(n, c, m)
      IN  q \in Nat /\ q >= 1 /\ r \in Int /\ 2 * Abs(q * r - n) <= q
  BY <1>1, <1>2, NearestInteger
<1> QED BY <1>1, <1>2, <1>3, <1>4, <1>5, <1>6

LEMMA ByteIsNearest ==
  ASSUME IInv, pc = "scaled", NEW y \in Int, NEW x \in Lowest .. Highest
  PROVE  Miss(Byte(y), y) <= Miss(x, y)
<1> DEFINE n == Distance(y)
           m == multiplier.m
           q == Step
           r == Rounded(y)
<1>1. m \in Nat /\ Whole \in Nat
  BY ReadingFacts
<1>2. q \in Nat /\ q >= 1 /\ r \in Int /\ n \in Int /\ 2 * Abs(q * r - n) <= q
  BY ByteFacts
<1>3. Lowest \in Int /\ Highest \in Int /\ Lowest <= Highest
  BY DEF Lowest, Highest
<1>4. x \in Int /\ Lowest <= x /\ x <= Highest
  BY <1>3
<1>5. Byte(y) = IF r < Lowest THEN Lowest ELSE IF r > Highest THEN Highest ELSE r
  BY ByteFacts
<1>6. Byte(y) \in Int
  <2> HIDE DEF r
  <2> QED BY <1>2, <1>3, <1>5
<1>7. \A z \in Int : Miss(z, y) = Abs(q * z - n)
  <2> TAKE z \in Int
  <2>1. m * z * Whole = m * Whole * z
    <3> HIDE DEF m
    <3> QED BY <1>1
  <2> QED BY <2>1 DEF Miss, Whole, Step
<1> HIDE DEF q, r, n
<1>8. Abs(q * Byte(y) - n) <= Abs(q * x - n)
  BY <1>2, <1>3, <1>4, <1>5, NearestMultiple
<1> QED BY <1>4, <1>6, <1>7, <1>8 DEF n

(* The byte computed for a reading is the one that reads back closest to   *)
(* it: scaleIPMIValueFromDouble rounds and clamps correctly, whatever the  *)
(* signs of M, B and the reading.                                          *)
THEOREM NearestByteIsFound == Spec => []NearestByte
<1>1. IInv => NearestByte
  <2> SUFFICES ASSUME IInv, pc = "scaled", NEW y \in Probes, NEW x \in Lowest .. Highest
               PROVE  Miss(Byte(y), y) <= Miss(x, y)
    BY DEF NearestByte
  <2>1. y \in Int
    <3>1. input.min \in Int /\ input.range \in Int
      BY TypeFacts DEF IInv
    <3>2. PICK i \in -3 .. 9 : y = input.min + (input.range * i) \div 6
      BY DEF Probes
    <3>3. input.range * i \in Int
      BY <3>1
    <3>4. (input.range * i) \div 6 \in Int
      BY <3>3
    <3> QED BY <3>1, <3>2, <3>4
  <2> QED BY <2>1, ByteIsNearest
<1> QED BY <1>1, Invariance, PTL

-----------------------------------------------------------------------------
(* The ends of the scale                                                   *)

LEMMA PowerCases ==
  ASSUME NEW k \in Nat, k <= 8
  PROVE  \/ k = 0 /\ 10 ^ k = 1
         \/ k = 1 /\ 10 ^ k = 10
         \/ k = 2 /\ 10 ^ k = 100
         \/ k = 3 /\ 10 ^ k = 1000
         \/ k = 4 /\ 10 ^ k = 10000
         \/ k = 5 /\ 10 ^ k = 100000
         \/ k = 6 /\ 10 ^ k = 1000000
         \/ k = 7 /\ 10 ^ k = 10000000
         \/ k = 8 /\ 10 ^ k = 100000000
<1>1. Least(k, 9) = k /\ ~(k >= 9)
  BY DEF Least
<1> DEFINE p == 10 ^ k
<1>2. 10 ^ Least(k, 9) = p
  BY <1>1
<1> HIDE DEF p
<1>3. \/ k = 0 /\ p = 1
      \/ k = 1 /\ p = 10
      \/ k = 2 /\ p = 100
      \/ k = 3 /\ p = 1000
      \/ k = 4 /\ p = 10000
      \/ k = 5 /\ p = 100000
      \/ k = 6 /\ p = 1000000
      \/ k = 7 /\ p = 10000000
      \/ k = 8 /\ p = 100000000
  BY <1>1, <1>2, TenCases
<1> QED BY <1>3 DEF p

LEMMA PowerSum ==
  ASSUME NEW i \in 0 .. 8, NEW j \in 0 .. 8, i + j <= 8
  PROVE  10 ^ (i + j) = 10 ^ i * 10 ^ j
<1> DEFINE k == i + j
           I == 10 ^ i
           J == 10 ^ j
           K == 10 ^ k
<1>1. k \in Nat /\ k <= 8 /\ k = i + j /\ i \in Nat /\ j \in Nat /\ i <= 8 /\ j <= 8
  OBVIOUS
<1> HIDE DEF k
<1>2. \/ i = 0 /\ I = 1
      \/ i = 1 /\ I = 10
      \/ i = 2 /\ I = 100
      \/ i = 3 /\ I = 1000
      \/ i = 4 /\ I = 10000
      \/ i = 5 /\ I = 100000
      \/ i = 6 /\ I = 1000000
      \/ i = 7 /\ I = 10000000
      \/ i = 8 /\ I = 100000000
  BY <1>1, PowerCases
<1>3. \/ j = 0 /\ J = 1
      \/ j = 1 /\ J = 10
      \/ j = 2 /\ J = 100
      \/ j = 3 /\ J = 1000
      \/ j = 4 /\ J = 10000
      \/ j = 5 /\ J = 100000
      \/ j = 6 /\ J = 1000000
      \/ j = 7 /\ J = 10000000
      \/ j = 8 /\ J = 100000000
  BY <1>1, PowerCases
<1>4. \/ k = 0 /\ K = 1
      \/ k = 1 /\ K = 10
      \/ k = 2 /\ K = 100
      \/ k = 3 /\ K = 1000
      \/ k = 4 /\ K = 10000
      \/ k = 5 /\ K = 100000
      \/ k = 6 /\ K = 1000000
      \/ k = 7 /\ K = 10000000
      \/ k = 8 /\ K = 100000000
  BY <1>1, PowerCases
<1> HIDE DEF I, J, K
<1>5. ASSUME i = 0 \/ i = 1 \/ i = 2 PROVE K = I * J
  BY <1>1, <1>2, <1>3, <1>4, <1>5, SMT
<1>6. ASSUME i = 3 \/ i = 4 \/ i = 5 PROVE K = I * J
  BY <1>1, <1>2, <1>3, <1>4, <1>6, SMT
<1>7. ASSUME i = 6 \/ i = 7 \/ i = 8 PROVE K = I * J
  BY <1>1, <1>2, <1>3, <1>4, <1>7, SMT
<1>8. i = 0 \/ i = 1 \/ i = 2 \/ i = 3 \/ i = 4 \/ i = 5 \/ i = 6 \/ i = 7 \/ i = 8
  BY <1>2
<1>9. K = I * J
  BY <1>5, <1>6, <1>7, <1>8
<1> QED BY <1>9 DEF K, I, J, k

(* If nothing of B was lost, it is the offset.                             *)
LEMMA OffsetIs ==
  ASSUME IInv, pc = "scaled", OffsetExact
  PROVE  255 * (ibase * OffsetTerm) = (255 * input.min - input.range * Lowest) * UnitTerm
<1> DEFINE n == dbase.n
           e == dbase.e
           b == ibase
<1>1. /\ n = 255 * input.min - input.range * Lowest
      /\ n \in Int /\ e \in Int /\ b \in Int /\ exp \in Int /\ Common \in Int
      /\ UnitTerm \in Nat /\ OffsetTerm \in Nat
      /\ n # 0 => e <= 5
      /\ b # 0 => n # 0 /\ e >= -4 /\ e + exp = Unit
      /\ Unit \in Int /\ Unit - Common \in 0 .. 8 /\ exp - Common \in 0 .. 8
  <2>1. /\ n = 255 * input.min - input.range * Lowest /\ n \in Int /\ e \in Int
        /\ b \in Int
    BY TypeFacts DEF IInv, ScaledInv, OffsetInv, TypeOK, IBase
  <2>2. exp \in Int
    BY ExponentFacts DEF IInv, TypeOK
  <2>3. UnitTerm \in Nat /\ OffsetTerm \in Nat
    BY ReadingFacts
  <2>4. /\ n # 0 => e <= 5
        /\ b # 0 => n # 0 /\ e >= -4 /\ e + exp = Unit
        /\ Unit - Common \in 0 .. 8 /\ exp - Common \in 0 .. 8
        /\ Unit \in -8 .. 5 /\ Common \in -8 .. 0
    BY ScaledFacts
  <2>5. Unit \in Int /\ Common \in Int
    BY <2>4
  <2> QED BY <2>1, <2>2, <2>3, <2>4, <2>5
<1>2. /\ e >= 0 => 255 * b = n * 10 ^ e
      /\ e < 0 => 255 * b * 10 ^ Least(-e, 4) = n
  BY <1>1 DEF OffsetExact
<1> SUFFICES 255 * (b * OffsetTerm) = n * UnitTerm
  BY <1>1
<1> HIDE DEF n, e, b
<1>3. CASE n = 0
  <2>1. b = 0
    BY <1>1, <1>3
  <2> QED BY <1>1, <1>3, <2>1
<1>4. CASE n # 0 /\ e >= 0
  <2> DEFINE E == 10 ^ e
  <2>1. e \in 0 .. 8 /\ e \in 0 .. 9
    BY <1>1, <1>4
  <2>2. E \in Nat /\ E >= 1
    BY <2>1, PowerIs
  <2>3. 255 * b = n * E
    BY <1>2, <1>4
  <2> HIDE DEF E
  <2>4. b # 0
    <3>1. \A x \in Int, y \in Nat : x # 0 /\ y >= 1 => x * y # 0
      OBVIOUS
    <3> QED BY <1>1, <1>4, <2>2, <2>3, <3>1
  <2>5. Unit - Common = e + (exp - Common)
    BY <1>1, <2>4
  <2>6. UnitTerm = E * OffsetTerm
    <3> DEFINE j == exp - Common
    <3>1. j \in 0 .. 8 /\ e + j <= 8 /\ Unit - Common = e + j
      BY <1>1, <2>5
    <3>2. UnitTerm = 10 ^ (e + j) /\ OffsetTerm = 10 ^ j
      BY <3>1 DEF UnitTerm, OffsetTerm
    <3> HIDE DEF j
    <3> QED BY <2>1, <3>1, <3>2, PowerSum DEF E
  <2>7. 255 * (b * OffsetTerm) = (255 * b) * OffsetTerm
    BY <1>1
  <2>8. (n * E) * OffsetTerm = n * (E * OffsetTerm)
    BY <1>1, <2>2
  <2> QED BY <2>3, <2>6, <2>7, <2>8
<1>5. CASE n # 0 /\ e < 0
  <2>1. b # 0
    <3>1. b = 0 => n = 0
      <4> DEFINE k == -e
                 E == 10 ^ Least(k, 4)
      <4>1. k \in Nat /\ 255 * b * E = n
        BY <1>1, <1>2, <1>5
      <4> HIDE DEF k
      <4>2. E \in Nat
        BY <4>1, TenCases
      <4> HIDE DEF E
      <4> QED BY <4>1, <4>2
    <3> QED BY <1>5, <3>1
  <2> DEFINE k == -e
             E == 10 ^ k
  <2>2. k \in 0 .. 4 /\ k \in 0 .. 8 /\ k \in 0 .. 9 /\ Least(-e, 4) = k
    BY <1>1, <1>5, <2>1 DEF Least
  <2>3. 255 * b * E = n
    BY <1>2, <1>5, <2>2
  <2>4. exp - Common = k + (Unit - Common)
    BY <1>1, <2>1
  <2> HIDE DEF k
  <2>5. E \in Nat
    BY <2>2, PowerIs
  <2>6. OffsetTerm = E * UnitTerm
    <3> DEFINE j == Unit - Common
    <3>1. j \in 0 .. 8 /\ k + j <= 8 /\ exp - Common = k + j
      BY <1>1, <2>4
    <3>2. OffsetTerm = 10 ^ (k + j) /\ UnitTerm = 10 ^ j
      BY <3>1 DEF UnitTerm, OffsetTerm
    <3> HIDE DEF j
    <3> QED BY <2>2, <3>1, <3>2, PowerSum
  <2> HIDE DEF E
  <2>7. 255 * (b * (E * UnitTerm)) = (255 * b * E) * UnitTerm
    BY <1>1, <2>5
  <2> QED BY <2>3, <2>6, <2>7
<1> QED BY <1>1, <1>3, <1>4, <1>5

(* M in the same whole numbers: 255 steps are the range, but for rounding. *)
LEMMA StepsAreClose ==
  ASSUME IInv, pc = "scaled", TwoDigits
  PROVE  2 * Abs(255 * Step - input.range * UnitTerm) <= 5 * Step
<1> DEFINE m == multiplier.m
           R == input.range
           u == Unit
           P == Whole
           T == UnitTerm
<1>1. /\ m \in Nat /\ R \in Int /\ P \in Nat /\ T \in Nat
      /\ Close(m, R, u) /\ Step = m * P
      /\ u \in Int /\ u >= -8 /\ u <= 5 /\ u - Common \in 0 .. 8
      /\ Common \in -8 .. 0
  <2>1. m \in Nat /\ P \in Nat /\ T \in Nat
    BY ReadingFacts
  <2>2. u \in -8 .. 5 /\ u - Common \in 0 .. 8 /\ Common \in -8 .. 0
    BY ScaledFacts
  <2>3. u \in Int /\ u >= -8 /\ u <= 5
    BY <2>2
  <2>4. R \in Int
    BY TypeFacts DEF IInv
  <2>5. Close(m, R, u) /\ Step = m * P
    BY DEF IInv, ScaledInv, OffsetInv, Step
  <2> QED BY <2>1, <2>2, <2>3, <2>4, <2>5
<1>2. CASE u >= 0
  <2> DEFINE U == 10 ^ u
             k == -Common
  <2>1. Least(u, 9) = u /\ u \in 0 .. 8 /\ u \in 0 .. 9
    BY <1>1, <1>2 DEF Least
  <2>2. 2 * Abs(255 * m - R * U) <= 5 * m
    BY <1>1, <1>2, <2>1 DEF Close
  <2>3. U \in Nat
    <3> HIDE DEF u
    <3> QED BY <2>1, PowerIs
  <2>4. T = U * P
    <3>1. k \in 0 .. 8 /\ u + k <= 8 /\ Unit - Common = u + k
      BY <1>1
    <3>2. T = 10 ^ (u + k) /\ P = 10 ^ k
      BY <3>1 DEF UnitTerm, Whole
    <3> HIDE DEF u, k, T, P
    <3> QED BY <2>1, <3>1, <3>2, PowerSum
  <2> DEFINE a == 255 * m
             b == R * U
  <2>5. a \in Int /\ b \in Int /\ 255 * Step = a * P /\ R * T = b * P
        /\ 5 * Step = (5 * m) * P
    <3> HIDE DEF m, R, U, P, T, u
    <3> QED BY <1>1, <2>3, <2>4
  <2> HIDE DEF m, R, U, P, T, u, a, b, k
  <2>6. 2 * Abs(a - b) <= 5 * m
    BY <2>2 DEF a, b
  <2>7. 2 * (a - b) <= 5 * m /\ 2 * (b - a) <= 5 * m
    BY <1>1, <2>5, <2>6 DEF Abs
  <2>8. P * (2 * (a - b)) <= P * (5 * m) /\ P * (2 * (b - a)) <= P * (5 * m)
    BY <1>1, <2>5, <2>7, TimesGrows
  <2>9. /\ P * (2 * (a - b)) = 2 * (a * P - b * P) /\ P * (2 * (b - a)) = 2 * (b * P - a * P)
        /\ P * (5 * m) = (5 * m) * P /\ a * P \in Int /\ b * P \in Int /\ (5 * m) * P \in Int
    BY <1>1, <2>5
  <2>10. 2 * Abs(a * P - b * P) <= (5 * m) * P
    BY <2>8, <2>9 DEF Abs
  <2> QED BY <2>5, <2>10 DEF R, T
<1>3. CASE u < 0
  <2> DEFINE k == -u
             U == 10 ^ k
             j == u - Common
  <2>1. Least(-u, 9) = k /\ k \in 0 .. 8 /\ k \in 0 .. 9
    BY <1>1, <1>3 DEF Least
  <2>2. 2 * Abs(255 * m * U - R) <= 5 * m * U
    BY <1>1, <1>3, <2>1 DEF Close
  <2>3. k + j <= 8 /\ -Common = k + j /\ j \in 0 .. 8
    BY <1>1
  <2>4. P = 10 ^ (k + j) /\ T = 10 ^ j
    BY <2>3 DEF UnitTerm, Whole
  <2> HIDE DEF k, j, u, T, P
  <2>5. U \in Nat
    BY <2>1, PowerIs
  <2>6. P = U * T
    BY <2>1, <2>3, <2>4, PowerSum
  <2> DEFINE a == 255 * m * U
             c == 5 * m * U
  <2>7. a \in Int /\ c \in Int /\ 255 * Step = a * T /\ 5 * Step = c * T
    <3> HIDE DEF m, U
    <3> QED BY <1>1, <2>5, <2>6
  <2> HIDE DEF a, c, m, U, R
  <2>8. 2 * Abs(a - R) <= c
    BY <2>2 DEF a, c
  <2>9. 2 * (a - R) <= c /\ 2 * (R - a) <= c
    BY <1>1, <2>7, <2>8 DEF Abs
  <2>10. T * (2 * (a - R)) <= T * c /\ T * (2 * (R - a)) <= T * c
    BY <1>1, <2>7, <2>9, TimesGrows
  <2>11. /\ T * (2 * (a - R)) = 2 * (a * T - R * T) /\ T * (2 * (R - a)) = 2 * (R * T - a * T)
         /\ T * c = c * T /\ a * T \in Int /\ R * T \in Int /\ c * T \in Int
    BY <1>1, <2>7
  <2>12. 2 * Abs(a * T - R * T) <= c * T
    BY <2>10, <2>11 DEF Abs
  <2> QED BY <2>7, <2>12 DEF R, T
<1> QED BY <1>1, <1>2, <1>3

(* The ends are as many steps from 0 as their bytes, but for rounding.     *)
LEMMA EndsAre ==
  ASSUME IInv, pc = "scaled", OffsetExact
  PROVE  /\ 255 * Distance(input.min) = Lowest * (input.range * UnitTerm)
         /\ 255 * Distance(input.min + input.range) = Highest * (input.range * UnitTerm)
<1> DEFINE a == input.min
           R == input.range
           T == UnitTerm
           B == ibase * OffsetTerm
           L == Lowest
<1>1. a \in Int /\ R \in Int /\ T \in Int /\ ibase \in Int /\ OffsetTerm \in Int
  BY TypeFacts, ReadingFacts DEF IInv, TypeOK, IBase
<1>2. L \in Int /\ Highest = L + 255
  BY DEF Lowest, Highest
<1>3. 255 * B = (255 * a - R * L) * T
  BY OffsetIs
<1>4. a + R \in Int
  BY <1>1
<1>5. Distance(a) = a * T - B /\ Distance(a + R) = (a + R) * T - B
  BY <1>1, <1>4, ReadingFacts
<1>6. B \in Int
  BY <1>1
<1> HIDE DEF a, R, T, B, L
<1>7. 255 * (a * T - B) = L * (R * T)
  BY <1>1, <1>2, <1>3, <1>6
<1>8. 255 * ((a + R) * T - B) = (L + 255) * (R * T)
  BY <1>1, <1>2, <1>3, <1>6
<1> QED BY <1>2, <1>5, <1>7, <1>8 DEF a, R, T, L

LEMMA EndsAreMet ==
  ASSUME IInv, pc = "scaled", OffsetExact, TwoDigits
  PROVE  IF input.min < 0
         THEN Byte(input.min) <= -127 /\ Byte(input.min + input.range) >= 126
         ELSE Byte(input.min) = 0 /\ Byte(input.min + input.range) >= 252
<1> DEFINE q == Step
           X == input.range * UnitTerm
           lo == input.min
           hi == input.min + input.range
           d == Distance(lo)
           f == Distance(hi)
           r == Rounded(lo)
           s == Rounded(hi)
<1>1. input.min \in Int /\ input.range \in Int /\ UnitTerm \in Int
  BY TypeFacts, ReadingFacts DEF IInv
<1>2. lo \in Int /\ hi \in Int /\ X \in Int
  BY <1>1
<1>3. /\ q \in Nat /\ q >= 1 /\ r \in Int /\ d \in Int /\ 2 * Abs(q * r - d) <= q
      /\ Byte(lo) = IF r < Lowest THEN Lowest ELSE IF r > Highest THEN Highest ELSE r
  BY <1>2, ByteFacts
<1>4. /\ s \in Int /\ f \in Int /\ 2 * Abs(q * s - f) <= q
      /\ Byte(hi) = IF s < Lowest THEN Lowest ELSE IF s > Highest THEN Highest ELSE s
  BY <1>2, ByteFacts
<1>5. 255 * d = Lowest * X /\ 255 * f = Highest * X
  BY EndsAre
<1>6. 2 * Abs(255 * q - X) <= 5 * q
  BY StepsAreClose
<1>7. \/ ~(input.min < 0) /\ Lowest = 0 /\ Highest = 255
      \/ input.min < 0 /\ Lowest = -128 /\ Highest = 127
  BY DEF Lowest, Highest
<1> HIDE DEF q, X, lo, hi, d, f, r, s
<1>8. 505 * q <= 2 * X
  BY <1>2, <1>3, <1>6 DEF Abs
<1>9. q * r \in Int /\ q * s \in Int
  BY <1>3, <1>4
<1>10. 2 * (q * r) <= 2 * d + q /\ 2 * f - q <= 2 * (q * s)
  BY <1>3, <1>4, <1>9 DEF Abs
<1>11. \A z \in Int, k \in Int : z <= k => q * z <= q * k
  BY <1>3, TimesGrows
<1>12. CASE ~(input.min < 0) /\ Lowest = 0 /\ Highest = 255
  <2>1. d = 0 /\ f = X
    BY <1>2, <1>3, <1>4, <1>5, <1>12
  <2>2. r <= 0
    <3>1. 1 <= r => q * 1 <= q * r
      BY <1>3, <1>11
    <3> QED BY <1>3, <1>9, <1>10, <2>1, <3>1
  <2>3. s >= 252
    <3>1. s <= 251 => q * s <= q * 251
      BY <1>4, <1>11
    <3> QED BY <1>2, <1>3, <1>4, <1>8, <1>9, <1>10, <2>1, <3>1
  <2> QED BY <1>3, <1>4, <1>12, <2>2, <2>3 DEF lo, hi
<1>13. CASE input.min < 0 /\ Lowest = -128 /\ Highest = 127
  <2>1. 255 * d = (-128) * X /\ 255 * f = 127 * X
    BY <1>5, <1>13
  <2>2. r <= -127
    <3>1. -126 <= r => q * (-126) <= q * r
      BY <1>3, <1>11
    <3> QED BY <1>2, <1>3, <1>8, <1>9, <1>10, <2>1, <3>1
  <2>3. s >= 126
    <3>1. s <= 125 => q * s <= q * 125
      BY <1>4, <1>11
    <3> QED BY <1>2, <1>3, <1>4, <1>8, <1>9, <1>10, <2>1, <3>1
  <2> QED BY <1>3, <1>4, <1>13, <2>2, <2>3 DEF lo, hi
<1> QED BY <1>7, <1>12, <1>13

(* "If y is min, x should equal = 0 (or -128 if signed).  If y is max, x   *)
(* should equal 255 (or 127 if signed)": the solution for M and B in       *)
(* getSensorAttributes meets both to within one byte, or three at the      *)
(* unsigned maximum, unless B was rounded or M has a single digit.         *)
THEOREM EndsAreNearlyMet == Spec => []EndsNearlyMet
<1>1. IInv => EndsNearlyMet
  BY EndsAreMet DEF EndsNearlyMet
<1> QED BY <1>1, Invariance, PTL

-----------------------------------------------------------------------------
(* Termination                                                             *)

(* A bound on the steps that are left.                                     *)
StepsLeft ==
  (IF of = "M" THEN 100 ELSE 0)
  + (CASE pc = "start"     -> 99
       [] pc = "expand"    -> 60 + exp + 8
       [] pc = "shrink"    -> 40 + 7 - exp
       [] pc = "round"     -> 39
       [] pc = "normalize" -> IF ibase # 0 THEN 20 + 7 - exp ELSE IF exp # 0 THEN 11 ELSE 10
       [] OTHER            -> 0)

LEMMA StepsLeftFalls ==
  ASSUME IInv, Next
  PROVE  StepsLeft' < StepsLeft
<1>0. exp \in Int /\ exp >= -8 /\ exp <= 7 /\ ibase \in Int
  BY ExponentFacts DEF IInv, TypeOK, IBase
<1>1. CASE BadLimits \/ BeyondScale \/ BelowScale \/ Scaled
  BY <1>0, <1>1 DEF BadLimits, BeyondScale, BelowScale, Scaled, Normalized, Goto, StepsLeft
<1>2. CASE SolveM
  BY <1>0, <1>2 DEF SolveM, StartScale, StepsLeft, IInv, Started
<1>3. CASE Expand
  BY <1>0, <1>3 DEF Expand, StepsLeft
<1>4. CASE ExpandEnds \/ IsZero \/ ShrinkEnds
  BY <1>0, <1>4 DEF ExpandEnds, IsZero, ShrinkEnds, Goto, StepsLeft
<1>5. CASE Shrink
  BY <1>0, <1>5 DEF Shrink, StepsLeft
<1>6. CASE Round
  BY <1>0, <1>6 DEF Round, StepsLeft
<1>7. CASE Normalize
  <2>1. /\ ibase # 0 /\ ibase' # 0 /\ exp' = exp + 1 /\ pc = "normalize" /\ pc' = pc
        /\ of' = of
    <3>1. ibase # 0 /\ ibase % 10 = 0 /\ ibase' = ibase \div 10
      BY <1>7 DEF Normalize, CanNormalize
    <3>2. ibase' # 0
      BY <1>0, <3>1
    <3> QED BY <1>7, <3>1, <3>2 DEF Normalize
  <2> QED BY <1>0, <2>1 DEF StepsLeft
<1>8. CASE NormalizeZero
  BY <1>0, <1>8 DEF NormalizeZero, StepsLeft
<1>9. CASE SolveB
  <2>1. /\ pc = "normalize" /\ of = "M" /\ ibase # 0
        /\ pc' = "expand" /\ of' = "B" /\ exp' = 0
    BY <1>9 DEF SolveB, Normalized, StartScale
  <2> QED BY <1>0, <2>1 DEF StepsLeft
<1> QED BY <1>1, <1>2, <1>3, <1>4, <1>5, <1>6, <1>7, <1>8, <1>9 DEF Next

(* No call of getSensorAttributes takes 200 turns of its loops: every step *)
(* leaves fewer of them, for all limits, and never less than none.         *)
THEOREM CallsAreShort == Spec => [](StepsLeft \in 0 .. 199) /\ [][StepsLeft' < StepsLeft]_vars
<1>1. IInv => StepsLeft \in 0 .. 199
  <2> SUFFICES ASSUME IInv PROVE StepsLeft \in 0 .. 199
    OBVIOUS
  <2>1. exp \in Int /\ exp >= -8 /\ exp <= 7
    BY ExponentFacts DEF IInv, TypeOK
  <2> QED BY <2>1 DEF StepsLeft
<1>2. IInv /\ [Next]_vars => [StepsLeft' < StepsLeft]_vars
  BY StepsLeftFalls
<1> QED BY <1>1, <1>2, Invariance, PTL DEF Spec
=============================================================================
