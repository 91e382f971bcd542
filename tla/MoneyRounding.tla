---------------------------- MODULE MoneyRounding ----------------------------
(***************************************************************************)
(* The price conversion, int(float(price) * 100), at every precision and   *)
(* for every price that the significand has room for; with the 53 bits of  *)
(* a double, for every price that DECIMAL(10, 2) holds.                    *)
(*                                                                         *)
(* The argument: the significand is p * 2^scale / 100 rounded, so 100      *)
(* times it misses x = p * 2^scale by Error(x), less than 50.  The product *)
(* keeps all but the last 6 or 7 bits of that, of which p * 2^scale has    *)
(* none, so what is left of the error is one unit below, at or above p.    *)
(***************************************************************************)
EXTENDS Money, WellFoundedInduction, TLAPS

-----------------------------------------------------------------------------
(* Induction and recursion on the natural numbers, for sets and functions *)

\* Every nonempty set of naturals has a least element.
LEMMA LeastElement ==
  ASSUME NEW T \in SUBSET Nat, T # {}
  PROVE  \E m \in T : \A k \in T : m <= k
<1> DEFINE R == OpToRel(<, Nat)
<1>1. IsWellFoundedOn(R, Nat)
  BY NatLessThanWellFounded, Zenon
<1>2. \A x, y \in Nat : x < y => <<x, y>> \in R
  BY Zenon DEF OpToRel
<1> HIDE DEF R
<1>3. PICK m \in T : \A k \in T : ~ (<<k, m>> \in R)
  BY <1>1, WFMin, Zenon
<1>4. \A k \in T : ~ (k < m)
  BY <1>2, <1>3, Zenon
<1> QED BY <1>4, SMT

\* Induction, with a set where the library's theorem has an operator.
LEMMA Induction ==
  ASSUME NEW T, 0 \in T, \A n \in Nat : n \in T => n + 1 \in T
  PROVE  Nat \subseteq T
<1> SUFFICES ASSUME Nat \ T # {} PROVE FALSE
  OBVIOUS
<1>1. PICK m \in Nat \ T : \A k \in Nat \ T : m <= k
  BY LeastElement
<1>2. m # 0 /\ m - 1 \in Nat /\ m - 1 \notin Nat \ T
  BY <1>1
<1> QED BY <1>2

\* A function on the naturals is defined by its first value and by the step h from one
\* value to the next: F(n) is a solution up to n, and longer solutions agree with it.
LEMMA Recursion ==
  ASSUME NEW b \in Nat, NEW h \in [Nat -> Nat]
  PROVE  \E f \in [Nat -> Nat] : f[0] = b /\ \A n \in Nat : f[n + 1] = h[f[n]]
<1> DEFINE Start(n, g) == g[0] = b /\ \A i \in 0..n-1 : g[i + 1] = h[g[i]]
           T == {n \in Nat : \E g \in [0..n -> Nat] : Start(n, g)}
           F(n) == CHOOSE g \in [0..n -> Nat] : Start(n, g)
           f == [n \in Nat |-> F(n)[n]]
<1>1. 0 \in T
  <2>1. [i \in 0..0 |-> b] \in [0..0 -> Nat] /\ Start(0, [i \in 0..0 |-> b])
    OBVIOUS
  <2> QED BY <2>1
<1>2. ASSUME NEW n \in Nat, n \in T PROVE n + 1 \in T
  <2>1. PICK g \in [0..n -> Nat] : Start(n, g)
    BY <1>2
  <2> DEFINE g2 == [i \in 0..n+1 |-> IF i <= n THEN g[i] ELSE h[g[n]]]
  <2>2. g2 \in [0..n+1 -> Nat]
    OBVIOUS
  <2>3. g2[0] = b
    BY <2>1
  <2>4. ASSUME NEW i \in 0..n PROVE g2[i + 1] = h[g2[i]]
    <3>1. CASE i = n
      <4>1. g2[n] = g[n] /\ g2[n + 1] = h[g[n]]
        OBVIOUS
      <4> QED BY <3>1, <4>1
    <3>2. CASE i # n
      <4>1. i \in 0..n-1 /\ i + 1 \in 0..n
        BY <3>2
      <4>2. g2[i + 1] = g[i + 1] /\ g2[i] = g[i]
        BY <4>1
      <4> QED BY <2>1, <4>1, <4>2
    <3> QED BY <3>1, <3>2
  <2> HIDE DEF g2
  <2>5. (n + 1) - 1 = n /\ n + 1 \in Nat
    OBVIOUS
  <2>6. Start(n + 1, g2)
    BY <2>3, <2>4, <2>5
  <2> HIDE DEF Start
  <2> QED BY <2>2, <2>5, <2>6
<1> HIDE DEF T
<1>3. Nat \subseteq T
  BY <1>1, <1>2, Induction
<1>4. \A n \in Nat : F(n) \in [0..n -> Nat] /\ Start(n, F(n))
  <2> TAKE n \in Nat
  <2>1. \E g \in [0..n -> Nat] : Start(n, g)
    BY <1>3 DEF T
  <2> HIDE DEF Start
  <2> QED BY <2>1, Zenon
<1> HIDE DEF F
<1>5. ASSUME NEW n \in Nat PROVE F(n + 1)[n] = F(n)[n]
  <2> DEFINE A == {i \in Nat : i <= n => F(n + 1)[i] = F(n)[i]}
  <2>1. 0 \in A
    <3>1. n + 1 \in Nat
      OBVIOUS
    <3>2. F(n)[0] = b /\ F(n + 1)[0] = b
      BY <1>4, <3>1, Zenon
    <3> QED BY <3>2
  <2>2. ASSUME NEW i \in Nat, i \in A PROVE i + 1 \in A
    <3>1. CASE i + 1 <= n
      <4>1. i \in 0..n-1 /\ i \in 0..(n + 1) - 1 /\ n + 1 \in Nat /\ F(n + 1)[i] = F(n)[i]
        BY <2>2, <3>1
      <4>2. F(n)[i + 1] = h[F(n)[i]]
        BY <1>4, <4>1
      <4>3. F(n + 1)[i + 1] = h[F(n + 1)[i]]
        BY <1>4, <4>1
      <4> QED BY <4>1, <4>2, <4>3
    <3>2. CASE ~ (i + 1 <= n)
      BY <3>2
    <3> QED BY <3>1, <3>2
  <2> HIDE DEF A
  <2>3. n \in A
    BY <2>1, <2>2, Induction
  <2> QED BY <2>3 DEF A
<1>6. f \in [Nat -> Nat] /\ \A n \in Nat : f[n] = F(n)[n]
  BY <1>4
<1>7. f[0] = b
  BY <1>4, <1>6
<1>8. ASSUME NEW n \in Nat PROVE f[n + 1] = h[f[n]]
  <2>1. n + 1 \in Nat /\ n \in 0..(n + 1) - 1
    OBVIOUS
  <2>2. F(n + 1)[n + 1] = h[F(n + 1)[n]]
    BY <1>4, <2>1
  <2> QED BY <1>5, <1>6, <2>1, <2>2
<1> HIDE DEF f
<1> QED BY <1>6, <1>7, <1>8

-----------------------------------------------------------------------------
(* Powers of two and binary logarithms *)

\* Pow2 satisfies its recursive definition.
LEMMA Pow2Def == Pow2 = [k \in Nat |-> IF k = 0 THEN 1 ELSE 2 * Pow2[k - 1]]
<1> DEFINE h == [x \in Nat |-> 2 * x]
<1>1. h \in [Nat -> Nat] /\ \A x \in Nat : h[x] = 2 * x
  OBVIOUS
<1> HIDE DEF h
<1>2. PICK f \in [Nat -> Nat] : f[0] = 1 /\ \A n \in Nat : f[n + 1] = h[f[n]]
  <2>1. 1 \in Nat
    OBVIOUS
  <2> QED BY <1>1, <2>1, Recursion, Zenon
<1>3. \A k \in Nat : f[k] = IF k = 0 THEN 1 ELSE 2 * f[k - 1]
  <2> TAKE k \in Nat
  <2>1. CASE k = 0
    BY <1>2, <2>1
  <2>2. CASE k # 0
    <3>1. k - 1 \in Nat /\ (k - 1) + 1 = k
      BY <2>2
    <3>2. f[(k - 1) + 1] = h[f[k - 1]]
      BY <1>2, <3>1
    <3> QED BY <1>1, <2>2, <3>1, <3>2
  <2> QED BY <2>1, <2>2
<1>4. f = [k \in Nat |-> IF k = 0 THEN 1 ELSE 2 * f[k - 1]]
  BY <1>3
<1> QED BY <1>4, Zenon DEF Pow2

\* The equations of Pow2, and that it is positive.
LEMMA Pow2Facts ==
  /\ Pow2[0] = 1
  /\ \A k \in Nat : Pow2[k] \in Nat /\ Pow2[k] >= 1 /\ Pow2[k + 1] = 2 * Pow2[k]
<1>1. \A k \in Nat : Pow2[k] = IF k = 0 THEN 1 ELSE 2 * Pow2[k - 1]
  BY Pow2Def
<1>2. Pow2[0] = 1
  BY <1>1
<1>3. \A k \in Nat : Pow2[k + 1] = 2 * Pow2[k]
  <2> TAKE k \in Nat
  <2>1. k + 1 \in Nat /\ k + 1 # 0 /\ (k + 1) - 1 = k
    OBVIOUS
  <2> QED BY <1>1, <2>1
<1> DEFINE T == {k \in Nat : Pow2[k] \in Nat /\ Pow2[k] >= 1}
<1>4. 0 \in T
  BY <1>2
<1>5. \A k \in Nat : k \in T => k + 1 \in T
  BY <1>3
<1> HIDE DEF T
<1>6. Nat \subseteq T
  BY <1>4, <1>5, Induction
<1> QED BY <1>2, <1>3, <1>6 DEF T

\* Powers multiply when exponents add.
LEMMA Pow2Adds ==
  ASSUME NEW a \in Nat, NEW b \in Nat
  PROVE  Pow2[a + b] = Pow2[a] * Pow2[b]
<1> DEFINE T == {k \in Nat : Pow2[a + k] = Pow2[a] * Pow2[k]}
<1>1. 0 \in T
  BY Pow2Facts
<1>2. ASSUME NEW k \in Nat, k \in T PROVE k + 1 \in T
  <2> DEFINE u == Pow2[a]
             v == Pow2[k]
  <2>1. u \in Nat /\ v \in Nat /\ Pow2[k + 1] = 2 * v
    BY Pow2Facts
  <2>2. a + k \in Nat /\ a + (k + 1) = (a + k) + 1
    OBVIOUS
  <2>3. Pow2[a + (k + 1)] = 2 * Pow2[a + k]
    BY <2>2, Pow2Facts
  <2>4. Pow2[a + k] = u * v
    BY <1>2
  <2> HIDE DEF u, v
  <2>5. 2 * (u * v) = u * (2 * v)
    BY <2>1
  <2>6. Pow2[a + (k + 1)] = u * Pow2[k + 1]
    BY <2>1, <2>3, <2>4, <2>5
  <2> QED BY <2>6 DEF u
<1> HIDE DEF T
<1>3. b \in T
  BY <1>1, <1>2, Induction
<1> QED BY <1>3 DEF T

\* Powers grow with their exponents.
LEMMA Pow2Grows ==
  ASSUME NEW a \in Nat, NEW b \in Nat, a <= b
  PROVE  Pow2[a] <= Pow2[b]
<1>1. b - a \in Nat /\ a + (b - a) = b
  OBVIOUS
<1>2. Pow2[b] = Pow2[a] * Pow2[b - a]
  BY <1>1, Pow2Adds
<1>3. \A u, v \in Nat : v >= 1 => u <= u * v
  <2> TAKE u, v \in Nat
  <2>1. ASSUME v >= 1 PROVE u <= u * v
    <3>1. u * v = u + u * (v - 1) /\ v - 1 \in Nat
      BY <2>1
    <3>2. \A x, y \in Nat : x * y \in Nat
      OBVIOUS
    <3> QED BY <3>1, <3>2
  <2> QED BY <2>1
<1> QED BY <1>1, <1>2, <1>3, Pow2Facts

\* FloorLog2 is the only exponent between whose powers the number lies.
LEMMA FloorLog2Unique ==
  ASSUME NEW n \in Nat, NEW e \in 0..63, Pow2[e] <= n, n < Pow2[e + 1]
  PROVE  FloorLog2(n) = e
<1>1. ASSUME NEW i \in 0..63, Pow2[i] <= n, n < Pow2[i + 1]
      PROVE  i = e
  <2>1. CASE i < e
    BY <1>1, <2>1, Pow2Grows, Pow2Facts
  <2>2. CASE e < i
    BY <1>1, <2>2, Pow2Grows, Pow2Facts
  <2> QED BY <1>1, <2>1, <2>2
<1> QED BY <1>1 DEF FloorLog2

\* Below 2^64 there is such an exponent.
LEMMA FloorLog2Exists ==
  ASSUME NEW n \in Nat, NEW b \in 1..64, 1 <= n, n < Pow2[b]
  PROVE  /\ FloorLog2(n) \in 0..(b - 1)
         /\ Pow2[FloorLog2(n)] <= n
         /\ n < Pow2[FloorLog2(n) + 1]
<1> DEFINE T == {k \in Nat : n < Pow2[k]}
<1>1. T \in SUBSET Nat /\ b \in T
  OBVIOUS
<1>2. PICK m \in T : \A k \in T : m <= k
  <2> HIDE DEF T
  <2> QED BY <1>1, LeastElement
<1>3. m \in Nat /\ m # 0 /\ m <= b
  BY <1>1, <1>2, Pow2Facts
<1>4. m - 1 \in 0..(b - 1) /\ m - 1 \in 0..63 /\ (m - 1) + 1 = m /\ m - 1 \in Nat
  BY <1>3
<1>5. n < Pow2[(m - 1) + 1]
  BY <1>2, <1>4
<1>6. m - 1 \notin T
  BY <1>2, <1>3
<1>7. Pow2[m - 1] <= n
  BY <1>4, <1>6, Pow2Facts
<1>8. FloorLog2(n) = m - 1
  BY <1>4, <1>5, <1>7, FloorLog2Unique
<1> QED BY <1>4, <1>5, <1>7, <1>8

-----------------------------------------------------------------------------
(* Remainders modulo 100 *)

\* Quotient and remainder are unique.
LEMMA ModUnique ==
  ASSUME NEW n \in Int, NEW q \in Int, NEW m \in 0..99, n = 100 * q + m
  PROVE  n % 100 = m /\ n \div 100 = q
  OBVIOUS

\* The remainder of a product is that of the remainders' product.
LEMMA ModOfProduct ==
  ASSUME NEW x \in Int, NEW y \in Int
  PROVE  (x * y) % 100 = ((x % 100) * (y % 100)) % 100
<1> DEFINE a == x \div 100
           r == x % 100
           b == y \div 100
           s == y % 100
           k == 100 * (a * b) + a * s + b * r
           t == (r * s) \div 100
           u == (r * s) % 100
<1>1. /\ a \in Int /\ b \in Int /\ r \in 0..99 /\ s \in 0..99
      /\ x = 100 * a + r /\ y = 100 * b + s
  OBVIOUS
<1>2. r * s \in Int /\ a * b \in Int /\ a * s \in Int /\ b * r \in Int
  BY <1>1
<1>3. u \in 0..99 /\ t \in Int /\ r * s = 100 * t + u
  <2>1. \A z \in Int : /\ z % 100 \in 0..99 /\ z \div 100 \in Int
                       /\ z = 100 * (z \div 100) + (z % 100)
    OBVIOUS
  <2> HIDE DEF r, s
  <2> QED BY <1>2, <2>1, Zenon
<1> HIDE DEF a, r, b, s, t, u
<1>4. x * y = 100 * (100 * (a * b) + a * s + b * r) + r * s
  BY <1>1
<1>5. k \in Int /\ x * y = 100 * k + r * s
  BY <1>2, <1>4
<1> HIDE DEF k
<1>6. x * y = 100 * (k + t) + u /\ k + t \in Int /\ x * y \in Int
  BY <1>3, <1>5
<1>7. (x * y) % 100 = u
  BY <1>3, <1>6, ModUnique
<1> QED BY <1>7 DEF u, r, s

\* PowerMod100 is what its name says.
LEMMA PowerMod100IsMod ==
  \A k \in Nat : PowerMod100[k] = Pow2[k] % 100
<1> DEFINE f == [k \in Nat |-> Pow2[k] % 100]
<1>1. \A k \in Nat : f[k] = IF k = 0 THEN 1 ELSE (2 * f[k - 1]) % 100
  <2> TAKE k \in Nat
  <2>1. CASE k = 0
    BY <2>1, Pow2Facts
  <2>2. CASE k # 0
    <3>1. k - 1 \in Nat /\ (k - 1) + 1 = k
      BY <2>2
    <3>2. Pow2[k - 1] \in Nat /\ Pow2[k] = 2 * Pow2[k - 1]
      BY <3>1, Pow2Facts
    <3>3. (2 * Pow2[k - 1]) % 100 = (2 * (Pow2[k - 1] % 100)) % 100
      BY <3>2
    <3> QED BY <2>2, <3>1, <3>2, <3>3
  <2> QED BY <2>1, <2>2
<1>2. f = [k \in Nat |-> IF k = 0 THEN 1 ELSE (2 * f[k - 1]) % 100]
  BY <1>1
<1> HIDE DEF f
<1>3. PowerMod100 = [k \in Nat |-> IF k = 0 THEN 1 ELSE (2 * PowerMod100[k - 1]) % 100]
  BY <1>2, Zenon DEF PowerMod100
<1>4. \A k \in Nat : PowerMod100[k] = IF k = 0 THEN 1 ELSE (2 * PowerMod100[k - 1]) % 100
  BY <1>3
<1> DEFINE T == {k \in Nat : PowerMod100[k] = f[k]}
<1>5. 0 \in T
  BY <1>1, <1>4
<1>6. ASSUME NEW k \in Nat, k \in T PROVE k + 1 \in T
  <2>1. k + 1 \in Nat /\ k + 1 # 0 /\ (k + 1) - 1 = k
    OBVIOUS
  <2> QED BY <1>1, <1>4, <1>6, <2>1
<1> HIDE DEF T
<1>7. Nat \subseteq T
  BY <1>5, <1>6, Induction
<1> QED BY <1>7 DEF T, f

-----------------------------------------------------------------------------
(* The conversion *)

\* The powers that the conversion meets.
LEMMA Pow2Small ==
  /\ Pow2[1] = 2 /\ Pow2[2] = 4 /\ Pow2[3] = 8 /\ Pow2[4] = 16
  /\ Pow2[5] = 32 /\ Pow2[6] = 64 /\ Pow2[7] = 128 /\ Pow2[8] = 256
<1>1. Pow2[0 + 1] = 2 /\ Pow2[1 + 1] = 2 * Pow2[1] /\ Pow2[2 + 1] = 2 * Pow2[2]
      /\ Pow2[3 + 1] = 2 * Pow2[3] /\ Pow2[4 + 1] = 2 * Pow2[4] /\ Pow2[5 + 1] = 2 * Pow2[5]
      /\ Pow2[6 + 1] = 2 * Pow2[6] /\ Pow2[7 + 1] = 2 * Pow2[7]
  BY Pow2Facts
<1> QED BY <1>1

\* A price of p cents has two bits less than the q of the significand.
Fits(q, p) == q \in 9..53 /\ p \in Nat /\ p >= 1 /\ p < Pow2[q - 2]

\* The exponent of p/100 is 6 or 7 less than that of p, and in both cases the scale
\* brings the leading bit of p to the same power of two.
LEMMA ScaledPrice ==
  ASSUME NEW q, NEW p, Fits(q, p)
  PROVE  LET a == Pow2[FloorLog2(p)]
             S == Pow2[Scale(q, p)]
             P == Pow2[q - 1]
         IN  /\ FloorLog2(p) \in Nat /\ a \in Nat /\ a <= p /\ p < 2 * a
             /\ Scale(q, p) \in Nat /\ Scale(q, p) >= 8
             /\ \/ /\ FloorLog2(p) - PriceExponent(p) = 6
                   /\ 25 * a <= 16 * p
                   /\ a * S = 64 * P
                \/ /\ FloorLog2(p) - PriceExponent(p) = 7
                   /\ 16 * p < 25 * a
                   /\ a * S = 128 * P
<1> DEFINE j == FloorLog2(p)
<1>1. q - 2 \in 1..64 /\ q - 1 \in Nat /\ p \in Nat /\ 1 <= p /\ p < Pow2[q - 2]
  BY DEF Fits
<1>2. j \in 0..((q - 2) - 1) /\ Pow2[j] <= p /\ p < Pow2[j + 1]
  BY <1>1, FloorLog2Exists, Zenon
<1>3. j \in Nat /\ Pow2[j] \in Nat /\ p < 2 * Pow2[j]
  BY <1>2, Pow2Facts
<1>4. CASE 25 * Pow2[j] <= 16 * p
  <2>1. PriceExponent(p) = j - 6
    BY <1>4 DEF PriceExponent
  <2>2. Scale(q, p) = (q - 1) - (j - 6)
    BY <2>1 DEF Scale
  <2> HIDE DEF j
  <2>3. /\ Scale(q, p) \in Nat /\ Scale(q, p) >= 8
        /\ j + Scale(q, p) = 6 + (q - 1) /\ j - PriceExponent(p) = 6
    BY <2>1, <2>2, <1>2, <1>1
  <2>4. Pow2[j] * Pow2[Scale(q, p)] = Pow2[6 + (q - 1)]
    BY <2>3, <1>3, Pow2Adds
  <2>5. Pow2[6 + (q - 1)] = Pow2[6] * Pow2[q - 1]
    BY <1>1, Pow2Adds
  <2> QED BY <1>2, <1>3, <1>4, <2>3, <2>4, <2>5, Pow2Small DEF j
<1>5. CASE ~ (25 * Pow2[j] <= 16 * p)
  <2>1. PriceExponent(p) = j - 7
    BY <1>5 DEF PriceExponent
  <2>2. Scale(q, p) = (q - 1) - (j - 7)
    BY <2>1 DEF Scale
  <2> HIDE DEF j
  <2>3. /\ Scale(q, p) \in Nat /\ Scale(q, p) >= 8
        /\ j + Scale(q, p) = 7 + (q - 1) /\ j - PriceExponent(p) = 7
    BY <2>1, <2>2, <1>2, <1>1
  <2>4. Pow2[j] * Pow2[Scale(q, p)] = Pow2[7 + (q - 1)]
    BY <2>3, <1>3, Pow2Adds
  <2>5. Pow2[7 + (q - 1)] = Pow2[7] * Pow2[q - 1]
    BY <1>1, Pow2Adds
  <2>6. 16 * p < 25 * Pow2[j]
    BY <1>1, <1>3, <1>5
  <2> QED BY <1>2, <1>3, <2>6, <2>3, <2>4, <2>5, Pow2Small DEF j
<1> QED BY <1>4, <1>5

\* What is to be added to x for the nearest multiple of 100.
Error(x) == LET r == (-x) % 100 IN IF r > 50 THEN r - 100 ELSE r

\* The first rounding never meets a tie, since x has factors of two.
LEMMA SignificandError ==
  ASSUME NEW x \in Nat, x % 4 = 0
  PROVE  /\ Error(x) \in -49..49
         /\ 100 * RoundHalfEven(x, 100) = x + Error(x)
         /\ x % 100 = 0 => Error(x) = 0
<1> DEFINE k == x \div 100
           r == x % 100
<1>1. k \in Nat /\ r \in 0..99 /\ x = 100 * k + r
  OBVIOUS
<1>2. r # 50
  <2>1. x = 4 * (x \div 4) /\ x \div 4 \in Nat
    OBVIOUS
  <2>2. \A u, v \in Nat : 4 * u # 100 * v + 50
    OBVIOUS
  <2> QED BY <1>1, <2>1, <2>2
<1>3. RoundHalfEven(x, 100) = IF r < 50 THEN k ELSE k + 1
  <2>1. CASE 2 * r < 100
    BY <1>1, <2>1 DEF RoundHalfEven
  <2>2. CASE ~ (2 * r < 100)
    BY <1>1, <1>2, <2>2 DEF RoundHalfEven
  <2> QED BY <1>1, <2>1, <2>2
<1>4. (-x) % 100 = IF r = 0 THEN 0 ELSE 100 - r
  <2> DEFINE n == -x
  <2> HIDE DEF k, r
  <2>1. n = 100 * (-k) + (-r) /\ n \in Int /\ -k \in Int /\ -k - 1 \in Int
    BY <1>1
  <2> HIDE DEF n
  <2>2. ASSUME r = 0 PROVE n % 100 = 0
    <3>1. n = 100 * (-k) + 0 /\ 0 \in 0..99
      BY <1>1, <2>1, <2>2
    <3> QED BY <2>1, <3>1, ModUnique
  <2>3. ASSUME r # 0 PROVE n % 100 = 100 - r
    <3>1. n = 100 * (-k - 1) + (100 - r) /\ 100 - r \in 0..99
      BY <1>1, <2>1, <2>3
    <3> QED BY <2>1, <3>1, ModUnique
  <2> QED BY <2>2, <2>3 DEF n
<1> HIDE DEF k, r
<1>5. Error(x) = IF r < 50 THEN -r ELSE 100 - r
  BY <1>1, <1>2, <1>4 DEF Error
<1>6. 100 * RoundHalfEven(x, 100) = x + Error(x)
  BY <1>1, <1>3, <1>5
<1>7. Error(x) \in -49..49
  BY <1>1, <1>2, <1>5
<1> QED BY <1>5, <1>6, <1>7, <1>1 DEF r

\* The second rounding drops 6 or 7 bits, where y is p times an even power of two: the
\* error is lost, unless it is more than half of what 6 bits hold.
LEMMA ProductRounded ==
  ASSUME NEW d \in {64, 128}, NEW y \in Nat, y % 2 = 0, NEW r \in -49..49
  PROVE  RoundHalfEven(d * y + r, d) =
           IF d = 64 /\ r < -32 THEN y - 1 ELSE IF d = 64 /\ r > 32 THEN y + 1 ELSE y
<1> DEFINE n == d * y + r
<1>1. CASE d = 64 /\ r >= 0
  <2>1. n \div d = y /\ n % d = r
    BY <1>1
  <2> QED BY <1>1, <2>1 DEF RoundHalfEven
<1>2. CASE d = 64 /\ r < 0
  <2>1. n = 64 * (y - 1) + (64 + r)
    BY <1>2
  <2>2. n \div d = y - 1 /\ n % d = 64 + r
    BY <1>2, <2>1
  <2>3. (y - 1) % 2 # 0
    OBVIOUS
  <2> QED BY <1>2, <2>2, <2>3 DEF RoundHalfEven
<1>3. CASE d = 128 /\ r >= 0
  <2>1. n \div d = y /\ n % d = r
    BY <1>3
  <2> QED BY <1>3, <2>1 DEF RoundHalfEven
<1>4. CASE d = 128 /\ r < 0
  <2>1. n = 128 * (y - 1) + (128 + r)
    BY <1>4
  <2>2. n \div d = y - 1 /\ n % d = 128 + r
    BY <1>4, <2>1
  <2> QED BY <1>4, <2>2 DEF RoundHalfEven
<1> QED BY <1>1, <1>2, <1>3, <1>4

\* int() loses a product that is above p, and makes p - 1 of one that is below.
LEMMA Truncated ==
  ASSUME NEW p \in Nat, NEW t \in Nat, p >= 1, t >= 2
  PROVE  /\ (p * t) \div t = p
         /\ (p * t - 1) \div t = p - 1
         /\ (p * t + 1) \div t = p
<1>1. \A k \in Int, m \in 0..t-1 : (k * t + m) \div t = k
  <2> TAKE k \in Int, m \in 0..t-1
  <2>1. k * t + m \in Int /\ k * t + m = t * k + m
    OBVIOUS
  <2> QED BY <2>1
<1>2. /\ p * t \in Nat /\ p * t = p * t + 0 /\ p * t - 1 = (p - 1) * t + (t - 1)
      /\ p - 1 \in Int /\ 0 \in 0..t-1 /\ 1 \in 0..t-1 /\ t - 1 \in 0..t-1
  OBVIOUS
<1> QED BY <1>1, <1>2

\* The closed form computes the error modulo 100, without x.
LEMMA ResidueIsError ==
  ASSUME NEW q, NEW p, Fits(q, p)
  PROVE  Residue(q, p) = Error(p * Pow2[Scale(q, p)])
<1> DEFINE S == Pow2[Scale(q, p)]
           x == p * S
           w == (p % 100) * (S % 100)
<1>1. p \in Nat /\ S \in Nat /\ PowerMod100[Scale(q, p)] = S % 100
  BY ScaledPrice, Pow2Facts, PowerMod100IsMod DEF Fits
<1> HIDE DEF S
<1>2. p % 100 \in Int /\ S % 100 \in Int
  BY <1>1
<1>3. w \in Int /\ x \in Int /\ -(p % 100) * (S % 100) = -w
  <2>1. \A u, v \in Int : u * v \in Int /\ -u * v = -(u * v)
    OBVIOUS
  <2> QED BY <1>1, <1>2, <2>1
<1>4. x % 100 = w % 100
  BY <1>1, ModOfProduct
<1> HIDE DEF w, x
<1>5. (-x) % 100 = (-w) % 100
  BY <1>3, <1>4
<1>6. (-(p % 100) * PowerMod100[Scale(q, p)]) % 100 = (-x) % 100
  BY <1>1, <1>3, <1>5
<1> QED BY <1>6 DEF Residue, Error, x, S

\* The product drops 6 bits if it is below 2^7 times the power P that the significand
\* starts with.  That is every price in the lower part of its binade (gap = 6), a power of
\* two with a negative error, and no other price.
LEMMA Conversion ==
  ASSUME NEW q, NEW p, Fits(q, p)
  PROVE  /\ DirectUnitAmount(q, p) = UnitAmountOf(q, p)
         /\ UnitAmountOf(q, p) \in {p - 1, p}
         /\ p % 25 = 0 => UnitAmountOf(q, p) = p
<1> DEFINE j == FloorLog2(p)
           s == Scale(q, p)
           a == Pow2[j]
           S == Pow2[s]
           P == Pow2[q - 1]
           x == p * S
           r == Error(x)
           exact == 100 * Significand(q, p)
           gap == j - PriceExponent(p)
<1>1. /\ q \in 9..53 /\ q - 1 \in Nat /\ p \in Nat /\ p >= 1
  BY DEF Fits
<1>2. /\ a \in Nat /\ a <= p /\ p < 2 * a
      /\ s \in Nat /\ s >= 8
      /\ \/ gap = 6 /\ 25 * a <= 16 * p /\ a * S = 64 * P
         \/ gap = 7 /\ 16 * p < 25 * a /\ a * S = 128 * P
  BY ScaledPrice
<1>3. P \in Nat /\ P >= 256
  <2>1. Pow2[8] <= P
    BY <1>1, Pow2Grows
  <2> QED BY <1>1, <2>1, Pow2Facts, Pow2Small
<1>4. /\ s - 6 \in Nat /\ s - 7 \in Nat /\ s - 8 \in Nat
      /\ S \in Nat /\ S >= 256 /\ S = 64 * Pow2[s - 6] /\ S = 128 * Pow2[s - 7]
      /\ Pow2[s - 6] = 2 * Pow2[s - 7] /\ Pow2[s - 7] = 2 * Pow2[s - 8]
      /\ Pow2[s - 6] \in Nat /\ Pow2[s - 7] \in Nat /\ Pow2[s - 8] \in Nat /\ Pow2[s - 8] >= 1
  <2> HIDE DEF s
  <2>1. /\ s - 6 \in Nat /\ s - 7 \in Nat /\ s - 8 \in Nat
        /\ (s - 8) + 1 = s - 7 /\ (s - 7) + 1 = s - 6
        /\ 8 + (s - 8) = s
    BY <1>2
  <2>2. Pow2[s] = Pow2[8] * Pow2[s - 8]
    BY <2>1, Pow2Adds
  <2> QED BY <2>1, <2>2, Pow2Facts, Pow2Small
<1>5. x \in Nat /\ x % 4 = 0 /\ (p % 25 = 0 => x % 100 = 0)
  <2> DEFINE v == Pow2[s - 8]
  <2>1. v \in Nat /\ S = 256 * v
    BY <1>4
  <2> HIDE DEF S, v
  <2>2. x = 4 * (64 * (p * v)) /\ p * v \in Nat
    BY <1>1, <2>1
  <2>3. ASSUME p % 25 = 0 PROVE x % 100 = 0
    <3> DEFINE m == p \div 25
    <3>1. m \in Nat /\ p = 25 * m
      BY <1>1, <2>3
    <3> HIDE DEF m
    <3>2. x = 100 * (64 * (m * v)) /\ m * v \in Nat
      BY <2>1, <3>1
    <3> HIDE DEF x
    <3>3. \A k \in Nat : (100 * (64 * k)) % 100 = 0
      OBVIOUS
    <3> QED BY <3>2, <3>3
  <2> HIDE DEF x
  <2>4. \A k \in Nat : 4 * (64 * k) \in Nat /\ (4 * (64 * k)) % 4 = 0
    OBVIOUS
  <2> QED BY <2>2, <2>3, <2>4
<1>6. r \in -49..49 /\ exact = x + r /\ (p % 25 = 0 => r = 0)
  BY <1>5, SignificandError DEF Significand
<1>7. Residue(q, p) = r
  BY ResidueIsError
<1> HIDE DEF exact, r
<1>8. UnitAmountOf(q, p) =
        IF r < -(IF p = a THEN Pow2[gap - 2] ELSE Pow2[gap - 1]) THEN p - 1 ELSE p
  BY <1>7 DEF UnitAmountOf
<1> DEFINE dropped == FloorLog2(exact) - (q - 1)
<1>9. exact \in Nat => /\ (64 * P <= exact /\ exact < 128 * P) => dropped = 6
                       /\ (128 * P <= exact /\ exact < 256 * P) => dropped = 7
  <2>1. /\ Pow2[6 + (q - 1)] = 64 * P /\ Pow2[7 + (q - 1)] = 128 * P
        /\ Pow2[8 + (q - 1)] = 256 * P
    <3>1. \A k \in Nat : Pow2[k + (q - 1)] = Pow2[k] * P
      BY <1>1, Pow2Adds
    <3> HIDE DEF P
    <3> QED BY <3>1, Pow2Small
  <2>2. /\ 6 + (q - 1) = q + 5 /\ 7 + (q - 1) = q + 6 /\ 8 + (q - 1) = q + 7
        /\ (q + 5) + 1 = q + 6 /\ (q + 6) + 1 = q + 7
        /\ q + 5 \in 0..63 /\ q + 6 \in 0..63
        /\ (q + 5) - (q - 1) = 6 /\ (q + 6) - (q - 1) = 7
    BY <1>1
  <2> HIDE DEF P
  <2>3. /\ Pow2[q + 5] = 64 * P /\ Pow2[(q + 5) + 1] = 128 * P
        /\ Pow2[q + 6] = 128 * P /\ Pow2[(q + 6) + 1] = 256 * P
    BY <2>1, <2>2
  <2>4. ASSUME exact \in Nat, 64 * P <= exact, exact < 128 * P PROVE dropped = 6
    <3>1. FloorLog2(exact) = q + 5
      BY <2>2, <2>3, <2>4, FloorLog2Unique
    <3> QED BY <2>2, <3>1
  <2>5. ASSUME exact \in Nat, 128 * P <= exact, exact < 256 * P PROVE dropped = 7
    <3>1. FloorLog2(exact) = q + 6
      BY <2>2, <2>3, <2>5, FloorLog2Unique
    <3> QED BY <2>2, <3>1
  <2> QED BY <2>4, <2>5
<1>10. DirectUnitAmount(q, p) = RoundHalfEven(exact, Pow2[dropped]) \div Pow2[s - dropped]
  BY DEF DirectUnitAmount, exact
<1> HIDE DEF dropped
<1>11. ASSUME dropped = 6 PROVE DirectUnitAmount(q, p) = IF r < -32 THEN p - 1 ELSE p
  <2> DEFINE t == Pow2[s - 6]
             y == p * t
  <2>1. t \in Nat /\ t >= 2 /\ S = 64 * t /\ t = 2 * Pow2[s - 7] /\ Pow2[s - 7] \in Nat
    BY <1>4
  <2>2. DirectUnitAmount(q, p) = RoundHalfEven(exact, 64) \div t
    BY <1>10, <1>11, Pow2Small
  <2> HIDE DEF S, t
  <2>3. y \in Nat /\ x = 64 * y /\ y = 2 * (p * Pow2[s - 7]) /\ p * Pow2[s - 7] \in Nat
    BY <1>1, <2>1
  <2> HIDE DEF x, y
  <2>4. y % 2 = 0
    BY <2>3
  <2>5. RoundHalfEven(64 * y + r, 64) = IF r < -32 THEN y - 1 ELSE IF r > 32 THEN y + 1 ELSE y
    <3>1. RoundHalfEven(64 * y + r, 64) =
            IF 64 = 64 /\ r < -32 THEN y - 1 ELSE IF 64 = 64 /\ r > 32 THEN y + 1 ELSE y
      BY <1>6, <2>3, <2>4, ProductRounded, Zenon
    <3> QED BY <3>1
  <2>6. exact = 64 * y + r
    BY <1>6, <2>3
  <2>7. y \div t = p /\ (y - 1) \div t = p - 1 /\ (y + 1) \div t = p
    BY <1>1, <2>1, Truncated DEF y
  <2> QED BY <2>2, <2>5, <2>6, <2>7
<1>12. ASSUME dropped = 7 PROVE DirectUnitAmount(q, p) = p
  <2> DEFINE t == Pow2[s - 7]
             y == p * t
  <2>1. t \in Nat /\ t >= 2 /\ S = 128 * t /\ t = 2 * Pow2[s - 8] /\ Pow2[s - 8] \in Nat
    BY <1>4
  <2>2. DirectUnitAmount(q, p) = RoundHalfEven(exact, 128) \div t
    BY <1>10, <1>12, Pow2Small
  <2> HIDE DEF S, t
  <2>3. y \in Nat /\ x = 128 * y /\ y = 2 * (p * Pow2[s - 8]) /\ p * Pow2[s - 8] \in Nat
    BY <1>1, <2>1
  <2> HIDE DEF x, y
  <2>4. y % 2 = 0
    BY <2>3
  <2>5. RoundHalfEven(128 * y + r, 128) = y
    <3>1. RoundHalfEven(128 * y + r, 128) =
            IF 128 = 64 /\ r < -32 THEN y - 1 ELSE IF 128 = 64 /\ r > 32 THEN y + 1 ELSE y
      BY <1>6, <2>3, <2>4, ProductRounded, Zenon
    <3> QED BY <3>1
  <2>6. exact = 128 * y + r
    BY <1>6, <2>3
  <2>7. y \div t = p /\ (y - 1) \div t = p - 1 /\ (y + 1) \div t = p
    BY <1>1, <2>1, Truncated DEF y
  <2> QED BY <2>2, <2>5, <2>6, <2>7
<1> HIDE DEF a, S, P
<1>13. /\ a * S \in Nat
       /\ p < 2 * a => x <= 2 * (a * S) - S
       /\ p > a => x >= a * S + S
       /\ 25 * a <= 16 * p => 25 * (a * S) <= 16 * x
       /\ 16 * p < 25 * a => 16 * x <= 25 * (a * S)
       /\ p = a => x = a * S
  <2>1. \A u, v, k \in Nat : u <= v => u * k <= v * k /\ u * k \in Nat
    OBVIOUS
  <2>2. (p + 1) * S = x + S /\ (a + 1) * S = a * S + S /\ (2 * a) * S = 2 * (a * S)
        /\ (25 * a) * S = 25 * (a * S) /\ (16 * p) * S = 16 * x
    BY <1>1, <1>2, <1>4
  <2>3. p + 1 \in Nat /\ a + 1 \in Nat /\ 2 * a \in Nat /\ 25 * a \in Nat /\ 16 * p \in Nat
    BY <1>1, <1>2
  <2>4. p < 2 * a => (p + 1) * S <= (2 * a) * S
    BY <1>1, <1>2, <1>4, <2>1, <2>3
  <2>5. p > a => (a + 1) * S <= x
    BY <1>1, <1>2, <1>4, <2>1, <2>3
  <2>6. 25 * a <= 16 * p => (25 * a) * S <= (16 * p) * S
    BY <1>1, <1>2, <1>4, <2>1, <2>3
  <2>7. 16 * p < 25 * a => (16 * p) * S <= (25 * a) * S
    BY <1>1, <1>2, <1>4, <2>1, <2>3
  <2>8. a * S \in Nat
    BY <1>2, <1>4
  <2>9. p = a => x = a * S
    OBVIOUS
  <2> HIDE DEF x
  <2> QED BY <1>4, <1>5, <2>2, <2>4, <2>5, <2>6, <2>7, <2>8, <2>9
<1> HIDE DEF x, gap
<1> DEFINE aS == a * S
<1>14. CASE gap = 6
  <2>1. 25 * a <= 16 * p /\ aS = 64 * P /\ p # a
    BY <1>1, <1>2, <1>14
  <2> HIDE DEF aS
  <2>2. x <= 128 * P - S /\ 25 * (64 * P) <= 16 * x
    BY <1>2, <1>3, <1>4, <1>5, <1>13, <2>1 DEF aS
  <2>3. exact \in Nat /\ 64 * P <= exact /\ exact < 128 * P
    BY <1>3, <1>4, <1>5, <1>6, <2>2
  <2>4. DirectUnitAmount(q, p) = IF r < -32 THEN p - 1 ELSE p
    BY <1>9, <1>11, <2>3
  <2>5. UnitAmountOf(q, p) = IF r < -32 THEN p - 1 ELSE p
    BY <1>8, <1>14, <2>1, Pow2Small
  <2> QED BY <1>6, <2>4, <2>5
<1>15. CASE gap = 7 /\ p = a
  <2>1. x = 128 * P
    BY <1>2, <1>13, <1>15
  <2>2. exact \in Nat /\ 64 * P <= exact /\ exact < 256 * P
    BY <1>3, <1>6, <2>1
  <2>3. r < 0 => exact < 128 * P
    BY <1>3, <1>6, <2>1
  <2>4. r >= 0 => 128 * P <= exact
    BY <1>3, <1>6, <2>1
  <2>5. DirectUnitAmount(q, p) = IF r < -32 THEN p - 1 ELSE p
    BY <1>6, <1>9, <1>11, <1>12, <2>2, <2>3, <2>4
  <2>6. UnitAmountOf(q, p) = IF r < -32 THEN p - 1 ELSE p
    BY <1>8, <1>15, Pow2Small
  <2> QED BY <1>6, <2>5, <2>6
<1>16. CASE gap = 7 /\ p # a
  <2>1. p > a /\ 16 * p < 25 * a /\ aS = 128 * P
    BY <1>1, <1>2, <1>16
  <2> HIDE DEF aS
  <2>2. x >= 128 * P + S /\ 16 * x <= 25 * (128 * P)
    BY <1>2, <1>3, <1>4, <1>5, <1>13, <2>1 DEF aS
  <2>3. exact \in Nat /\ 128 * P <= exact /\ exact < 256 * P
    BY <1>3, <1>4, <1>5, <1>6, <2>2
  <2>4. DirectUnitAmount(q, p) = p
    BY <1>9, <1>12, <2>3
  <2>5. UnitAmountOf(q, p) = p
    BY <1>6, <1>8, <1>16, Pow2Small
  <2> QED BY <1>6, <2>4, <2>5
<1> QED BY <1>2, <1>14, <1>15, <1>16

-----------------------------------------------------------------------------
(* The theorems *)

\* The largest price of a DECIMAL(10, 2) in cents, which has 34 bits.
LargestPrice == 1000 * 1000 * 1000 * 10 - 1

LEMMA ColumnFits == \A p \in 1..LargestPrice : Fits(53, p)
<1>1. Pow2[4] = 16 /\ Pow2[10] = 1024
  <2>1. Pow2[8 + 1] = 2 * Pow2[8] /\ Pow2[9 + 1] = 2 * Pow2[9]
    BY Pow2Facts
  <2> QED BY <2>1, Pow2Small
<1>2. /\ Pow2[10 + 10] = Pow2[10] * Pow2[10]
      /\ Pow2[20 + 10] = Pow2[20] * Pow2[10]
      /\ Pow2[30 + 4] = Pow2[30] * Pow2[4]
  BY Pow2Adds
<1>3. LargestPrice \in Nat /\ LargestPrice < Pow2[34]
  BY <1>1, <1>2 DEF LargestPrice
<1>4. Pow2[34] <= Pow2[51] /\ Pow2[34] \in Nat /\ Pow2[51] \in Nat
  BY Pow2Grows, Pow2Facts
<1>5. \A p \in 1..LargestPrice : p \in Nat /\ p >= 1 /\ p < Pow2[51]
  BY <1>3, <1>4
<1> QED BY <1>5 DEF Fits

\* In the arithmetic of Python, for every price that the column price_at_order,
\* DECIMAL(10, 2), can hold: the closed form that the checkout model uses is what the
\* code computes, and a customer is charged the price or one cent less, the price itself
\* when it is a multiple of 25 cents (services/payments.py:19, database/models/orders.py:52).
THEOREM DoubleConversion ==
  \A p \in 1..LargestPrice :
    /\ DirectUnitAmount(53, p) = UnitAmount(p)
    /\ UnitAmount(p) \in {p - 1, p}
    /\ p % 25 = 0 => UnitAmount(p) = p
BY ColumnFits, Conversion DEF UnitAmount

\* At every precision that leaves two bits above the price, the closed form is the two
\* roundings and the truncation of services/payments.py:19: which prices lose a cent
\* depends on the precision, that none gains one and none loses two does not.
THEOREM ConversionAtPrecision ==
  \A q \in 9..53, p \in Nat \ {0} : p < Pow2[q - 2] =>
    /\ DirectUnitAmount(q, p) = UnitAmountOf(q, p)
    /\ DirectUnitAmount(q, p) \in {p - 1, p}
    /\ p % 25 = 0 => DirectUnitAmount(q, p) = p
<1> SUFFICES ASSUME NEW q \in 9..53, NEW p \in Nat \ {0}, p < Pow2[q - 2]
             PROVE  /\ DirectUnitAmount(q, p) = UnitAmountOf(q, p)
                    /\ DirectUnitAmount(q, p) \in {p - 1, p}
                    /\ p % 25 = 0 => DirectUnitAmount(q, p) = p
  OBVIOUS
<1>1. Fits(q, p)
  BY DEF Fits
<1> QED BY <1>1, Conversion
=============================================================================
