-------------------------------- MODULE Money --------------------------------
(***************************************************************************)
(* The conversion of a price into the integer number of cents that is sent *)
(* to Stripe (services/payments.py, StripeService.create_checkout_session):*)
(*                                                                         *)
(*     int(float(item.price_at_order) * 100)                               *)
(*                                                                         *)
(* A price is a DECIMAL(10, 2), here the integer p of its cents.  float()  *)
(* rounds p/100 to a binary significand, the product with 100 is rounded   *)
(* again, and int() drops the fraction, so the result can fall one cent    *)
(* short.  DirectUnitAmount follows those three steps with a significand   *)
(* of prec bits; UnitAmountOf is the closed form of the same value, whose  *)
(* numbers stay small enough for prec = 53, the IEEE double of Python.     *)
(***************************************************************************)
EXTENDS Integers

\* 2^k.  A function of its own, because proofs can unfold it and not the built-in power.
Pow2[k \in Nat] == IF k = 0 THEN 1 ELSE 2 * Pow2[k - 1]

\* No number of the conversion at 53 bits has more than 64 bits.
FloorLog2(n) == CHOOSE e \in 0..63 : Pow2[e] <= n /\ n < Pow2[e + 1]

\* IEEE round to nearest, ties to even, of the quotient n/d.
RoundHalfEven(n, d) ==
  LET q == n \div d
      r == n % d
  IN  IF 2 * r < d \/ (2 * r = d /\ q % 2 = 0) THEN q ELSE q + 1

\* The binary exponent of p/100: the largest i with 2^i <= p/100.
PriceExponent(p) ==
  LET j == FloorLog2(p)
  IN  IF 25 * Pow2[j] <= 16 * p THEN j - 6 ELSE j - 7

\* float(price): the significand of p/100, which is worth significand / 2^scale.
Scale(prec, p) == (prec - 1) - PriceExponent(p)
Significand(prec, p) == RoundHalfEven(p * Pow2[Scale(prec, p)], 100)

\* int(float(price) * 100), step by step.
DirectUnitAmount(prec, p) ==
  LET exact   == 100 * Significand(prec, p)
      dropped == FloorLog2(exact) - (prec - 1)
      product == RoundHalfEven(exact, Pow2[dropped])
  IN  product \div Pow2[Scale(prec, p) - dropped]

\* 2^k modulo 100.
PowerMod100[k \in Nat] == IF k = 0 THEN 1 ELSE (2 * PowerMod100[k - 1]) % 100

(***************************************************************************)
(* 100 times the significand is p * 2^scale plus Residue(prec, p), the     *)
(* error of float() in the last place.  The product falls below p exactly  *)
(* when that error is more than half of the spacing of the numbers just    *)
(* below p, which is halved when p is a power of two.                      *)
(***************************************************************************)
Residue(prec, p) ==
  LET r == (-(p % 100) * PowerMod100[Scale(prec, p)]) % 100
  IN  IF r > 50 THEN r - 100 ELSE r

UnitAmountOf(prec, p) ==
  LET j == FloorLog2(p)
      halfSpacing == IF p = Pow2[j] THEN Pow2[j - PriceExponent(p) - 2]
                                ELSE Pow2[j - PriceExponent(p) - 1]
  IN  IF Residue(prec, p) < -halfSpacing THEN p - 1 ELSE p

\* Mutant of UnitAmount: int() comes before the multiplication.
UnitAmountWholeDollars(p) == 100 * (p \div 100)

\* What Stripe is told to charge for a movie ordered at p cents.
UnitAmount(p) == UnitAmountOf(53, p)
=============================================================================
