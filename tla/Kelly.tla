------------------------------- MODULE Kelly -------------------------------
(***************************************************************************)
(* Position sizing: execution/src/kelly.rs, and the offline CLI            *)
(* execution/market_kelly.jl that says it computes the same.               *)
(*                                                                         *)
(* Probabilities and the payoff ratio are integers in units of 1/One, and  *)
(* a fraction is its exact numerator over a denominator named beside it,   *)
(* so nothing is rounded.  A value that is not finite is NonFinite.        *)
(***************************************************************************)
EXTENDS Integers

CONSTANTS One,        \* 1.0
          NonFinite,  \* NaN or an infinity
          ScalarNum,  \* kelly_fraction_scalar = ScalarNum / ScalarDen
          ScalarDen

ASSUME KellyAssumption == /\ One \in Nat \ {0}
                          /\ NonFinite \notin Int
                          /\ ScalarNum \in Nat
                          /\ ScalarDen \in Nat \ {0}

Clamp(x, lo, hi) == IF x < lo THEN lo ELSE IF x > hi THEN hi ELSE x

\* The inputs calculate_fraction does not fail closed on.
Valid(p, b) == /\ p # NonFinite /\ p \in 0..One
               /\ b # NonFinite /\ b > 0

\* (p*b - q) / b before the clamp: numerator over FullDen(b).
FullDen(b) == One * b
\* Mutated FullKelly: p - q, the odds forgotten.
FullKellyEvenOdds(p, b) == p * b - b * (One - p)

FullKelly(p, b) == p * b - One * (One - p)

\* calculate_fraction, over FullDen(b).
CalculateFraction(p, b) ==
  IF Valid(p, b) THEN Clamp(FullKelly(p, b), 0, FullDen(b)) ELSE 0

\* fractional_kelly, over FracDen(b).
FracDen(b) == FullDen(b) * ScalarDen

FractionalKelly(p, b) ==
  LET f == CalculateFraction(p, b) * ScalarNum
  IN IF b # NonFinite /\ f > FracDen(b) THEN FracDen(b) ELSE f

\* size_position: units = fraction * balance / price.  The units exceed a
\* limit, or are positive, without dividing: a price that is not positive is
\* floored at 1e-12, where one unit of balance buys more than any limit.
PositiveSize(p, b, balance) == FractionalKelly(p, b) * balance > 0

\* Mutated SizeExceeds: a price that is not positive sizes to nothing.
SizeExceedsIfPriced(p, b, balance, price, limit) ==
  /\ price > 0
  /\ FractionalKelly(p, b) * balance > limit * price * FracDen(b)

SizeExceeds(p, b, balance, price, limit) ==
  /\ PositiveSize(p, b, balance)
  /\ price > 0 => FractionalKelly(p, b) * balance > limit * price * FracDen(b)

\* risk_tier: a label of the confidence alone.
RiskTier(confidence) ==
  CASE confidence = NonFinite -> "minimal"
    [] 100 * confidence >= 95 * One -> "aggressive"
    [] 100 * confidence \in (85 * One)..(95 * One - 1) -> "moderate"
    [] 100 * confidence \in (70 * One)..(85 * One - 1) -> "conservative"
    [] OTHER -> "minimal"

-----------------------------------------------------------------------------
\* market_kelly.jl: kelly_fraction, full Kelly over FullDen(b); the CLI's own
\* floor on b is below one unit here.
CliFullKelly(winRate, b) ==
  LET p == Clamp(winRate, One \div 100, (99 * One) \div 100)
      f == p * b - One * (One - p)
  IN IF f < 0 THEN 0 ELSE f

\* main, with SHIP_CLAMP_PILOT: the fraction printed, over FracDen(b).
CliPrinted(winRate, b, pilot) ==
  IF winRate < One \div 100 \/ b <= 0
    THEN FracDen(b) \div 20
    ELSE LET f == Clamp(CliFullKelly(winRate, b) * ScalarNum, 0, FracDen(b))
         IN IF pilot THEN Clamp(f, FracDen(b) \div 50, FracDen(b) \div 5) ELSE f
=============================================================================
