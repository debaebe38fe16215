--------------------------- MODULE MC_MarketMath ---------------------------
(* Ages decay by exp(-0.1 age), in percent; alpha is such that the gain goes *)
(* through several values between its clamps (the engine's own alpha, fifty  *)
(* baselines, takes it from one clamp to the other).                         *)
EXTENDS MarketMath

MCDecay(age) == CASE age = 0 -> 100 [] age = 1 -> 90 [] age = 2 -> 82 [] age = 3 -> 74
                  [] age = 4 -> 67 [] age = 5 -> 61 [] age > 5 -> 50
=============================================================================
