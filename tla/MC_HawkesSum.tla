---------------------------- MODULE MC_HawkesSum ----------------------------
(* The engine's baseline 0.01 and alpha 0.5: an event of age 0 is fifty      *)
(* baselines; ages decay by exp(-0.1 age), in percent.                       *)
EXTENDS Features

MCDecay(age) == CASE age = 0 -> 100 [] age = 1 -> 90 [] age = 2 -> 82 [] age = 3 -> 74
                  [] age = 4 -> 67 [] age = 5 -> 61 [] age > 5 -> 50
=============================================================================
