---------------------------- MODULE MC_Formulas ----------------------------
(* Two assets, one other signal; two pairs, two lobes.  Weights at and just  *)
(* beyond the ends of [0, 1] and of the accepted sums; readouts whose        *)
(* difference, or only whose squared norm, overflows; probabilities around   *)
(* the break-even points, out of range and NaN; prices below, at and above   *)
(* zero, absent and NaN.  For NERO the four lobes with their inhibition       *)
(* matrix, and as activities: silent, a rate of 60%, a surprise that trebles *)
(* it, and the surprise of a first output.                                   *)
EXTENDS FormulaChecks

MCPulseFloats == {NonFinite, -1, 0, 50, 100, 130}
MCReadoutFloats == {NonFinite, -30, -1, 0, 1, 4, 30}
MCWeights == {NonFinite, -5, 0, 5, 45, 50, 95, 100, 101}
MCTanh(s) == IF s = 0 THEN 0 ELSE IF s < 9 THEN 60 ELSE 100
MCProbabilities == {NonFinite, -10, 0, 1, 50, 69, 70, 85, 94, 95, 96, 98, 99, 100, 150}
MCPayoffs == {NonFinite, -100, 0, 1, 5, 100, 200}
MCMarketPrices == {Missing, NonFinite, -3, 0, 1, 2, 400}

MCActivities == {0, 30, 120, 665}
MCInhibit == << <<0, 8, 5, 2>>, <<4, 0, 6, 3>>, <<2, 3, 0, 5>>, <<1, 2, 3, 0>> >>
MCExp(d) == IF d = 0 THEN 100 ELSE IF d <= 3000 THEN 90 ELSE IF d <= 12000 THEN 45
            ELSE IF d <= 30000 THEN 10 ELSE IF d <= 45000 THEN 2 ELSE 0
=============================================================================
