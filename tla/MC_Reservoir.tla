---------------------------- MODULE MC_Reservoir ----------------------------
(* Three inhibitions: none, one unit, saturated; levels between the reset    *)
(* potential and thresholds, and one above every threshold.  The fields are  *)
(* at, below and beyond each gate and clamp of the stress map; liquidity     *)
(* leaves, stays or comes, and the Hawkes excess is none or an event.        *)
EXTENDS Reservoir

MCThresh == -2000
MCReset == -2800
MCRest == -2600
MCReflexes == {-5, 0, 5}
MCLevels == {-2600, -1500, 0}
Calm == [temp |-> 45, load |-> 10, funding |-> 0, liquidation |-> 0,
         dydxFunding |-> 0, oiDelta |-> 0]
StepStresses == {Calm, [Calm EXCEPT !.temp = 100], [Calm EXCEPT !.temp = 120, !.load = 100, !.oiDelta = 100]}
MapStresses == [temp : {45, 76, 100}, load : {80, 81, 100}, funding : {-60, 0, 50, 160},
                liquidation : {10, 11, 60}, dydxFunding : {-31, 0, 30, 120},
                oiDelta : {-150, 0, 40, 150}]
=============================================================================
