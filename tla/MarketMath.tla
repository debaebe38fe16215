----------------------------- MODULE MarketMath -----------------------------
(***************************************************************************)
(* The streaming estimators over one price stream: the feature stream and  *)
(* encoder of the brain (Features, on Hawkes), and the rolling windows of  *)
(* math/ (RollingWindow), which nothing in the brain feeds yet and which   *)
(* here get the primary price of every pulse.                              *)
(***************************************************************************)
EXTENDS Features

CONSTANTS WindowSizes, Lookbacks, MinWindows

VARIABLES windowSize, lookback, minWindow, windowCount, windowPos, windowPrices,
          returns, series

Windows == INSTANCE RollingWindow WITH count <- windowCount, pos <- windowPos,
                                       prices <- windowPrices

ASSUME WindowsAssumption == Windows!WindowConstants

windowVars == <<windowSize, lookback, minWindow, windowCount, windowPos, windowPrices,
                returns, series>>
mathVars == <<vars, windowVars>>

MathInit == Init /\ Windows!Init

MathNext == \/ Pulse /\ Windows!Update
            \/ PulseAgain /\ UNCHANGED windowVars

MathSpec == MathInit /\ [][MathNext]_mathVars

-----------------------------------------------------------------------------
\* The windows of the rolling estimators hold the latest prices and nothing else
\* (RollingWindow).
WindowIsRecent == Windows!WindowIsRecent
=============================================================================
