--------------------------- MODULE RollingWindow ---------------------------
(***************************************************************************)
(* The rolling price windows: RollingGBM of math/market_sde.jl and         *)
(* RollingHurst of math/market_fractal.jl, two rings of the same kind that *)
(* hand their contents to a batch estimator.                               *)
(*                                                                         *)
(* A price is named by the tick it arrived at, 0 where none was written;   *)
(* an estimator's result is what it read: the log returns of gbm_surprise  *)
(* as <<earlier, later>> pairs of ticks, the series of hurst_rs as it is.  *)
(***************************************************************************)
EXTENDS Integers, Sequences, FiniteSets

CONSTANTS WindowSizes, \* window_size, of either ring
          Lookbacks,   \* GBMParams.lookback
          MinWindows,  \* RollingHurst.min_window
          MaxTicks     \* bound on the ticks

WindowConstants == /\ WindowSizes \subseteq Nat \ {0}
                   /\ Lookbacks \subseteq Nat \ {0}
                   /\ MinWindows \subseteq Nat \ {0}
                   /\ MaxTicks \in Nat

VARIABLES windowSize, lookback, minWindow, \* the parameters, never changed
          count,   \* count
          pos,     \* pos
          prices,  \* prices
          returns, \* the returns the last surprise was computed from
          series   \* the series the last Hurst exponent was computed from

vars == <<windowSize, lookback, minWindow, count, pos, prices, returns, series>>

Init == /\ windowSize \in WindowSizes
        /\ lookback \in Lookbacks
        /\ minWindow \in MinWindows
        /\ count = 0
        /\ pos = 1
        /\ prices = [i \in 1..windowSize |-> 0]
        /\ returns = <<>>
        /\ series = <<>>

-----------------------------------------------------------------------------
\* Mutated Push: the ring wraps a slot early.
PushShort == /\ prices' = [prices EXCEPT ![pos] = count + 1]
             /\ count' = count + 1
             /\ pos' = IF pos >= windowSize - 1 THEN 1 ELSE pos + 1

Push == /\ prices' = [prices EXCEPT ![pos] = count + 1]
        /\ count' = count + 1
        /\ pos' = IF pos >= windowSize THEN 1 ELSE pos + 1

\* The valid part of the ring, in the ring's order.
Window(ring, n) == IF n >= windowSize THEN ring ELSE SubSeq(ring, 1, n)

\* gbm_surprise: the last min(lookback, n - 1) returns, the last of which is
\* standardised by the mean and deviation of all; none before 3 prices.
Returns(w) ==
  LET n == Len(w)
      l == IF lookback < n - 1 THEN lookback ELSE n - 1
  IN IF n < 3 THEN <<>> ELSE [k \in 1..l |-> <<w[n - l + k - 1], w[n - l + k]>>]

\* RollingHurst.update! returns 0.5 before 2 * min_window prices.
HurstSeries(ring, n) == IF n < 2 * minWindow THEN <<>> ELSE Window(ring, n)

\* update! of either estimator with one price.
Update == /\ count < MaxTicks
          /\ Push
          /\ returns' = Returns(Window(prices', count'))
          /\ series' = HurstSeries(prices', count')
          /\ UNCHANGED <<windowSize, lookback, minWindow>>

Spec == Init /\ [][Update]_vars

-----------------------------------------------------------------------------
Recent == {t \in 1..count : t > count - windowSize}
Read(s) == {s[k] : k \in DOMAIN s}

\* What a window holds are the most recent prices, each once, and never an
\* unwritten slot, whose logarithm would poison every later estimate: the Hurst
\* series is all of it, the returns are of some of it.  At most one return is not
\* between successive prices: the seam where the ring was last written joins its
\* newest price to its oldest.  The returns are from the end of the ring and not
\* from its write position: the last of them, which is the one standardised, is of
\* the newest price only while that is in the last slot, as it is until the ring
\* wraps, and none is once its slot is further back than the lookback ("The most
\* recent observed return", market_sde.jl:83, holds no longer than that).
WindowIsRecent ==
  LET seams == {k \in DOMAIN returns : returns[k][2] # returns[k][1] + 1}
      newest == ((count - 1) % windowSize) + 1
      last == Len(Window(prices, count))
  IN /\ Read(Window(prices, count)) = Recent
     /\ last = Cardinality(Recent)
     /\ series # <<>> => Read(series) = Recent
     /\ UNION {{r[1], r[2]} : r \in Read(returns)} \subseteq Recent
     /\ Cardinality(seams) <= 1
     /\ \A k \in seams : /\ returns[k] = <<count, count - windowSize + 1>>
                        /\ count >= windowSize
     /\ returns # <<>> =>
          /\ returns[Len(returns)] = <<count - 1, count>> <=> newest = last
          /\ (\E r \in Read(returns) : count \in {r[1], r[2]}) <=> newest >= last - Len(returns)
=============================================================================
