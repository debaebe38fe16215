------------------------------ MODULE Features ------------------------------
(***************************************************************************)
(* From a pulse to the reservoir's input: update_features! and             *)
(* apply_encoder_gain! of brain/feature_stream.jl, then encode! of         *)
(* brain/market_encoder.jl.  Asset 1 is the primary asset, whose Hawkes    *)
(* intensity sets how large a move every price channel needs.              *)
(*                                                                         *)
(* Prices are integers.  The encoder's threshold is BaseDelta / lambda_n,  *)
(* kept as the gain lambda_n in percent.                                   *)
(***************************************************************************)
EXTENDS Hawkes, FiniteSets

CONSTANTS Assets,      \* n_assets
          AssetPrices, \* prices of the other assets
          BaseDelta,   \* base_delta
          Alpha,       \* excitation_alpha, in 1/100 of the baseline
          Decay(_)     \* exp(-beta * age), in percent

ASSUME FeaturesAssumption == /\ Assets \in Nat \ {0}
                             /\ AssetPrices \subseteq Nat \ {0}
                             /\ BaseDelta \in Nat \ {0}
                             /\ Alpha \in Nat

VARIABLES useReflex,\* LIMEN_USE_REFLEX=1, with FastReflex loaded
          pc,       \* "pulse", or "again" before FastReflex's update
          current,  \* the pulse's prices
          gain,     \* lambda_n of the last snapshot: BaseDelta / encoder_delta
          reflex,   \* reflex_signal
          anchor,   \* prev_prices
          spikes,   \* spike_buffer: the channels that are 1, as <<asset, channel>>
          log       \* of each pulse: prices, gain and the assets whose price spiked

vars == <<hawkes, useReflex, pc, current, gain, reflex, anchor, spikes, log>>

Asset == 1..Assets
Clamp(x, lo, hi) == IF x < lo THEN lo ELSE IF x > hi THEN hi ELSE x

Init == /\ HawkesInit
        /\ useReflex \in BOOLEAN
        /\ pc = "pulse"
        /\ current = [i \in Asset |-> 0]
        /\ gain = 100
        /\ reflex = 0
        /\ anchor = [i \in Asset |-> 0]
        /\ spikes = {}
        /\ log = <<>>

-----------------------------------------------------------------------------
\* lambda = mu + alpha * sum of exp(-beta * age), over the baseline mu, in percent;
\* the sum counts every percent of every term.
Lambda(summed) ==
  LET terms == {t \in (DOMAIN summed) \X (1..100) : t[2] <= Decay(summed[t[1]])}
  IN 100 + Alpha * Cardinality(terms)

\* The snapshot's lambda_n and reflex signal.
Gain(lambda) == Clamp(lambda, 25, 800)
ReflexSignal(lambda) == Clamp(lambda - 100, 0, 200)

UpdateFeatures(price, timestamp) ==
  /\ Update(price, timestamp)
  /\ gain' = Gain(Lambda(ages'))
  /\ reflex' = ReflexSignal(Lambda(ages'))

\* prev_prices on the first tick are the current prices.
Anchored(now_) == IF \A i \in Asset : anchor[i] = 0 THEN now_ ELSE anchor

\* A move of at least encoder_delta.
Moved(diff, g) == diff * g >= BaseDelta * 100

\* Mutated Encode: every price becomes the anchor.
EncodeFromLast(pulse, g) ==
  LET from == Anchored(pulse)
      up == {i \in Asset : Moved(pulse[i] - from[i], g)}
      down == {i \in Asset : Moved(from[i] - pulse[i], g)} \ up
  IN /\ spikes' = (up \X {"Price_UP"}) \cup (down \X {"Price_DOWN"})
     /\ anchor' = pulse

\* encode!: a price channel spikes and moves its anchor; on a random draw below
\* the volatility one of the volatility channels spikes, by the sign of the move.
Encode(pulse, g) ==
  LET from == Anchored(pulse)
      up == {i \in Asset : Moved(pulse[i] - from[i], g)}
      down == {i \in Asset : Moved(from[i] - pulse[i], g)} \ up
      rising == {i \in Asset : pulse[i] > from[i]}
  IN /\ \E drawn \in SUBSET Asset :
          spikes' = (up \X {"Price_UP"}) \cup (down \X {"Price_DOWN"})
                    \cup ((drawn \cap rising) \X {"Vol_UP"})
                    \cup ((drawn \ rising) \X {"Vol_DOWN"})
     /\ anchor' = [i \in Asset |-> IF i \in up \cup down THEN pulse[i] ELSE from[i]]

\* The assets whose price channels spike.
PriceSpikes == {i \in Asset : {<<i, "Price_UP">>, <<i, "Price_DOWN">>} \cap spikes # {}}

\* A pulse: features, gain, then the spike vector.
Pulse == /\ pc = "pulse"
         /\ Len(log) < MaxTicks
         /\ \E p \in Prices, others \in [2..Assets -> AssetPrices] :
              current' = [i \in Asset |-> IF i = 1 THEN p ELSE others[i]]
         /\ UpdateFeatures(current'[1], Len(log) + 1)
         /\ Encode(current', gain')
         /\ log' = Append(log, [prices |-> current', gain |-> gain', moved |-> PriceSpikes'])
         /\ pc' = IF useReflex THEN "again" ELSE "pulse"
         /\ UNCHANGED useReflex

\* experiment_runner.jl: with FastReflex the features are updated a second time
\* with the same price and tick, now that there are spikes to preprocess.
PulseAgain == /\ pc = "again"
              /\ UpdateFeatures(current[1], Len(log))
              /\ pc' = "pulse"
              /\ UNCHANGED <<useReflex, current, anchor, spikes, log>>

Next == Pulse \/ PulseAgain

Spec == Init /\ [][Next]_vars

-----------------------------------------------------------------------------
PriceSpike(k, i) == i \in log[k].moved

\* No drift is lost: while no price spike of an asset comes after pulse j, its price
\* stays within the present threshold of where it was at j, if it spiked there (or
\* at the first pulse), and otherwise within the thresholds of then and now
\* together: in however many small steps, and however the threshold moved.
NoDriftLost ==
  \A j, k \in DOMAIN log, i \in Asset :
    j < k /\ (\A m \in (j + 1)..k : ~PriceSpike(m, i)) =>
      LET drift == Abs(log[k].prices[i] - log[j].prices[i])
      IN IF j = 1 \/ PriceSpike(j, i)
           THEN drift * log[k].gain < 100 * BaseDelta
           ELSE drift * log[j].gain * log[k].gain < 100 * BaseDelta * (log[j].gain + log[k].gain)
=============================================================================
