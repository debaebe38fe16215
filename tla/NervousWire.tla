---------------------------- MODULE NervousWire ----------------------------
(***************************************************************************)
(* The binary wire, NervousWire v1: the MarketPulse that Rust packs and    *)
(* both languages decode, the ReadoutPacket that Julia packs and Rust      *)
(* decodes, and the trade Rust maps a readout to (binary_wire.rs, wire.rs, *)
(* market_types.jl).                                                       *)
(*                                                                         *)
(* A frame is the sequence of its f32 fields.  A float is an integer or    *)
(* NonFinite; a result beyond MaxFinite overflows to NonFinite.  Weights   *)
(* and volumes are in units of 1/One, a confidence in units of 1/One^2.    *)
(***************************************************************************)
EXTENDS Integers, Sequences, Functions

CONSTANTS Assets,    \* assets in a pulse
          Others,    \* the pulse's other signals
          Pairs,     \* (bull, bear) pairs of a readout
          Lobes,     \* relevance weights of a readout
          One,       \* 1.0, as a weight
          NonFinite, \* NaN or an infinity
          MaxFinite, \* f32::MAX
          SideEps,   \* SIDE_EPS
          Tanh(_)    \* tanh of a norm, given the norm's square

ASSUME WireAssumption == /\ Assets \in Nat \ {0}
                         /\ Others \in Nat
                         /\ Pairs \in Nat \ {0}
                         /\ Lobes \in Nat \ {0}
                         /\ One \in Nat \ {0}
                         /\ NonFinite \notin Int
                         /\ MaxFinite \in Nat
                         /\ SideEps \in Nat
                         /\ \A s \in 0..MaxFinite : Tanh(s) \in 0..One

Finite(x) == x # NonFinite
Abs(x) == IF x < 0 THEN -x ELSE x
Clamp(x, lo, hi) == IF x < lo THEN lo ELSE IF x > hi THEN hi ELSE x
Rounded(x) == IF Abs(x) > MaxFinite THEN NonFinite ELSE x
Total(f) == FoldFunction(LAMBDA x, y : x + y, 0, f)

Refused == [ok |-> FALSE]
Accepted(value) == [ok |-> TRUE, value |-> value]

-----------------------------------------------------------------------------
\* MarketPulse::pack: price and volume of each asset in turn, then the rest.
PackPulse(pulse) ==
  [k \in 1..(2 * Assets + Others) |->
     IF k > 2 * Assets THEN pulse.others[k - 2 * Assets]
     ELSE IF k % 2 = 1 THEN pulse.prices[(k + 1) \div 2] ELSE pulse.vols[k \div 2]]

\* validate_and_clamp.
ValidatePulse(pulse) ==
  IF /\ \A i \in 1..Assets : Finite(pulse.prices[i]) /\ Finite(pulse.vols[i])
     /\ \A k \in 1..Others : Finite(pulse.others[k])
     /\ \A i \in 1..Assets : pulse.prices[i] > 0
    THEN Accepted([pulse EXCEPT !.vols = [i \in 1..Assets |-> Clamp(@[i], 0, One)]])
    ELSE Refused

\* MarketPulse::decode of Rust.
RustDecodePulse(frame) ==
  ValidatePulse([prices |-> [i \in 1..Assets |-> frame[2 * i - 1]],
                 vols |-> [i \in 1..Assets |-> frame[2 * i]],
                 others |-> [k \in 1..Others |-> frame[2 * Assets + k]]])

\* Mutated JuliaValidateFields: the last asset's price is not looked at.
JuliaValidateFieldsShort(f) ==
  LET prices == {k \in 1..(2 * Assets - 3) : k % 2 = 1}
      vols == {k \in 2..(2 * Assets) : k % 2 = 0}
  IN IF (\A k \in DOMAIN f : Finite(f[k])) /\ (\A k \in prices : f[k] > 0)
       THEN Accepted([k \in DOMAIN f |-> IF k \in vols THEN Clamp(f[k], 0, One) ELSE f[k]])
       ELSE Refused

\* validate_market_pulse_fields! of Julia works on the flat fields: prices at
\* 1:2:2*Assets-1, volumes at 2:2:2*Assets.
JuliaValidateFields(f) ==
  LET prices == {k \in 1..(2 * Assets - 1) : k % 2 = 1}
      vols == {k \in 2..(2 * Assets) : k % 2 = 0}
  IN IF (\A k \in DOMAIN f : Finite(f[k])) /\ (\A k \in prices : f[k] > 0)
       THEN Accepted([k \in DOMAIN f |-> IF k \in vols THEN Clamp(f[k], 0, One) ELSE f[k]])
       ELSE Refused

\* decode_market_pulse of Julia: the struct's fields are in wire order.
JuliaDecodePulse(frame) == JuliaValidateFields(frame)

-----------------------------------------------------------------------------
\* The range a trailer must be in: weights in [0, 1] that sum to about 1.
WeightSimplex(relevance) ==
  /\ \A i \in 1..Lobes : Finite(relevance[i]) /\ relevance[i] \in 0..One
  /\ 100 * Total(relevance) \in (95 * One)..(105 * One)

\* pack_readout of Julia checks the lengths alone, and so does its decoder;
\* ReadoutPacket::decode of Rust also checks the values.
RustDecodeReadout(packet) ==
  IF (\A k \in 1..(2 * Pairs) : Finite(packet.readout[k])) /\ WeightSimplex(packet.relevance)
    THEN Accepted(packet) ELSE Refused

Score(packet, i) ==
  LET bull == packet.readout[2 * i - 1]
      bear == packet.readout[2 * i]
  IN IF Finite(bull) /\ Finite(bear) THEN Rounded(bull - bear) ELSE NonFinite

SquaredNorm(packet) ==
  Rounded(Total([i \in 1..Pairs |-> Score(packet, i) * Score(packet, i)]))

\* Mutated Primary: by the signed score.
PrimarySigned(packet) ==
  CHOOSE i \in 1..Pairs :
    \A j \in 1..Pairs : /\ Score(packet, j) <= Score(packet, i)
                        /\ j < i => Score(packet, j) < Score(packet, i)

\* The first pair whose score is larger than every one before it and no
\* smaller than any after it.
Primary(packet) ==
  CHOOSE i \in 1..Pairs :
    \A j \in 1..Pairs : /\ Abs(Score(packet, j)) <= Abs(Score(packet, i))
                        /\ j < i => Abs(Score(packet, j)) < Abs(Score(packet, i))

\* metrics.jl's direction_score: the sum of bull - bear over all pairs.
DirectionScore(output) ==
  Total([i \in 1..Pairs |-> output[2 * i - 1] - output[2 * i]])

NeutralTrade(i) == [pair |-> i, side |-> "neutral", confidence |-> 0]

MaxRelevance(packet) ==
  LET r == packet.relevance
  IN CHOOSE m \in {r[i] : i \in 1..Lobes} : \A i \in 1..Lobes : r[i] <= m

Side(score) == IF score > SideEps THEN "buy" ELSE IF score < -SideEps THEN "sell" ELSE "neutral"

\* Mutated ReadoutToTrade: the weights' range is checked, their sum is not.
TradeOnAnySum(packet) ==
  LET primary == Primary(packet)
  IN IF \/ \E i \in 1..Pairs : ~Finite(Score(packet, i))
        \/ ~Finite(SquaredNorm(packet))
        \/ \E i \in 1..Lobes : ~Finite(packet.relevance[i]) \/ packet.relevance[i] \notin 0..One
       THEN NeutralTrade(1)
       ELSE [pair |-> primary,
             side |-> Side(Score(packet, primary)),
             confidence |-> Clamp(MaxRelevance(packet) * Tanh(SquaredNorm(packet)), 0, One * One)]

\* readout_to_trade, as readout_to_trade_signal passes it on.
ReadoutToTrade(packet) ==
  LET overflown == {i \in 1..Pairs : ~Finite(Score(packet, i))}
      primary == Primary(packet)
      norm == SquaredNorm(packet)
  IN IF overflown # {}
       THEN NeutralTrade(CHOOSE i \in overflown : \A j \in overflown : i <= j)
     ELSE IF ~Finite(norm) \/ ~WeightSimplex(packet.relevance)
       THEN NeutralTrade(primary)
     ELSE [pair |-> primary,
           side |-> Side(Score(packet, primary)),
           confidence |-> Clamp(MaxRelevance(packet) * Tanh(norm), 0, One * One)]
=============================================================================
