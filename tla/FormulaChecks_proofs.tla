------------------------- MODULE FormulaChecks_proofs -------------------------
(***************************************************************************)
(* Proofs about the numeric stages from a frame to a stake, for any number *)
(* of assets, pairs and lobes and any values of the fields.                *)
(***************************************************************************)
EXTENDS FormulaChecks, Lemmas

Floats == Int \cup {NonFinite}
FrameSize == 2 * Assets + Others
Packets == [readout : [1..(2 * Pairs) -> Floats], relevance : [1..Lobes -> Floats]]

InputTypes == /\ frame \in [1..FrameSize -> Floats]
              /\ packet \in Packets
              /\ p \in Floats /\ b \in Floats
              /\ market \in [oracle : Floats \cup {Missing}, index : Floats \cup {Missing}]
              /\ depth \in Nat

(* The inputs are of their types and stay as they are.                     *)
LEMMA InputsTyped == Spec => []InputTypes
<1>1. Init => InputTypes
  <2> SUFFICES ASSUME Init PROVE InputTypes
    OBVIOUS
  <2> USE DEF Floats
  <2>1. /\ PulseFloats \subseteq Floats /\ ReadoutFloats \subseteq Floats /\ Weights \subseteq Floats
        /\ Probabilities \subseteq Floats /\ Payoffs \subseteq Floats
        /\ MarketPrices \subseteq Floats \cup {Missing} /\ Depths \subseteq Nat
    BY FormulaAssumption
  <2>2. /\ frame \in [1..(2 * Assets + Others) -> PulseFloats] \/ NoFrame
        /\ NoPacket \/ packet \in [readout : [1..(2 * Pairs) -> ReadoutFloats],
                                   relevance : [1..Lobes -> Weights]]
        /\ NoStake \/ (p \in Probabilities /\ b \in Payoffs)
        /\ NoAnswer \/ (market \in [oracle : MarketPrices, index : MarketPrices] /\ depth \in Depths)
    BY DEF Init
  <2>3. 0 \in Floats /\ Missing \in Floats \cup {Missing}
    OBVIOUS
  <2> HIDE DEF Floats
  <2>4. frame \in [1..FrameSize -> Floats]
    BY <2>1, <2>2, <2>3 DEF NoFrame, ZeroFrame, FrameSize
  <2>5. packet \in Packets
    BY <2>1, <2>2, <2>3 DEF NoPacket, ZeroPacket, Packets
  <2>6. p \in Floats /\ b \in Floats
    BY <2>1, <2>2, <2>3 DEF NoStake
  <2>7. depth \in Nat
    <3>1. CASE depth = 0
      BY <3>1
    <3>2. CASE depth \in Depths
      BY <2>1, <3>2
    <3> QED
      BY <2>2, <3>1, <3>2 DEF NoAnswer
  <2>8. NoMarket \in [oracle : Floats \cup {Missing}, index : Floats \cup {Missing}]
    BY <2>3 DEF NoMarket
  <2>9. market \in [oracle : Floats \cup {Missing}, index : Floats \cup {Missing}]
    BY <2>1, <2>2, <2>8 DEF NoAnswer
  <2> QED
    BY <2>4, <2>5, <2>6, <2>7, <2>9 DEF InputTypes
<1>2. InputTypes /\ [Next]_vars => InputTypes'
  BY DEF InputTypes, Next, vars, inputs, Conductor!vars
<1> QED
  BY <1>1, <1>2, PTL DEF Spec

-----------------------------------------------------------------------------
(* A position of a frame is an asset's price, its volume, or one of the    *)
(* other signals.                                                          *)
LEMMA Positions ==
  ASSUME NEW k \in 1..FrameSize
  PROVE  /\ FrameSize \in Nat
         /\ k <= 2 * Assets /\ k % 2 = 1 =>
              /\ (k + 1) \div 2 \in 1..Assets /\ 2 * ((k + 1) \div 2) - 1 = k
         /\ k <= 2 * Assets /\ k % 2 # 1 =>
              /\ k % 2 = 0 /\ k \div 2 \in 1..Assets /\ 2 * (k \div 2) = k
         /\ k > 2 * Assets => k - 2 * Assets \in 1..Others /\ 2 * Assets + (k - 2 * Assets) = k
  BY WireAssumption DEF FrameSize

LEMMA PricePosition ==
  ASSUME NEW i \in 1..Assets
  PROVE  /\ 2 * i - 1 \in 1..FrameSize /\ 2 * i \in 1..FrameSize
         /\ (2 * i - 1) % 2 = 1 /\ (2 * i) % 2 = 0
         /\ 2 * i - 1 <= 2 * Assets - 1 /\ 2 * i <= 2 * Assets
  BY WireAssumption DEF FrameSize

\* What both decoders ask of a frame, and what each makes of one that is taken.
Acceptable(f) == /\ \A k \in 1..FrameSize : Finite(f[k])
                 /\ \A i \in 1..Assets : f[2 * i - 1] > 0

Decoded(f) == [prices |-> [i \in 1..Assets |-> f[2 * i - 1]],
               vols |-> [i \in 1..Assets |-> Clamp(f[2 * i], 0, One)],
               others |-> [k \in 1..Others |-> f[2 * Assets + k]]]

IsVolume(k) == k <= 2 * Assets /\ k % 2 = 0
Clamped(f) == [k \in 1..FrameSize |-> IF IsVolume(k) THEN Clamp(f[k], 0, One) ELSE f[k]]

LEMMA VolsReplaced ==
  ASSUME NEW prices, NEW vols, NEW others, NEW new
  PROVE  [[prices |-> prices, vols |-> vols, others |-> others] EXCEPT !.vols = new]
           = [prices |-> prices, vols |-> new, others |-> others]
  OBVIOUS

LEMMA RustAccepts ==
  ASSUME NEW f \in [1..FrameSize -> Floats]
  PROVE  RustDecodePulse(f) = IF Acceptable(f) THEN Accepted(Decoded(f)) ELSE Refused
<1> DEFINE prices == [i \in 1..Assets |-> f[2 * i - 1]]
           vols == [i \in 1..Assets |-> f[2 * i]]
           others == [k \in 1..Others |-> f[2 * Assets + k]]
           pulse == [prices |-> prices, vols |-> vols, others |-> others]
<1>1. /\ \A i \in 1..Assets : pulse.prices[i] = f[2 * i - 1] /\ pulse.vols[i] = f[2 * i]
      /\ \A k \in 1..Others : pulse.others[k] = f[2 * Assets + k]
  OBVIOUS
<1>2. [pulse EXCEPT !.vols = [i \in 1..Assets |-> Clamp(@[i], 0, One)]] = Decoded(f)
  <2> DEFINE clamped == [i \in 1..Assets |-> Clamp(pulse.vols[i], 0, One)]
  <2>1. clamped = [i \in 1..Assets |-> Clamp(f[2 * i], 0, One)]
    BY <1>1
  <2>2. [prices |-> prices, vols |-> clamped, others |-> others] = Decoded(f)
    BY <2>1 DEF Decoded
  <2>3. [pulse EXCEPT !.vols = clamped] = [prices |-> prices, vols |-> clamped, others |-> others]
    <3> HIDE DEF prices, vols, others, clamped
    <3> QED
      BY VolsReplaced
  <2> QED
    BY <2>2, <2>3
<1>3. ASSUME Acceptable(f)
      PROVE  /\ \A i \in 1..Assets : Finite(pulse.prices[i]) /\ Finite(pulse.vols[i])
             /\ \A k \in 1..Others : Finite(pulse.others[k])
             /\ \A i \in 1..Assets : pulse.prices[i] > 0
  <2>1. \A k \in 1..Others : 2 * Assets + k \in 1..FrameSize
    BY WireAssumption DEF FrameSize
  <2> QED
    BY <1>1, <1>3, <2>1, PricePosition DEF Acceptable
<1>4. ASSUME /\ \A i \in 1..Assets : Finite(pulse.prices[i]) /\ Finite(pulse.vols[i])
             /\ \A k \in 1..Others : Finite(pulse.others[k])
             /\ \A i \in 1..Assets : pulse.prices[i] > 0
      PROVE  Acceptable(f)
  <2>1. ASSUME NEW k \in 1..FrameSize PROVE Finite(f[k])
    <3>1. CASE k <= 2 * Assets /\ k % 2 = 1
      BY <1>1, <1>4, <3>1, Positions
    <3>2. CASE k <= 2 * Assets /\ k % 2 # 1
      BY <1>1, <1>4, <3>2, Positions
    <3>3. CASE k > 2 * Assets
      BY <1>1, <1>4, <3>3, Positions
    <3> QED
      BY <3>1, <3>2, <3>3, WireAssumption, Positions
  <2> QED
    BY <1>1, <1>4, <2>1 DEF Acceptable
<1> HIDE DEF prices, vols, others, pulse
<1>5. RustDecodePulse(f) = ValidatePulse(pulse)
  BY DEF RustDecodePulse, prices, vols, others, pulse
<1> QED
  BY <1>2, <1>3, <1>4, <1>5 DEF ValidatePulse

LEMMA JuliaAccepts ==
  ASSUME NEW f \in [1..FrameSize -> Floats]
  PROVE  JuliaDecodePulse(f) = IF Acceptable(f) THEN Accepted(Clamped(f)) ELSE Refused
<1> DEFINE prices == {k \in 1..(2 * Assets - 1) : k % 2 = 1}
           vols == {k \in 2..(2 * Assets) : k % 2 = 0}
<1>1. DOMAIN f = 1..FrameSize
  OBVIOUS
<1>2. (\A k \in prices : f[k] > 0) <=> \A i \in 1..Assets : f[2 * i - 1] > 0
  <2>1. ASSUME \A k \in prices : f[k] > 0, NEW i \in 1..Assets PROVE f[2 * i - 1] > 0
    <3>1. 2 * i - 1 \in prices
      BY PricePosition, WireAssumption
    <3> QED
      BY <2>1, <3>1
  <2>2. ASSUME \A i \in 1..Assets : f[2 * i - 1] > 0, NEW k \in prices PROVE f[k] > 0
    <3>1. (k + 1) \div 2 \in 1..Assets /\ 2 * ((k + 1) \div 2) - 1 = k
      BY WireAssumption
    <3> QED
      BY <2>2, <3>1
  <2> QED
    BY <2>1, <2>2
<1>3. \A k \in 1..FrameSize : k \in vols <=> IsVolume(k)
  BY WireAssumption DEF IsVolume, FrameSize
<1>4. [k \in DOMAIN f |-> IF k \in vols THEN Clamp(f[k], 0, One) ELSE f[k]] = Clamped(f)
  BY <1>1, <1>3 DEF Clamped
<1> HIDE DEF prices, vols
<1>5. (\A k \in DOMAIN f : Finite(f[k])) /\ (\A k \in prices : f[k] > 0) <=> Acceptable(f)
  BY <1>1, <1>2 DEF Acceptable
<1>6. JuliaDecodePulse(f) =
        IF (\A k \in DOMAIN f : Finite(f[k])) /\ (\A k \in prices : f[k] > 0)
          THEN Accepted([k \in DOMAIN f |-> IF k \in vols THEN Clamp(f[k], 0, One) ELSE f[k]])
          ELSE Refused
  BY DEF JuliaDecodePulse, JuliaValidateFields, prices, vols
<1> QED
  BY <1>4, <1>5, <1>6

(* The decoders' clamp is stable and packing puts every field where it was. *)
LEMMA ClampStable ==
  ASSUME NEW x \in Int
  PROVE  /\ Clamp(x, 0, One) \in 0..One
         /\ Clamp(Clamp(x, 0, One), 0, One) = Clamp(x, 0, One)
  BY WireAssumption DEF Clamp

LEMMA ClampedAgain ==
  ASSUME NEW f \in [1..FrameSize -> Floats], Acceptable(f)
  PROVE  /\ Clamped(f) \in [1..FrameSize -> Floats]
         /\ Acceptable(Clamped(f))
         /\ Decoded(Clamped(f)) = Decoded(f)
         /\ Clamped(Clamped(f)) = Clamped(f)
         /\ PackPulse(Decoded(f)) = Clamped(f)
<1> DEFINE g == Clamped(f)
<1>1. \A k \in 1..FrameSize : f[k] \in Int
  BY DEF Acceptable, Finite, Floats
<1>2. \A k \in 1..FrameSize : g[k] = IF IsVolume(k) THEN Clamp(f[k], 0, One) ELSE f[k]
  BY DEF Clamped
<1>3. \A k \in 1..FrameSize : g[k] \in Int
  BY <1>1, <1>2, ClampStable
<1>4. g \in [1..FrameSize -> Floats]
  BY <1>3 DEF Clamped, Floats
<1> HIDE DEF g
<1>5. \A k \in 1..FrameSize : Finite(g[k])
  BY <1>3, WireAssumption DEF Finite
<1>6. ASSUME NEW i \in 1..Assets
      PROVE  /\ g[2 * i - 1] = f[2 * i - 1]
             /\ g[2 * i] = Clamp(f[2 * i], 0, One)
  BY <1>2, PricePosition, WireAssumption DEF IsVolume
<1>7. ASSUME NEW k \in 1..Others PROVE g[2 * Assets + k] = f[2 * Assets + k]
  <2>1. 2 * Assets + k \in 1..FrameSize /\ ~IsVolume(2 * Assets + k)
    BY WireAssumption DEF FrameSize, IsVolume
  <2> QED
    BY <1>2, <2>1
<1>8. Acceptable(g)
  BY <1>5, <1>6 DEF Acceptable
<1>9. \A i \in 1..Assets : Clamp(g[2 * i], 0, One) = Clamp(f[2 * i], 0, One)
  BY <1>1, <1>6, PricePosition, ClampStable
<1>10. Decoded(g) = Decoded(f)
  <2>1. [i \in 1..Assets |-> g[2 * i - 1]] = [i \in 1..Assets |-> f[2 * i - 1]]
    BY <1>6
  <2>2. [i \in 1..Assets |-> Clamp(g[2 * i], 0, One)] = [i \in 1..Assets |-> Clamp(f[2 * i], 0, One)]
    BY <1>9
  <2>3. [k \in 1..Others |-> g[2 * Assets + k]] = [k \in 1..Others |-> f[2 * Assets + k]]
    BY <1>7
  <2> QED
    BY <2>1, <2>2, <2>3 DEF Decoded
<1>11. Clamped(g) = g
  <2>1. \A k \in 1..FrameSize : (IF IsVolume(k) THEN Clamp(g[k], 0, One) ELSE g[k]) = g[k]
    BY <1>1, <1>2, ClampStable
  <2>2. g = [k \in 1..FrameSize |-> g[k]]
    BY <1>4
  <2> QED
    BY <2>1, <2>2 DEF Clamped
<1>12. PackPulse(Decoded(f)) = g
  <2> DEFINE d == Decoded(f)
  <2>1. /\ \A i \in 1..Assets : d.prices[i] = f[2 * i - 1] /\ d.vols[i] = Clamp(f[2 * i], 0, One)
        /\ \A k \in 1..Others : d.others[k] = f[2 * Assets + k]
    BY DEF Decoded
  <2> HIDE DEF d
  <2>2. ASSUME NEW k \in 1..FrameSize
        PROVE  (IF k > 2 * Assets THEN d.others[k - 2 * Assets]
                ELSE IF k % 2 = 1 THEN d.prices[(k + 1) \div 2] ELSE d.vols[k \div 2]) = g[k]
    <3>1. CASE k > 2 * Assets
      <4>1. k - 2 * Assets \in 1..Others /\ 2 * Assets + (k - 2 * Assets) = k /\ ~IsVolume(k)
        BY <3>1, Positions, WireAssumption DEF IsVolume
      <4> QED
        BY <1>2, <2>1, <3>1, <4>1
    <3>2. CASE k <= 2 * Assets /\ k % 2 = 1
      <4>1. PICK i \in 1..Assets : i = (k + 1) \div 2 /\ 2 * i - 1 = k
        BY <3>2, Positions
      <4>2. ~IsVolume(k) /\ ~(k > 2 * Assets)
        BY <3>2, WireAssumption DEF IsVolume
      <4> QED
        BY <1>2, <2>1, <3>2, <4>1, <4>2
    <3>3. CASE k <= 2 * Assets /\ k % 2 # 1
      <4>1. PICK i \in 1..Assets : i = k \div 2 /\ 2 * i = k
        BY <3>3, Positions
      <4>2. IsVolume(k) /\ ~(k > 2 * Assets)
        BY <3>3, Positions, WireAssumption DEF IsVolume
      <4> QED
        BY <1>2, <2>1, <3>3, <4>1, <4>2
    <3> QED
      BY <3>1, <3>2, <3>3, WireAssumption, Positions
  <2>3. PackPulse(d) = [k \in 1..FrameSize |-> g[k]]
    BY <2>2 DEF PackPulse, FrameSize
  <2>4. g = [k \in 1..FrameSize |-> g[k]]
    BY <1>4
  <2> QED
    BY <2>3, <2>4 DEF d
<1> QED
  BY <1>4, <1>8, <1>10, <1>11, <1>12 DEF g

(* Rust and Julia take the same frames and read the same values out of     *)
(* them, and what they let through is packed and decoded again without a   *)
(* change (MarketPulse::decode and pack, binary_wire.rs:64-180;             *)
(* validate_market_pulse_fields!, market_types.jl:46).                      *)
THEOREM TheDecodersAgree == Spec => []DecodersAgree
<1>1. ASSUME InputTypes PROVE DecodersAgree
  <2>1. frame \in [1..FrameSize -> Floats]
    BY <1>1 DEF InputTypes
  <2>2. /\ RustDecodePulse(frame) = IF Acceptable(frame) THEN Accepted(Decoded(frame)) ELSE Refused
        /\ JuliaDecodePulse(frame) = IF Acceptable(frame) THEN Accepted(Clamped(frame)) ELSE Refused
    BY <2>1, RustAccepts, JuliaAccepts
  <2>3. Refused.ok = FALSE /\ \A v : Accepted(v).ok = TRUE /\ Accepted(v).value = v
    BY DEF Refused, Accepted
  <2>4. CASE ~Acceptable(frame)
    BY <2>2, <2>3, <2>4 DEF DecodersAgree
  <2>5. CASE Acceptable(frame)
    <3>1. /\ RustDecodePulse(Clamped(frame)) = Accepted(Decoded(frame))
          /\ JuliaDecodePulse(Clamped(frame)) = Accepted(Clamped(frame))
      BY <2>1, <2>5, ClampedAgain, RustAccepts, JuliaAccepts
    <3>2. PackPulse(Decoded(frame)) = Clamped(frame)
      BY <2>1, <2>5, ClampedAgain
    <3> QED
      BY <2>2, <2>3, <2>5, <3>1, <3>2 DEF DecodersAgree
  <2> QED
    BY <2>4, <2>5
<1> QED
  BY <1>1, InputsTyped, PTL

-----------------------------------------------------------------------------
(* A pair's score, wherever it is finite.                                  *)
LEMMA ScoreIs ==
  ASSUME NEW q \in Packets, NEW i \in 1..Pairs, Finite(Score(q, i))
  PROVE  /\ 2 * i - 1 \in 1..(2 * Pairs) /\ 2 * i \in 1..(2 * Pairs)
         /\ q.readout[2 * i - 1] \in Int /\ q.readout[2 * i] \in Int
         /\ Score(q, i) = q.readout[2 * i - 1] - q.readout[2 * i]
         /\ Score(q, i) \in Int
         /\ Abs(Score(q, i)) \in 0..MaxFinite
<1>1. 2 * i - 1 \in 1..(2 * Pairs) /\ 2 * i \in 1..(2 * Pairs)
  BY WireAssumption
<1>2. PICK readout \in [1..(2 * Pairs) -> Floats] : readout = q.readout
  BY DEF Packets
<1>3. readout[2 * i - 1] \in Floats /\ readout[2 * i] \in Floats
  BY <1>1
<1>4. Finite(readout[2 * i - 1]) /\ Finite(readout[2 * i])
  BY <1>2 DEF Score, Finite
<1>5. PICK bull \in Int, bear \in Int : bull = readout[2 * i - 1] /\ bear = readout[2 * i]
  BY <1>3, <1>4 DEF Floats, Finite
<1>6. Score(q, i) = Rounded(bull - bear)
  BY <1>2, <1>4, <1>5 DEF Score
<1>7. Rounded(bull - bear) = bull - bear /\ Abs(bull - bear) \in 0..MaxFinite
  BY <1>6, WireAssumption DEF Rounded, Finite, Abs
<1> QED
  BY <1>1, <1>2, <1>5, <1>6, <1>7

(* A packet whose scores are all finite has finite fields.                 *)
LEMMA FiniteFields ==
  ASSUME packet \in Packets, \A i \in 1..Pairs : Finite(Score(packet, i))
  PROVE  \A k \in 1..(2 * Pairs) : Finite(packet.readout[k])
<1>1. ASSUME NEW k \in 1..(2 * Pairs) PROVE Finite(packet.readout[k])
  <2>1. PICK i \in 1..Pairs : k = 2 * i - 1 \/ k = 2 * i
    <3>1. (k + 1) \div 2 \in 1..Pairs
          /\ (k = 2 * ((k + 1) \div 2) - 1 \/ k = 2 * ((k + 1) \div 2))
      BY WireAssumption
    <3> QED
      BY <3>1
  <2>2. packet.readout[2 * i - 1] \in Int /\ packet.readout[2 * i] \in Int
    BY ScoreIs
  <2> QED
    BY <2>1, <2>2, WireAssumption DEF Finite
<1> QED
  BY <1>1

(* A packet trades with confidence or a direction only if Rust's decoder   *)
(* takes it and nothing derived from it overflows (ReadoutPacket::decode    *)
(* and readout_to_trade, binary_wire.rs:210-380).                           *)
THEOREM PacketsFailClosed == Spec => []FailsClosed
<1>1. ASSUME InputTypes PROVE FailsClosed
  <2> DEFINE trade == ReadoutToTrade(packet)
             overflown == {i \in 1..Pairs : ~Finite(Score(packet, i))}
  <2>1. \A i : NeutralTrade(i).confidence = 0 /\ NeutralTrade(i).side = "neutral"
    BY DEF NeutralTrade
  <2>2. ASSUME trade.confidence > 0 \/ trade.side # "neutral"
        PROVE  overflown = {} /\ Finite(SquaredNorm(packet)) /\ WeightSimplex(packet.relevance)
    <3> SUFFICES ASSUME ~(/\ overflown = {} /\ Finite(SquaredNorm(packet))
                          /\ WeightSimplex(packet.relevance))
                 PROVE  \E i : trade = NeutralTrade(i)
      BY <2>1, <2>2
    <3> HIDE DEF NeutralTrade, SquaredNorm, WeightSimplex, Primary, MaxRelevance
    <3> QED
      BY DEF ReadoutToTrade
  <2>3. ASSUME overflown = {} PROVE \A k \in 1..(2 * Pairs) : Finite(packet.readout[k])
    BY <1>1, <2>3, FiniteFields DEF InputTypes
  <2>4. RustDecodeReadout(packet).ok =
          ((\A k \in 1..(2 * Pairs) : Finite(packet.readout[k])) /\ WeightSimplex(packet.relevance))
    BY DEF RustDecodeReadout, Accepted, Refused
  <2> QED
    BY <2>2, <2>3, <2>4 DEF FailsClosed
<1> QED
  BY <1>1, InputsTyped, PTL

-----------------------------------------------------------------------------
(* Products, one at a time.                                                *)
LEMMA ProductNat == ASSUME NEW x \in Nat, NEW y \in Nat PROVE x * y \in Nat
  OBVIOUS

LEMMA ProductMonotone ==
  ASSUME NEW x \in Int, NEW y \in Int, x <= y, NEW c \in Nat
  PROVE  x * c <= y * c /\ c * x <= c * y
<1>1. (y - x) * c \in Nat
  BY ProductNat
<1>2. (y - x) * c = y * c - x * c /\ c * x = x * c /\ c * y = y * c
  OBVIOUS
<1> QED
  BY <1>1, <1>2

(* Full Kelly at valid inputs: what it is below the whole balance.         *)
LEMMA FullKellyIs ==
  ASSUME NEW r \in 0..One, NEW o \in Nat \ {0}
  PROVE  /\ r * o \in Nat /\ One * (One - r) \in Nat /\ o * (One - r) \in Nat
         /\ Sizing!FullDen(o) \in Nat \ {0}
         /\ Sizing!FullKelly(r, o) = r * o - One * (One - r)
         /\ Sizing!FullDen(o) = r * o + o * (One - r)
         /\ Sizing!FullKelly(r, o) <= Sizing!FullDen(o)
         /\ Sizing!FullKelly(r, o) = Sizing!FullDen(o) => r = One
<1> USE WireAssumption
<1>1. PICK q \in Nat : q = One - r
  OBVIOUS
<1>2. r * o \in Nat /\ One * q \in Nat /\ o * q \in Nat /\ One * o \in Nat
  BY <1>1, ProductNat
<1>3. One * o = r * o + o * q
  BY <1>1
<1>4. One * o # 0
  OBVIOUS
<1>5. One * q = 0 => q = 0
  OBVIOUS
<1>6. Sizing!FullDen(o) = One * o /\ Sizing!FullKelly(r, o) = r * o - One * q
  BY <1>1 DEF Sizing!FullDen, Sizing!FullKelly
<1> QED
  BY <1>1, <1>2, <1>3, <1>4, <1>5, <1>6

LEMMA CalculatedIs ==
  ASSUME NEW r \in 0..One, NEW o \in Nat \ {0}
  PROVE  /\ Sizing!Valid(r, o)
         /\ Sizing!CalculateFraction(r, o) =
              IF Sizing!FullKelly(r, o) < 0 THEN 0 ELSE Sizing!FullKelly(r, o)
         /\ Sizing!CalculateFraction(r, o) \in 0..Sizing!FullDen(o)
<1>1. Sizing!Valid(r, o)
  BY WireAssumption DEF Sizing!Valid
<1>2. /\ Sizing!FullDen(o) \in Nat /\ Sizing!FullKelly(r, o) \in Int
      /\ Sizing!FullKelly(r, o) <= Sizing!FullDen(o)
  BY FullKellyIs
<1>3. Sizing!CalculateFraction(r, o) = Sizing!Clamp(Sizing!FullKelly(r, o), 0, Sizing!FullDen(o))
  BY <1>1 DEF Sizing!CalculateFraction
<1> QED
  BY <1>1, <1>2, <1>3 DEF Sizing!Clamp

(* Inputs that are valid are a probability and positive odds.              *)
LEMMA ValidInputs ==
  ASSUME InputTypes, Sizing!Valid(p, b)
  PROVE  p \in 0..One /\ b \in Nat \ {0}
<1>1. b \in Int /\ b > 0
  BY DEF Sizing!Valid, InputTypes, Floats
<1> QED
  BY <1>1 DEF Sizing!Valid

(* The derivative of the growth rate is zero at an interior fraction.      *)
LEMMA InteriorIsStationary ==
  ASSUME NEW r \in 0..One, NEW o \in Nat \ {0}
  PROVE  LET n == r * o - One * (One - r)
             d == One * o
         IN r * o * (d - n) = (One - r) * (One * d + o * n)
<1> USE WireAssumption
<1>1. PICK q \in Nat : q = One - r
  OBVIOUS
<1>2. PICK n \in Int, d \in Nat : n = r * o - One * q /\ d = One * o
  OBVIOUS
<1>3. d - n = q * (o + One)
  BY <1>1, <1>2
<1>4. One * d + o * n = o * (r * (o + One))
  <2>1. One * d = o * (One * One)
    BY <1>2
  <2>2. o * n = o * (r * o) - o * (One * q)
    BY <1>2
  <2>3. One * One = One * r + One * q
    BY <1>1
  <2>4. o * (One * One) = o * (One * r) + o * (One * q)
    BY <2>3
  <2>5. r * (o + One) = r * o + One * r
    OBVIOUS
  <2>6. o * (r * (o + One)) = o * (r * o) + o * (One * r)
    BY <2>5
  <2> QED
    BY <2>1, <2>2, <2>4, <2>6
<1>5. r * o * (q * (o + One)) = q * (o * (r * (o + One)))
  OBVIOUS
<1> QED
  BY <1>1, <1>2, <1>3, <1>4, <1>5

LEMMA StakeIsOptimal == ASSUME InputTypes PROVE GrowthOptimal
<1>1. CASE ~Sizing!Valid(p, b)
  BY <1>1 DEF GrowthOptimal, Sizing!CalculateFraction
<1>2. CASE Sizing!Valid(p, b)
  <2>1. p \in 0..One /\ b \in Nat \ {0}
    BY <1>2, ValidInputs
  <2>2. PICK n, d : n = Sizing!CalculateFraction(p, b) /\ d = Sizing!FullDen(b)
    OBVIOUS
  <2>3. PICK f \in Int : f = Sizing!FullKelly(p, b) /\ f = p * b - One * (One - p)
    BY <2>1, FullKellyIs, WireAssumption
  <2>4. /\ d \in Nat \ {0} /\ n \in 0..d /\ n = (IF f < 0 THEN 0 ELSE f)
        /\ f = d => p = One
    BY <2>1, <2>2, <2>3, FullKellyIs, CalculatedIs
  <2>5. n \in 1..(d - 1) => p * b * (d - n) = (One - p) * (One * d + b * n)
    <3>1. ASSUME n \in 1..(d - 1) PROVE n = p * b - One * (One - p) /\ d = One * b
      BY <2>2, <2>3, <2>4, <3>1 DEF Sizing!FullDen
    <3> QED
      BY <2>1, <3>1, InteriorIsStationary
  <2>6. n = 0 => p * b <= (One - p) * One
    <3>1. p * b \in Nat /\ One * (One - p) \in Nat /\ One * (One - p) = (One - p) * One
      BY <2>1, FullKellyIs, WireAssumption
    <3> QED
      BY <2>3, <2>4, <3>1
  <2>7. n = d => p = One
    BY <2>3, <2>4
  <2> QED
    BY <1>2, <2>2, <2>4, <2>5, <2>6, <2>7 DEF GrowthOptimal
<1> QED
  BY <1>1, <1>2

(* The CLI's fraction before its scalar is no more than the engine's.      *)
LEMMA CliFullIsLess ==
  ASSUME NEW r \in 0..One, NEW o \in Nat \ {0}, One \div 100 <= r
  PROVE  /\ Sizing!CliFullKelly(r, o) \in Nat
         /\ Sizing!CliFullKelly(r, o) <= Sizing!CalculateFraction(r, o)
<1> USE WireAssumption
<1>1. PICK s \in Nat : s = Sizing!Clamp(r, One \div 100, (99 * One) \div 100) /\ s <= r /\ s <= One
  BY DEF Sizing!Clamp
<1>2. s * o <= r * o /\ One * (One - r) <= One * (One - s)
  BY <1>1, ProductMonotone
<1>3. PICK f \in Int : f = s * o - One * (One - s)
  BY <1>1
<1>4. Sizing!CliFullKelly(r, o) = IF f < 0 THEN 0 ELSE f
  BY <1>1, <1>3 DEF Sizing!CliFullKelly
<1>5. PICK g \in Int : g = r * o - One * (One - r)
  OBVIOUS
<1>6. Sizing!CalculateFraction(r, o) = IF g < 0 THEN 0 ELSE g
  BY <1>5, CalculatedIs, FullKellyIs
<1>7. f <= g
  <2>1. s * o \in Int /\ r * o \in Int /\ One * (One - r) \in Int /\ One * (One - s) \in Int
    BY <1>1
  <2> QED
    BY <1>2, <1>3, <1>5, <2>1
<1> QED
  BY <1>4, <1>6, <1>7

LEMMA CliStakesLess == ASSUME InputTypes PROVE CliNeverStakesMore
<1> SUFFICES ASSUME Sizing!Valid(p, b), 100 * p >= One
             PROVE  /\ Sizing!CliPrinted(p, b, FALSE) <= Sizing!FractionalKelly(p, b)
                    /\ Sizing!FractionalKelly(p, b) * ScalarDen <= ScalarNum * Sizing!FracDen(b)
  BY DEF CliNeverStakesMore
<1>1. p \in 0..One /\ b \in Nat \ {0}
  BY ValidInputs
<1>2. One \div 100 <= p
  BY <1>1, WireAssumption
<1>3. PICK cli \in Nat, n \in Nat, d \in Nat :
        /\ cli = Sizing!CliFullKelly(p, b) /\ n = Sizing!CalculateFraction(p, b) /\ d = Sizing!FullDen(b)
        /\ cli <= n /\ n <= d
  <2>1. Sizing!CalculateFraction(p, b) \in 0..Sizing!FullDen(b) /\ Sizing!FullDen(b) \in Nat
    BY <1>1, CalculatedIs, FullKellyIs
  <2> QED
    BY <1>1, <1>2, <2>1, CliFullIsLess
<1>4. ScalarNum \in Nat /\ ScalarDen \in Nat
  BY FormulaAssumption
<1>5. PICK whole \in Nat : whole = Sizing!FracDen(b) /\ whole = d * ScalarDen
  BY <1>3, <1>4, ProductNat DEF Sizing!FracDen
<1>6. cli * ScalarNum <= n * ScalarNum /\ n * ScalarNum <= d * ScalarNum
      /\ cli * ScalarNum \in Nat /\ n * ScalarNum \in Nat /\ d * ScalarNum \in Nat
  BY <1>3, <1>4, ProductMonotone, ProductNat
<1>7. Sizing!FractionalKelly(p, b) = IF n * ScalarNum > whole THEN whole ELSE n * ScalarNum
  BY <1>1, <1>3, <1>5, WireAssumption DEF Sizing!FractionalKelly
<1>8. Sizing!CliPrinted(p, b, FALSE) = Sizing!Clamp(cli * ScalarNum, 0, whole)
  <2>1. ~(p < One \div 100 \/ b <= 0)
    BY <1>1, <1>2, WireAssumption
  <2> QED
    BY <1>3, <1>5, <2>1 DEF Sizing!CliPrinted
<1>9. Sizing!CliPrinted(p, b, FALSE) <= Sizing!FractionalKelly(p, b)
  <2>1. PICK x \in Nat, y \in Nat : x = cli * ScalarNum /\ y = n * ScalarNum /\ x <= y
    BY <1>6
  <2>2. Sizing!Clamp(x, 0, whole) = IF x > whole THEN whole ELSE x
    BY <2>1 DEF Sizing!Clamp
  <2>3. PICK staked : staked = Sizing!FractionalKelly(p, b)
    OBVIOUS
  <2>4. staked = IF y > whole THEN whole ELSE y
    BY <1>7, <2>1, <2>3
  <2>5. PICK printed : printed = Sizing!Clamp(cli * ScalarNum, 0, whole)
    OBVIOUS
  <2>6. printed <= staked
    BY <1>5, <2>1, <2>2, <2>4, <2>5
  <2> QED
    BY <1>8, <2>3, <2>5, <2>6, Zenon
<1>10. Sizing!FractionalKelly(p, b) * ScalarDen <= ScalarNum * whole
  <2>1. PICK staked \in Nat : staked = Sizing!FractionalKelly(p, b) /\ staked <= d * ScalarNum
    BY <1>5, <1>6, <1>7
  <2>2. staked * ScalarDen <= (d * ScalarNum) * ScalarDen
    BY <1>4, <1>6, <2>1, ProductMonotone
  <2>3. (d * ScalarNum) * ScalarDen = ScalarNum * whole
    BY <1>3, <1>4, <1>5
  <2> QED
    BY <2>1, <2>2, <2>3
<1> QED
  BY <1>5, <1>9, <1>10

LEMMA StakesAreTopTier == ASSUME InputTypes PROVE StakesAreAggressive
<1> SUFFICES ASSUME b \in 1..(One \div 19), Sizing!CalculateFraction(p, b) > 0
             PROVE  Sizing!RiskTier(p) = "aggressive"
  BY DEF StakesAreAggressive
<1> USE WireAssumption
<1>1. Sizing!Valid(p, b)
  BY DEF Sizing!CalculateFraction
<1>2. p \in 0..One /\ b \in Nat \ {0} /\ 19 * b <= One
  BY <1>1, ValidInputs
<1>3. PICK q \in Nat, won \in Nat, lost \in Nat, most \in Nat :
        q = One - p /\ won = p * b /\ lost = One * q /\ most = p * One
  BY <1>2, ProductNat
<1>4. lost < won
  BY <1>2, <1>3, CalculatedIs, FullKellyIs
<1>5. 19 * won <= most
  <2>1. p * (19 * b) <= p * One
    BY <1>2, ProductMonotone
  <2>2. p * (19 * b) = 19 * (p * b)
    BY <1>2
  <2> QED
    BY <1>3, <2>1, <2>2
<1>6. 19 * q < p
  <2>1. SUFFICES ASSUME p <= 19 * q PROVE FALSE
    BY <1>2, <1>3
  <2>2. p * One <= (19 * q) * One
    BY <1>2, <1>3, <2>1, ProductMonotone
  <2>3. (19 * q) * One = 19 * lost
    BY <1>3
  <2> QED
    BY <1>3, <1>4, <1>5, <2>2, <2>3
<1>7. 100 * p >= 95 * One /\ p # NonFinite
  BY <1>2, <1>3, <1>6
<1> QED
  BY <1>7 DEF Sizing!RiskTier

(* A stake is the growth-optimal one or less, in the engine and in the     *)
(* CLI, and labelled as one (calculate_fraction, fractional_kelly and       *)
(* risk_tier, kelly.rs:49-160; kelly_fraction, market_kelly.jl:18).         *)
THEOREM TheStakesAreSound == Spec => []StakesSound
<1>1. InputTypes => StakesSound
  BY StakeIsOptimal, CliStakesLess, StakesAreTopTier DEF StakesSound
<1> QED
  BY <1>1, InputsTyped, PTL

-----------------------------------------------------------------------------
(* A quote with a bid in it is in the proportion 999 : 1000.               *)
LEMMA QuoteIs ==
  ASSUME InputTypes, NEW quote, quote = Dydx!GetPrice(market),
         quote.ok, quote.bid # NonFinite, quote.bid > 0
  PROVE  \E m \in Nat \ {0} :
           /\ quote.bid = 999 * m /\ quote.ask = 1000 * m
           /\ market.index = Missing => market.oracle \in Nat /\ m = 999 * market.oracle
<1>1. Missing # NonFinite /\ NonFinite \notin Int /\ Missing \notin Int
  BY DydxAssumption DEF Dydx!QuoteConstants
<1>2. market.oracle \in Floats \cup {Missing} /\ market.index \in Floats \cup {Missing}
  BY DEF InputTypes
<1>3. market.oracle # Missing
  BY DEF Dydx!GetPrice, Dydx!NoQuote
<1>4. PICK bid : bid = Dydx!Bid(market)
  OBVIOUS
<1>5. quote.bid = bid /\ quote.ask = IF bid = NonFinite THEN NonFinite ELSE Dydx!Ask(bid)
  BY <1>3, <1>4 DEF Dydx!GetPrice
<1>6. CASE market.index = NonFinite
  BY <1>4, <1>5, <1>6 DEF Dydx!Bid
<1>7. CASE market.index = Missing
  <2>1. market.oracle \in Int
    BY <1>1, <1>2, <1>3, <1>4, <1>5, <1>7 DEF Dydx!Bid, Floats
  <2>2. PICK oracle \in Int : oracle = market.oracle
    BY <2>1
  <2>3. bid = oracle * 999 * 999
    BY <1>1, <1>4, <1>7, <2>2 DEF Dydx!Bid
  <2>4. oracle > 0 /\ bid \div 999 = 999 * oracle /\ bid # NonFinite
    BY <1>1, <1>5, <2>3
  <2>5. quote.ask = 1000 * (999 * oracle)
    BY <1>5, <2>4 DEF Dydx!Ask
  <2> QED
    BY <1>5, <2>2, <2>3, <2>4, <2>5
<1>8. CASE market.index # NonFinite /\ market.index # Missing
  <2>1. PICK index \in Int : index = market.index
    BY <1>2, <1>8 DEF Floats
  <2>2. bid = index * (999 * 1000)
    BY <1>4, <1>8, <2>1 DEF Dydx!Bid, Dydx!Tick
  <2>3. index > 0 /\ bid \div 999 = 1000 * index /\ bid # NonFinite
    BY <1>1, <1>5, <2>2
  <2>4. quote.ask = 1000 * (1000 * index)
    BY <1>5, <2>3 DEF Dydx!Ask
  <2> QED
    BY <1>5, <1>8, <2>2, <2>3, <2>4
<1> QED
  BY <1>6, <1>7, <1>8

(* A quote and the book made of it agree, whatever the market's answer     *)
(* (get_price and get_orderbook, dydx.rs:97-175).                           *)
THEOREM QuotesAndBooksAgree == Spec => []QuoteAndBookAgree
<1>1. ASSUME InputTypes PROVE QuoteAndBookAgree
  <2> DEFINE quote == Dydx!GetPrice(market)
             book == Dydx!GetOrderbook(quote, depth)
  <2> SUFFICES ASSUME quote.ok, quote.bid # NonFinite, quote.bid > 0
               PROVE  /\ 1999 * Dydx!Spread(quote) = Dydx!TwiceMid(quote)
                      /\ market.index = Missing => Dydx!TwiceMid(quote) < 2 * market.oracle * Dydx!Tick
                      /\ depth > 0 => /\ Dydx!TwiceBookMid(book) = Dydx!TwiceMid(quote)
                                      /\ Dydx!BookSpread(book) = Dydx!Spread(quote) + 2 * Dydx!Tick
                      /\ \A i, j \in 1..depth :
                           /\ i < j => book.bids[i] > book.bids[j] /\ book.asks[i] < book.asks[j]
                           /\ book.bids[i] < book.asks[j]
    BY DEF QuoteAndBookAgree
  <2>1. PICK m \in Nat \ {0} :
          /\ quote.bid = 999 * m /\ quote.ask = 1000 * m
          /\ market.index = Missing => market.oracle \in Nat /\ m = 999 * market.oracle
    BY <1>1, QuoteIs
  <2> HIDE DEF quote
  <2>2. depth \in Nat
    BY <1>1 DEF InputTypes
  <2>3. Dydx!Spread(quote) = m /\ Dydx!TwiceMid(quote) = 1999 * m
    BY <2>1 DEF Dydx!Spread, Dydx!TwiceMid
  <2>4. \A i \in 1..depth : /\ book.bids[i] = 999 * m - i * (999 * 1000)
                            /\ book.asks[i] = 1000 * m + i * (999 * 1000)
    BY <2>1 DEF Dydx!GetOrderbook, Dydx!Tick
  <2>5. depth > 0 => book.bids # <<>>
    <3>1. DOMAIN book.bids = 1..depth
      BY DEF Dydx!GetOrderbook
    <3>2. depth > 0 => 1 \in DOMAIN book.bids
      BY <2>2, <3>1
    <3> QED
      BY <3>2
  <2> HIDE DEF book
  <2>6. market.index = Missing => Dydx!TwiceMid(quote) < 2 * market.oracle * Dydx!Tick
    <3>1. SUFFICES ASSUME market.index = Missing PROVE 1999 * m < 2 * market.oracle * (999 * 1000)
      BY <2>3 DEF Dydx!Tick
    <3>2. PICK oracle \in Nat : oracle = market.oracle /\ m = 999 * oracle
      BY <2>1, <3>1
    <3>3. 1999 * m < 2 * oracle * (999 * 1000)
      BY <3>2
    <3> QED
      BY <3>2, <3>3
  <2>7. ASSUME depth > 0
        PROVE  /\ Dydx!TwiceBookMid(book) = Dydx!TwiceMid(quote)
               /\ Dydx!BookSpread(book) = Dydx!Spread(quote) + 2 * Dydx!Tick
    <3>1. book.bids[1] = 999 * m - 999 * 1000 /\ book.asks[1] = 1000 * m + 999 * 1000
      BY <2>2, <2>4, <2>7
    <3> QED
      BY <2>3, <2>5, <2>7, <3>1 DEF Dydx!TwiceBookMid, Dydx!BookSpread, Dydx!Tick
  <2>8. ASSUME NEW i \in 1..depth, NEW j \in 1..depth
        PROVE  /\ i < j => book.bids[i] > book.bids[j] /\ book.asks[i] < book.asks[j]
               /\ book.bids[i] < book.asks[j]
    BY <2>1, <2>2, <2>4
  <2> QED
    BY <2>3, <2>6, <2>7, <2>8
<1> QED
  BY <1>1, InputsTyped, PTL

-----------------------------------------------------------------------------
(* The sums of the wire and of NERO are the same fold.                     *)
LEMMA WireTotal == ASSUME NEW f PROVE Total(f) = Sum(f)
  BY DEF Total, Sum, FoldFunction, FoldFunctionOnSet, MapThenFoldSet

LEMMA ConductorTotal == ASSUME NEW f PROVE Conductor!Total(f) = Sum(f)
  BY DEF Conductor!Total, Conductor!FoldFunction, Conductor!FoldFunctionOnSet,
         Conductor!MapThenFoldSet, Sum, FoldFunction, FoldFunctionOnSet, MapThenFoldSet

LEMMA TrailerTotal == ASSUME NEW f PROVE Conductor!Wire!Total(f) = Sum(f)
  BY DEF Conductor!Wire!Total, Conductor!Wire!FoldFunction, Conductor!Wire!FoldFunctionOnSet,
         Conductor!Wire!MapThenFoldSet, Sum, FoldFunction, FoldFunctionOnSet, MapThenFoldSet

\* The exponential exp(-d) is not negative and falls with d.
ExpFalls == \A d, e \in Nat : d <= e => Exp(d) \in Nat /\ Exp(e) \in Nat /\ Exp(e) <= Exp(d)

NeroLobe == 1..NeroLobes

LEMMA NeroNumbers ==
  /\ NeroLobes \in Nat \ {0} /\ Activities \subseteq Nat
  /\ Inhibit \in [NeroLobe -> [NeroLobe -> 0..100]]
  /\ Momentum \in Nat /\ Unit \in Nat \ {0} /\ Epsilon \in Nat /\ 100 * Epsilon <= Unit
  /\ Exp(0) = Unit
  /\ Conductor!Lobe = NeroLobe /\ IsFiniteSet(NeroLobe) /\ Cardinality(NeroLobe) = NeroLobes
<1>1. /\ NeroLobes \in Nat \ {0} /\ Activities \subseteq Nat
      /\ Inhibit \in [NeroLobe -> [NeroLobe -> 0..100]]
      /\ Momentum \in Nat /\ Unit \in Nat \ {0} /\ Epsilon \in Nat /\ 100 * Epsilon <= Unit
      /\ Exp(0) = Unit
  BY ConductorAssumption DEF Conductor!NeroConstants, NeroLobe
<1>2. IsFiniteSet(1..NeroLobes) /\ Cardinality(1..NeroLobes) = NeroLobes
  <2>1. 1 \in Int /\ NeroLobes \in Int /\ ~(1 > NeroLobes) /\ NeroLobes - 1 + 1 = NeroLobes
    BY <1>1
  <2> QED
    BY <2>1, FS_Interval
<1> QED
  BY <1>1, <1>2 DEF NeroLobe, Conductor!Lobe

(* The scores of a tick are naturals.                                      *)
LEMMA ScoresTyped ==
  ASSUME NEW activity \in [NeroLobe -> Activities], NEW moving
  PROVE  Conductor!Inhibited(Conductor!RawScores(activity, moving)) \in [NeroLobe -> Nat]
<1> USE NeroNumbers
<1>1. PICK raw \in [NeroLobe -> Nat] : raw = Conductor!RawScores(activity, moving)
  <2>1. ASSUME NEW i \in NeroLobe
        PROVE  activity[i] + (IF moving[i] THEN Momentum ELSE 0) \in Nat
    <3>1. activity[i] \in Nat
      OBVIOUS
    <3>2. CASE moving[i]
      BY <3>1, <3>2
    <3>3. CASE ~moving[i]
      BY <3>1, <3>3
    <3> QED
      BY <3>2, <3>3
  <2>2. Conductor!RawScores(activity, moving) \in [NeroLobe -> Nat]
    BY <2>1 DEF Conductor!RawScores
  <2> QED
    BY <2>2, Zenon
<1>2. ASSUME NEW dst \in NeroLobe
      PROVE  Conductor!Total([src \in NeroLobe |->
                                IF src = dst THEN 0 ELSE Inhibit[src][dst] * raw[src]]) \in Int
  <2> DEFINE f == [src \in NeroLobe |-> IF src = dst THEN 0 ELSE Inhibit[src][dst] * raw[src]]
  <2>1. ASSUME NEW src \in NeroLobe PROVE Inhibit[src][dst] * raw[src] \in Nat
    <3>1. Inhibit[src][dst] \in Nat /\ raw[src] \in Nat
      OBVIOUS
    <3> QED
      BY <3>1, ProductNat
  <2>2. f \in [NeroLobe -> Int]
    BY <2>1
  <2> HIDE DEF f
  <2>3. Sum(f) \in Int
    BY <2>2, SumType
  <2> QED
    BY <2>3, ConductorTotal DEF f
<1>3. ASSUME NEW dst \in NeroLobe, NEW silenced \in Int
      PROVE  (IF 100 * raw[dst] - silenced < 100 THEN 100 ELSE 100 * raw[dst] - silenced) \in Nat
  OBVIOUS
<1> QED
  BY <1>1, <1>2, <1>3 DEF Conductor!Inhibited, Conductor!MinScore

(* The largest of the scores is one of them.                               *)
LEMMA LargestIs ==
  ASSUME NEW f \in [NeroLobe -> Int]
  PROVE  \E top \in NeroLobe : /\ Conductor!Largest(f) = f[top]
                               /\ \A i \in NeroLobe : f[i] <= f[top]
<1>1. PICK t \in NeroLobe : \A i \in NeroLobe : f[i] <= f[t]
  BY NeroNumbers, LargestExists DEF NeroLobe
<1>2. f[t] \in {f[i] : i \in NeroLobe}
  OBVIOUS
<1>3. PICK m : m = Conductor!Largest(f)
  OBVIOUS
<1>4. m \in {f[i] : i \in NeroLobe} /\ \A i \in NeroLobe : f[i] <= m
  BY NeroNumbers, <1>1, <1>2, <1>3 DEF Conductor!Largest
<1>5. m = f[t]
  <2>1. PICK i \in NeroLobe : m = f[i]
    BY <1>4
  <2>2. f[i] \in Int /\ f[t] \in Int /\ f[i] <= f[t] /\ f[t] <= f[i]
    BY <1>1, <1>4, <2>1
  <2>3. f[i] = f[t]
    BY <2>2
  <2> QED
    BY <2>1, <2>3
<1> QED
  BY <1>1, <1>3, <1>5

(* The softmax's terms are between 0 and the largest score's, and in the   *)
(* scores' order.                                                          *)
LEMMA SoftmaxIs ==
  ASSUME ExpFalls, NEW inhibited \in [NeroLobe -> Int]
  PROVE  \E term \in [NeroLobe -> Nat], total \in Nat :
           /\ total = Sum(term) /\ Unit <= total /\ \A i \in NeroLobe : term[i] <= total
           /\ \A i, j \in NeroLobe : inhibited[i] >= inhibited[j] => term[i] >= term[j]
           /\ Conductor!Floored(inhibited) =
                [n |-> [i \in NeroLobe |-> IF 100 * term[i] < total + Epsilon
                                             THEN total + Epsilon ELSE 100 * term[i]],
                 over |-> 100 * (total + Epsilon)]
<1> USE NeroNumbers
<1>1. PICK top \in NeroLobe : /\ Conductor!Largest(inhibited) = inhibited[top]
                              /\ \A i \in NeroLobe : inhibited[i] <= inhibited[top]
  BY LargestIs
<1> DEFINE gap(i) == inhibited[top] - inhibited[i]
           term == [i \in NeroLobe |-> Exp(gap(i))]
<1>2. \A i \in NeroLobe : gap(i) \in Nat
  BY <1>1
<1>3. gap(top) = 0
  OBVIOUS
<1>4. \A i, j \in NeroLobe : inhibited[i] >= inhibited[j] => gap(i) <= gap(j)
  OBVIOUS
<1> HIDE DEF gap
<1>5. \A i \in NeroLobe : Exp(gap(i)) \in Nat
  BY <1>2 DEF ExpFalls
<1>6. term \in [NeroLobe -> Nat] /\ \A i \in NeroLobe : term[i] = Exp(gap(i))
  BY <1>5
<1>7. term[top] = Unit
  BY <1>3, <1>6
<1>8. \A i, j \in NeroLobe : inhibited[i] >= inhibited[j] => term[i] >= term[j]
  <2> SUFFICES ASSUME NEW i \in NeroLobe, NEW j \in NeroLobe, inhibited[i] >= inhibited[j]
               PROVE  term[j] <= term[i]
    BY <1>6
  <2>1. gap(i) <= gap(j)
    BY <1>4
  <2> QED
    BY <1>2, <1>6, <2>1 DEF ExpFalls
<1>9. Conductor!Floored(inhibited) =
        [n |-> [i \in NeroLobe |-> IF 100 * term[i] < Conductor!Total(term) + Epsilon
                                     THEN Conductor!Total(term) + Epsilon ELSE 100 * term[i]],
         over |-> 100 * (Conductor!Total(term) + Epsilon)]
  BY <1>1 DEF Conductor!Floored, gap
<1> HIDE DEF term
<1>10. PICK total \in Nat : total = Sum(term) /\ \A i \in NeroLobe : term[i] <= total
  BY <1>6, SumOfNaturals
<1>11. Conductor!Total(term) = total
  BY <1>10, ConductorTotal
<1>12. Unit <= total /\ \A i \in NeroLobe : term[i] <= total
  BY <1>7, <1>10
<1> USE <1>6
<1> WITNESS term \in [NeroLobe -> Nat], total \in Nat
<1> QED
  BY <1>8, <1>9, <1>10, <1>11, <1>12, Zenon

(* The floored terms and their sum: each at least the floor s, the sum     *)
(* between 100 times the softmax's and that and a floor for every lobe.    *)
LEMMA FlooredIs ==
  ASSUME ExpFalls, NEW inhibited \in [NeroLobe -> Int]
  PROVE  \E n \in [NeroLobe -> Nat], total \in Nat, all \in Nat :
           /\ Conductor!Floored(inhibited) = [n |-> n, over |-> 100 * (total + Epsilon)]
           /\ all = Sum(n) /\ Unit <= total
           /\ 100 * total <= all /\ all <= NeroLobes * (total + Epsilon) + 100 * total
           /\ \A i \in NeroLobe : total + Epsilon <= n[i] /\ n[i] <= all
           /\ \A i, j \in NeroLobe : inhibited[i] >= inhibited[j] => n[i] >= n[j]
<1>1. PICK term \in [NeroLobe -> Nat], total \in Nat :
        /\ total = Sum(term) /\ Unit <= total /\ \A i \in NeroLobe : term[i] <= total
        /\ \A i, j \in NeroLobe : inhibited[i] >= inhibited[j] => term[i] >= term[j]
        /\ Conductor!Floored(inhibited) =
             [n |-> [i \in NeroLobe |-> IF 100 * term[i] < total + Epsilon
                                          THEN total + Epsilon ELSE 100 * term[i]],
              over |-> 100 * (total + Epsilon)]
  BY SoftmaxIs
<1>2. /\ IsFiniteSet(NeroLobe) /\ Cardinality(NeroLobe) = NeroLobes
      /\ NeroLobes \in Nat \ {0} /\ Epsilon \in Nat
  BY NeroNumbers
<1>3. PICK s \in Nat : s = total + Epsilon
  BY <1>2
<1> DEFINE n == [i \in NeroLobe |-> IF 100 * term[i] < s THEN s ELSE 100 * term[i]]
           hundred == [i \in NeroLobe |-> 100 * term[i]]
           floor == [i \in NeroLobe |-> s]
           above == [i \in NeroLobe |-> s + 100 * term[i]]
<1>4. /\ n \in [NeroLobe -> Nat] /\ n \in [NeroLobe -> Int]
      /\ hundred \in [NeroLobe -> Int] /\ floor \in [NeroLobe -> Int]
      /\ above \in [NeroLobe -> Int] /\ term \in [NeroLobe -> Int]
  OBVIOUS
<1>5. \A i \in NeroLobe : /\ s <= n[i] /\ hundred[i] <= n[i] /\ n[i] <= above[i]
                          /\ above[i] = floor[i] + hundred[i] /\ floor[i] = s
                          /\ hundred[i] = 100 * term[i]
  OBVIOUS
<1>6. \A i, j \in NeroLobe : inhibited[i] >= inhibited[j] => n[i] >= n[j]
  <2> SUFFICES ASSUME NEW i \in NeroLobe, NEW j \in NeroLobe, inhibited[i] >= inhibited[j]
               PROVE  n[i] >= n[j]
    OBVIOUS
  <2>1. term[i] \in Nat /\ term[j] \in Nat /\ term[i] >= term[j]
    BY <1>1
  <2> QED
    BY <2>1
<1>7. Conductor!Floored(inhibited) = [n |-> n, over |-> 100 * (total + Epsilon)]
  BY <1>1, <1>3
<1> HIDE DEF n, hundred, floor, above
<1>8. Sum(hundred) = 100 * total
  BY <1>1, <1>2, <1>4, <1>5, SumScaled
<1>9. Sum(floor) = NeroLobes * s
  BY <1>2, <1>4, <1>5, SumConstant
<1>10. Sum(above) = Sum(floor) + Sum(hundred)
  BY <1>2, <1>4, <1>5, SumAdded
<1>11. Sum(hundred) <= Sum(n)
  BY <1>2, <1>4, <1>5, SumMonotone
<1>12. Sum(n) <= Sum(above)
  BY <1>2, <1>4, <1>5, SumMonotone
<1>13. PICK all \in Nat : all = Sum(n) /\ \A i \in NeroLobe : n[i] <= all
  BY <1>2, <1>4, SumOfNaturals
<1>14. 100 * total <= all /\ all <= NeroLobes * (total + Epsilon) + 100 * total
  BY <1>3, <1>8, <1>9, <1>10, <1>11, <1>12, <1>13
<1> USE <1>4
<1> WITNESS n \in [NeroLobe -> Nat], total \in Nat, all \in Nat
<1>15. \A i \in NeroLobe : total + Epsilon <= n[i] /\ n[i] <= all
  BY <1>3, <1>5, <1>13
<1> QED
  BY <1>1, <1>6, <1>7, <1>13, <1>14, <1>15, Zenon

(* With u for Unit and e for Epsilon, at most a hundredth of it: the second *)
(* normalisation takes less than a twentieth off the weights' sum, and      *)
(* leaves each weight of n more than the floor over 100 + 3 lobes.          *)
LEMMA Renormalised ==
  ASSUME NEW u \in Nat \ {0}, NEW e \in Nat, 100 * e <= u, NEW lobes \in Nat \ {0},
         NEW total \in Nat, u <= total, NEW all \in Nat, NEW s, s = total + e,
         100 * total <= all, all <= lobes * s + 100 * total,
         NEW d, d = u * all + e * (100 * s)
  PROVE  /\ d \in Nat \ {0}
         /\ 95 * d <= 100 * (u * all) /\ 100 * (u * all) <= 105 * d
         /\ \A n \in Nat : s <= n /\ n <= all =>
              /\ u * n \in 0..d /\ u * n > 0
              /\ u * n * (100 + 3 * lobes) >= d
<1>1. PICK a \in Nat, c \in Nat, ut \in Nat, x \in Nat, es \in Nat :
        a = e * total /\ c = e * e /\ ut = u * all /\ x = u * total /\ es = e * s
  BY ProductNat
<1>2. es = a + c /\ e * (100 * s) = 100 * es
  BY <1>1
<1>3. c <= a
  BY <1>1, ProductMonotone
<1>4. 100 * a <= x
  <2>1. (100 * e) * total <= u * total
    BY ProductMonotone
  <2>2. (100 * e) * total = 100 * (e * total)
    OBVIOUS
  <2> QED
    BY <1>1, <2>1, <2>2
<1>5. 100 * x <= ut
  <2>1. u * (100 * total) <= u * all
    BY ProductMonotone
  <2>2. u * (100 * total) = 100 * (u * total)
    OBVIOUS
  <2> QED
    BY <1>1, <2>1, <2>2
<1>6. u <= x
  <2>1. u * 1 <= u * total
    BY ProductMonotone
  <2> QED
    BY <1>1, <2>1
<1>7. /\ ut + 100 * es \in Nat \ {0}
      /\ 95 * (ut + 100 * es) <= 100 * ut /\ 100 * ut <= 105 * (ut + 100 * es)
  BY <1>2, <1>3, <1>4, <1>5, <1>6
<1>8. ASSUME NEW n \in Nat, s <= n, n <= all
      PROVE  /\ u * n \in 0..(ut + 100 * es) /\ u * n > 0
             /\ u * n * (100 + 3 * lobes) >= ut + 100 * es
  <2>1. PICK v \in Nat, w \in Nat, lv \in Nat, lw \in Nat :
          v = u * s /\ w = u * n /\ lv = lobes * v /\ lw = lobes * w
    BY ProductNat
  <2>2. v <= w /\ w <= ut /\ x <= v
    BY <1>1, <1>8, <2>1, ProductMonotone
  <2>3. lv <= lw
    BY <2>1, <2>2, ProductMonotone
  <2>4. 1 * v <= lv
    BY <2>1, ProductMonotone
  <2>5. 100 * es <= v
    <3>1. (100 * e) * s <= u * s
      BY ProductMonotone
    <3>2. (100 * e) * s = 100 * (e * s)
      OBVIOUS
    <3> QED
      BY <1>1, <2>1, <3>1, <3>2
  <2>6. ut <= lv + 100 * x
    <3>1. u * all <= u * (lobes * s + 100 * total)
      BY ProductNat, ProductMonotone
    <3>2. u * (lobes * s + 100 * total) = lobes * (u * s) + 100 * (u * total)
      OBVIOUS
    <3> QED
      BY <1>1, <2>1, <3>1, <3>2
  <2>7. u * n * (100 + 3 * lobes) = 100 * w + 3 * lw
    BY <2>1
  <2>8. 100 * w + 3 * lw >= ut + 100 * es
    BY <2>2, <2>3, <2>4, <2>5, <2>6
  <2>9. u * n \in 0..(ut + 100 * es) /\ u * n > 0
    BY <1>6, <2>1, <2>2
  <2> QED
    BY <2>7, <2>8, <2>9
<1>9. d = ut + 100 * es
  BY <1>1, <1>2
<1> QED
  BY <1>1, <1>7, <1>8, <1>9

(* A trailer with these weights is accepted and silences nobody.           *)
SoundTrailer ==
  /\ num \in [NeroLobe -> Nat] /\ den \in Nat \ {0} /\ scores \in [NeroLobe -> Int]
  /\ \A i \in NeroLobe : num[i] \in 0..den /\ num[i] > 0 /\ num[i] * (100 + 3 * NeroLobes) >= den
  /\ 95 * den <= 100 * Sum(num) /\ 100 * Sum(num) <= 105 * den
  /\ \A i, j \in NeroLobe : scores[i] >= scores[j] => num[i] >= num[j]

LEMMA SoundIsAccepted == SoundTrailer => TrailerSound
<1> SUFFICES ASSUME SoundTrailer PROVE TrailerSound
  OBVIOUS
<1>1. Conductor!NoLobeSilenced
  BY NeroNumbers DEF SoundTrailer, Conductor!NoLobeSilenced
<1>2. Conductor!Wire!WeightSimplex(num)
  <2>1. \A i \in NeroLobe : Conductor!Wire!Finite(num[i]) /\ num[i] \in 0..den
    BY WireAssumption DEF SoundTrailer, Conductor!Wire!Finite
  <2>2. Sum(num) \in Int
    BY NeroNumbers, SumType DEF SoundTrailer
  <2>3. 100 * Conductor!Wire!Total(num) \in (95 * den)..(105 * den)
    BY <2>2, TrailerTotal DEF SoundTrailer
  <2> QED
    BY <2>1, <2>3 DEF Conductor!Wire!WeightSimplex, NeroLobe
<1>3. Conductor!TrailerAccepted
  <2>1. 0 # NonFinite
    BY WireAssumption
  <2> DEFINE readout == [k \in 1..16 |-> 0]
  <2>2. \A k \in 1..(2 * 8) : Conductor!Wire!Finite(readout[k])
    BY <2>1 DEF Conductor!Wire!Finite
  <2> HIDE DEF readout
  <2>3. Conductor!Wire!RustDecodeReadout([readout |-> readout, relevance |-> num])
          = Conductor!Wire!Accepted([readout |-> readout, relevance |-> num])
    BY <1>2, <2>2 DEF Conductor!Wire!RustDecodeReadout
  <2> QED
    BY <2>3 DEF Conductor!TrailerAccepted, Conductor!Wire!Accepted, readout
<1> QED
  BY <1>1, <1>3 DEF TrailerSound

(* Equal weights are sound.                                                *)
LEMMA EqualIsSound == Conductor!Init => SoundTrailer
<1> SUFFICES ASSUME Conductor!Init PROVE SoundTrailer
  OBVIOUS
<1>1. /\ NeroLobes \in Nat \ {0} /\ Conductor!Lobe = NeroLobe
      /\ IsFiniteSet(NeroLobe) /\ Cardinality(NeroLobe) = NeroLobes
  BY NeroNumbers
<1>2. /\ num = [i \in NeroLobe |-> 1] /\ den = NeroLobes /\ scores = [i \in NeroLobe |-> 100]
  BY <1>1 DEF Conductor!Init, Conductor!MinScore
<1>3. num \in [NeroLobe -> Int] /\ \A i \in NeroLobe : num[i] = 1
  BY <1>2
<1>4. Sum(num) = NeroLobes * 1
  BY <1>1, <1>3, SumConstant
<1> QED
  BY <1>1, <1>2, <1>3, <1>4 DEF SoundTrailer

(* And whatever the activity, a tick's are.                                *)
LEMMA TickIsSound ==
  ASSUME ExpFalls, SoundTrailer, NEW activity \in [NeroLobe -> Activities],
         Conductor!UpdateRelevance(activity)
  PROVE  SoundTrailer'
<1>1. /\ NeroLobes \in Nat \ {0} /\ Conductor!Lobe = NeroLobe
      /\ IsFiniteSet(NeroLobe) /\ Cardinality(NeroLobe) = NeroLobes
      /\ Unit \in Nat \ {0} /\ Epsilon \in Nat /\ 100 * Epsilon <= Unit
  BY NeroNumbers
<1>2. scores' \in [NeroLobe -> Nat] /\ scores' \in [NeroLobe -> Int]
  <2>1. scores' \in [NeroLobe -> Nat]
    BY ScoresTyped DEF Conductor!UpdateRelevance
  <2> QED
    BY <2>1
<1>3. PICK n \in [NeroLobe -> Nat], total \in Nat, all \in Nat :
        /\ Conductor!Floored(scores') = [n |-> n, over |-> 100 * (total + Epsilon)]
        /\ all = Sum(n) /\ Unit <= total
        /\ 100 * total <= all /\ all <= NeroLobes * (total + Epsilon) + 100 * total
        /\ \A i \in NeroLobe : total + Epsilon <= n[i] /\ n[i] <= all
        /\ \A i, j \in NeroLobe : scores'[i] >= scores'[j] => n[i] >= n[j]
  BY <1>2, FlooredIs
<1>4. PICK s \in Nat : s = total + Epsilon
  BY <1>1
<1>5. /\ num' = [i \in NeroLobe |-> Unit * n[i]]
      /\ den' = Unit * all + Epsilon * (100 * s)
  <2>1. Conductor!Renormalise(Conductor!Floored(scores'))
    BY DEF Conductor!UpdateRelevance
  <2>2. Conductor!Total(n) = all
    BY <1>3, ConductorTotal
  <2> QED
    BY <1>1, <1>3, <1>4, <2>1, <2>2 DEF Conductor!Renormalise
<1>6. PICK d : d = den' /\ d = Unit * all + Epsilon * (100 * s)
  BY <1>5
<1>7. /\ d \in Nat \ {0}
      /\ 95 * d <= 100 * (Unit * all) /\ 100 * (Unit * all) <= 105 * d
      /\ \A m \in Nat : s <= m /\ m <= all =>
           /\ Unit * m \in 0..d /\ Unit * m > 0 /\ Unit * m * (100 + 3 * NeroLobes) >= d
  <2>1. all <= NeroLobes * s + 100 * total
    BY <1>3, <1>4
  <2>2. /\ Unit \in Nat \ {0} /\ Epsilon \in Nat /\ 100 * Epsilon <= Unit
        /\ NeroLobes \in Nat \ {0} /\ Unit <= total /\ 100 * total <= all
    BY <1>1, <1>3
  <2> QED
    BY <1>4, <1>6, <2>1, <2>2, Renormalised
<1>8. \A i \in NeroLobe : /\ n[i] \in Nat /\ s <= n[i] /\ n[i] <= all
                          /\ num'[i] = Unit * n[i] /\ Unit * n[i] \in Nat
  BY <1>1, <1>3, <1>4, <1>5, ProductNat
<1>9. num' \in [NeroLobe -> Nat] /\ num' \in [NeroLobe -> Int] /\ n \in [NeroLobe -> Int]
  BY <1>5, <1>8
<1>10. Sum(num') = Unit * all
  BY <1>1, <1>3, <1>8, <1>9, SumScaled
<1>11. \A i \in NeroLobe : /\ num'[i] \in 0..d /\ num'[i] > 0
                           /\ num'[i] * (100 + 3 * NeroLobes) >= d
  BY <1>7, <1>8
<1>12. \A i, j \in NeroLobe : scores'[i] >= scores'[j] => num'[i] >= num'[j]
  <2> SUFFICES ASSUME NEW i \in NeroLobe, NEW j \in NeroLobe, scores'[i] >= scores'[j]
               PROVE  num'[i] >= num'[j]
    OBVIOUS
  <2>1. n[j] <= n[i] /\ n[i] \in Int /\ n[j] \in Int
    BY <1>3, <1>8
  <2>2. Unit * n[j] <= Unit * n[i]
    BY <1>1, <2>1, ProductMonotone
  <2> QED
    BY <1>8, <2>2
<1> QED
  BY <1>1, <1>2, <1>6, <1>7, <1>9, <1>10, <1>11, <1>12 DEF SoundTrailer

\* ExpFalls is about constants alone: it is carried along.
TrailerInv == ExpFalls /\ SoundTrailer

(* Rust's decoder takes every trailer NERO makes, its weights within a      *)
(* twentieth of a simplex through two normalisations, their epsilons and    *)
(* the floor between them, and no lobe is silenced in it, for any number of *)
(* lobes, activity, inhibition and falling exponential (update_relevance!,  *)
(* synapse_conductor.jl:126; ReadoutPacket::decode, binary_wire.rs:210).    *)
THEOREM TheTrailersAreSound == ExpFalls /\ Spec => []TrailerSound
<1>1. ExpFalls /\ Init => TrailerInv
  BY EqualIsSound DEF Init, TrailerInv
<1>2. TrailerInv /\ [Next]_vars => TrailerInv'
  <2> SUFFICES ASSUME TrailerInv, [Next]_vars PROVE TrailerInv'
    OBVIOUS
  <2>1. CASE Next
    <3>1. PICK activity \in [NeroLobe -> Activities] : Conductor!UpdateRelevance(activity)
      BY <2>1, NeroNumbers DEF Next, Conductor!Next
    <3>2. SoundTrailer'
      BY <3>1, TickIsSound DEF TrailerInv
    <3> QED
      BY <3>2 DEF TrailerInv, ExpFalls
  <2>2. CASE UNCHANGED vars
    BY <2>2 DEF TrailerInv, ExpFalls, SoundTrailer, vars
  <2> QED
    BY <2>1, <2>2
<1>3. TrailerInv => TrailerSound
  BY SoundIsAccepted DEF TrailerInv
<1> QED
  BY <1>1, <1>2, <1>3, PTL DEF Spec

-----------------------------------------------------------------------------
AllScoresFinite(q) == \A i \in 1..Pairs : Finite(Score(q, i))

\* i is the first of the pairs with the largest score.
IsPrimary(q, i) ==
  /\ i \in 1..Pairs
  /\ \A j \in 1..Pairs : /\ Abs(Score(q, j)) <= Abs(Score(q, i))
                         /\ j < i => Abs(Score(q, j)) < Abs(Score(q, i))

LEMMA PrimaryIs ==
  ASSUME NEW q \in Packets, AllScoresFinite(q)
  PROVE  IsPrimary(q, Primary(q)) /\ \A i : IsPrimary(q, i) => i = Primary(q)
<1> DEFINE strength == [j \in 1..Pairs |-> Abs(Score(q, j))]
<1>1. \A j \in 1..Pairs : Abs(Score(q, j)) \in Int
  BY ScoreIs, WireAssumption DEF AllScoresFinite
<1>2. strength \in [1..Pairs -> Int] /\ \A j \in 1..Pairs : strength[j] = Abs(Score(q, j))
  BY <1>1
<1> HIDE DEF strength
<1>3. Pairs \in Nat \ {0}
  BY WireAssumption
<1>4. PICK top \in 1..Pairs : \A j \in 1..Pairs : strength[j] <= strength[top]
  BY <1>2, <1>3, LargestExists
<1> DEFINE Tops == {i \in 1..Pairs : strength[i] = strength[top]}
<1>5. top \in Tops /\ Tops \in SUBSET Nat /\ Tops # {}
  BY <1>3
<1>6. PICK first \in Tops : \A i \in Tops : first <= i
  BY <1>5, LeastNatural
<1>7. \A j \in 1..Pairs : /\ strength[j] <= strength[first]
                          /\ j < first => strength[j] < strength[first]
  <2> SUFFICES ASSUME NEW j \in 1..Pairs
               PROVE  /\ strength[j] <= strength[first]
                      /\ j < first => strength[j] < strength[first]
    OBVIOUS
  <2>1. /\ strength[j] \in Int /\ strength[top] \in Int /\ strength[first] = strength[top]
        /\ strength[j] <= strength[top] /\ first \in 1..Pairs
    BY <1>2, <1>4
  <2>2. strength[j] = strength[top] => first <= j
    BY <1>6
  <2> QED
    BY <1>3, <2>1, <2>2
<1>8. IsPrimary(q, first)
  BY <1>2, <1>7 DEF IsPrimary
<1>9. ASSUME NEW i, IsPrimary(q, i), NEW k, IsPrimary(q, k) PROVE i = k
  <2>1. i \in 1..Pairs /\ k \in 1..Pairs
    BY <1>9 DEF IsPrimary
  <2>2. /\ Abs(Score(q, i)) \in Int /\ Abs(Score(q, k)) \in Int
        /\ Abs(Score(q, i)) <= Abs(Score(q, k)) /\ Abs(Score(q, k)) <= Abs(Score(q, i))
        /\ i < k => Abs(Score(q, i)) < Abs(Score(q, k))
        /\ k < i => Abs(Score(q, k)) < Abs(Score(q, i))
    BY <1>1, <1>9, <2>1 DEF IsPrimary
  <2> HIDE DEF Abs
  <2> QED
    BY <1>3, <2>1, <2>2
<1>10. Primary(q) = CHOOSE i \in 1..Pairs : IsPrimary(q, i)
  BY DEF Primary, IsPrimary
<1>11. IsPrimary(q, Primary(q))
  BY <1>8, <1>10 DEF IsPrimary
<1> QED
  BY <1>9, <1>11

LEMMA ReadoutReplaced ==
  ASSUME NEW out, NEW weights, NEW new
  PROVE  [[readout |-> out, relevance |-> weights] EXCEPT !.readout = new]
           = [readout |-> new, relevance |-> weights]
  OBVIOUS

(* Exchanging every bull with its bear turns every score around.           *)
LEMMA MirroredIs ==
  ASSUME NEW q \in Packets
  PROVE  /\ Mirrored(q) \in Packets /\ Mirrored(q).relevance = q.relevance
         /\ \A i \in 1..Pairs : /\ Mirrored(q).readout[2 * i - 1] = q.readout[2 * i]
                                /\ Mirrored(q).readout[2 * i] = q.readout[2 * i - 1]
<1> DEFINE swapped == [k \in 1..(2 * Pairs) |-> IF k % 2 = 1 THEN q.readout[k + 1] ELSE q.readout[k - 1]]
<1>1. q.readout \in [1..(2 * Pairs) -> Floats] /\ q.relevance \in [1..Lobes -> Floats]
      /\ q = [readout |-> q.readout, relevance |-> q.relevance]
  BY DEF Packets
<1>2. Mirrored(q) = [readout |-> swapped, relevance |-> q.relevance]
  <2>1. Mirrored(q) = [q EXCEPT !.readout = swapped]
    BY DEF Mirrored
  <2> HIDE DEF swapped
  <2>2. PICK out, weights : out = q.readout /\ weights = q.relevance
    OBVIOUS
  <2>3. q = [readout |-> out, relevance |-> weights]
    BY <1>1, <2>2, Zenon
  <2>4. [[readout |-> out, relevance |-> weights] EXCEPT !.readout = swapped]
          = [readout |-> swapped, relevance |-> weights]
    BY ReadoutReplaced
  <2>5. [q EXCEPT !.readout = swapped] = [[readout |-> out, relevance |-> weights] EXCEPT !.readout = swapped]
    BY <2>3, Zenon
  <2> QED
    BY <2>1, <2>2, <2>4, <2>5, Zenon
<1>3. ASSUME NEW k \in 1..(2 * Pairs)
      PROVE  (IF k % 2 = 1 THEN q.readout[k + 1] ELSE q.readout[k - 1]) \in Floats
  <2>1. (k % 2 = 1 => k + 1 \in 1..(2 * Pairs)) /\ (k % 2 # 1 => k - 1 \in 1..(2 * Pairs))
    BY WireAssumption
  <2> QED
    BY <1>1, <2>1
<1>4. swapped \in [1..(2 * Pairs) -> Floats]
  BY <1>3
<1>5. ASSUME NEW i \in 1..Pairs
      PROVE  swapped[2 * i - 1] = q.readout[2 * i] /\ swapped[2 * i] = q.readout[2 * i - 1]
  <2>1. /\ 2 * i - 1 \in 1..(2 * Pairs) /\ 2 * i \in 1..(2 * Pairs)
        /\ (2 * i - 1) % 2 = 1 /\ (2 * i) % 2 = 0 /\ (2 * i - 1) + 1 = 2 * i
    BY WireAssumption
  <2> QED
    BY <2>1
<1> HIDE DEF swapped
<1> QED
  BY <1>1, <1>2, <1>4, <1>5 DEF Packets

LEMMA MirroredScore ==
  ASSUME NEW q \in Packets, NEW i \in 1..Pairs
  PROVE  /\ Finite(Score(Mirrored(q), i)) <=> Finite(Score(q, i))
         /\ Finite(Score(q, i)) => /\ Score(Mirrored(q), i) = -Score(q, i)
                                   /\ Abs(Score(Mirrored(q), i)) = Abs(Score(q, i))
<1>1. 2 * i - 1 \in 1..(2 * Pairs) /\ 2 * i \in 1..(2 * Pairs)
  BY WireAssumption
<1>2. PICK bull \in Floats, bear \in Floats : bull = q.readout[2 * i - 1] /\ bear = q.readout[2 * i]
  BY <1>1 DEF Packets
<1>3. /\ Score(q, i) = IF Finite(bull) /\ Finite(bear) THEN Rounded(bull - bear) ELSE NonFinite
      /\ Score(Mirrored(q), i) =
           IF Finite(bear) /\ Finite(bull) THEN Rounded(bear - bull) ELSE NonFinite
  BY <1>2, MirroredIs DEF Score
<1>4. CASE ~(Finite(bull) /\ Finite(bear))
  BY <1>3, <1>4 DEF Finite
<1>5. CASE Finite(bull) /\ Finite(bear)
  <2>1. bull \in Int /\ bear \in Int
    BY <1>5 DEF Finite, Floats
  <2>2. Score(q, i) = Rounded(bull - bear) /\ Score(Mirrored(q), i) = Rounded(bear - bull)
    BY <1>3, <1>5
  <2>3. Abs(bull - bear) = Abs(bear - bull) /\ Abs(bull - bear) \in Int
    BY <2>1 DEF Abs
  <2>4. CASE Abs(bull - bear) > MaxFinite
    BY <2>2, <2>3, <2>4 DEF Rounded, Finite
  <2>5. CASE ~(Abs(bull - bear) > MaxFinite)
    <3>1. Score(q, i) = bull - bear /\ Score(Mirrored(q), i) = bear - bull
      BY <2>2, <2>3, <2>5 DEF Rounded
    <3>2. bear - bull = -(bull - bear) /\ bear - bull \in Int /\ bull - bear \in Int
      BY <2>1
    <3> QED
      BY <2>3, <3>1, <3>2, WireAssumption DEF Finite
  <2> QED
    BY <2>4, <2>5
<1> QED
  BY <1>4, <1>5

(* The direction of a one-way readout is the strongest pair's.             *)
LEMMA DirectionIsPrimary ==
  ASSUME NEW q \in Packets, AllScoresFinite(q), NEW i \in 1..Pairs,
         Side(Score(q, i)) # "neutral", AllOneWay(q.readout)
  PROVE  Side(DirectionScore(q.readout)) = Side(Score(q, i))
<1> DEFINE bull(k) == q.readout[2 * k - 1]
           bear(k) == q.readout[2 * k]
           up == [k \in 1..Pairs |-> bull(k) - bear(k)]
           down == [k \in 1..Pairs |-> bear(k) - bull(k)]
<1>1. \A k \in 1..Pairs : bull(k) \in Int /\ bear(k) \in Int /\ Score(q, k) = bull(k) - bear(k)
  BY ScoreIs DEF AllScoresFinite
<1>2. /\ up \in [1..Pairs -> Int] /\ down \in [1..Pairs -> Int]
      /\ \A k \in 1..Pairs : /\ up[k] = bull(k) - bear(k) /\ down[k] = bear(k) - bull(k)
                             /\ up[k] = (-1) * down[k]
  BY <1>1
<1>3. IsFiniteSet(1..Pairs) /\ SideEps \in Nat
  <2>1. 1 \in Int /\ Pairs \in Int
    BY WireAssumption
  <2> QED
    BY <2>1, FS_Interval, WireAssumption
<1>4. DirectionScore(q.readout) = Sum(up)
  BY WireTotal DEF DirectionScore
<1>5. \/ \A k \in 1..Pairs : bull(k) >= bear(k)
      \/ \A k \in 1..Pairs : bull(k) <= bear(k)
  BY DEF AllOneWay
<1> HIDE DEF bull, bear, up, down
<1>6. Score(q, i) = up[i] /\ up[i] \in Int /\ bull(i) \in Int /\ bear(i) \in Int
      /\ up[i] = bull(i) - bear(i) /\ down[i] = bear(i) - bull(i)
  BY <1>1, <1>2
<1>7. Side(up[i]) # "neutral"
  BY <1>6
<1>8. CASE up[i] > SideEps
  <2>1. \A k \in 1..Pairs : bull(k) >= bear(k)
    <3>1. ~(bull(i) <= bear(i))
      BY <1>3, <1>6, <1>8
    <3> QED
      BY <1>5, <3>1
  <2>2. up \in [1..Pairs -> Nat]
    <3>1. \A k \in 1..Pairs : up[k] \in Nat
      BY <1>1, <1>2, <2>1
    <3> QED
      BY <1>2, <3>1
  <2>3. Sum(up) \in Nat /\ up[i] <= Sum(up)
    BY <1>3, <2>2, SumOfNaturals
  <2>4. Sum(up) > SideEps
    BY <1>3, <1>6, <1>8, <2>3
  <2>5. Side(Sum(up)) = "buy" /\ Side(up[i]) = "buy"
    BY <1>8, <2>4 DEF Side
  <2> QED
    BY <1>4, <1>6, <2>5
<1>9. CASE up[i] < -SideEps
  <2>1. \A k \in 1..Pairs : bull(k) <= bear(k)
    <3>1. ~(bull(i) >= bear(i))
      BY <1>3, <1>6, <1>9
    <3> QED
      BY <1>5, <3>1
  <2>2. down \in [1..Pairs -> Nat]
    <3>1. \A k \in 1..Pairs : down[k] \in Nat
      BY <1>1, <1>2, <2>1
    <3> QED
      BY <1>2, <3>1
  <2>3. Sum(down) \in Nat /\ down[i] <= Sum(down)
    BY <1>3, <2>2, SumOfNaturals
  <2>4. PICK c \in Int : c = -1
    OBVIOUS
  <2>5. \A k \in 1..Pairs : up[k] = c * down[k]
    BY <1>2, <2>4
  <2>6. Sum(up) = c * Sum(down)
    <3>1. up \in [1..Pairs -> Int] /\ down \in [1..Pairs -> Int] /\ c \in Int
      BY <1>2
    <3> QED
      BY ONLY <1>3, <2>5, <3>1, SumScaled, ZenonT(60)
  <2>7. Sum(up) \in Int /\ Sum(up) < -SideEps /\ ~(Sum(up) > SideEps)
    BY <1>3, <1>6, <1>9, <2>3, <2>4, <2>6
  <2>8. ~(up[i] > SideEps)
    BY <1>3, <1>6, <1>9
  <2>9. Side(Sum(up)) = "sell" /\ Side(up[i]) = "sell"
    BY <1>9, <2>7, <2>8 DEF Side
  <2> QED
    BY <1>4, <1>6, <2>9
<1> QED
  BY <1>7, <1>8, <1>9 DEF Side

(* Mirrored packets have the same primary pair, the same strength, and are *)
(* opposed in direction.                                                   *)
LEMMA MirroredTrade ==
  ASSUME NEW q \in Packets
  PROVE  ReadoutToTrade(Mirrored(q)) =
           [ReadoutToTrade(q) EXCEPT !.side = Opposite(@)]
<1> DEFINE m == Mirrored(q)
           overflown(r) == {i \in 1..Pairs : ~Finite(Score(r, i))}
<1>1. m \in Packets /\ m.relevance = q.relevance
  BY MirroredIs
<1>2. overflown(m) = overflown(q)
  BY MirroredScore
<1>3. ASSUME NEW i PROVE [NeutralTrade(i) EXCEPT !.side = Opposite(@)] = NeutralTrade(i)
  BY DEF NeutralTrade, Opposite
<1>4. CASE overflown(q) # {}
  <2> DEFINE first(set) == CHOOSE i \in set : \A j \in set : i <= j
  <2>1. ReadoutToTrade(q) = NeutralTrade(first(overflown(q)))
    BY <1>4 DEF ReadoutToTrade
  <2>2. ReadoutToTrade(m) = NeutralTrade(first(overflown(m)))
    BY <1>2, <1>4 DEF ReadoutToTrade
  <2> HIDE DEF first, overflown, m
  <2>3. ReadoutToTrade(m) = ReadoutToTrade(q)
    BY <1>2, <2>1, <2>2
  <2> QED
    BY <1>3, <2>1, <2>3 DEF m
<1>5. CASE overflown(q) = {}
  <2>1. AllScoresFinite(q) /\ AllScoresFinite(m)
    BY <1>2, <1>5 DEF AllScoresFinite
  <2>2. \A i \in 1..Pairs : /\ Score(q, i) \in Int /\ Score(m, i) = -Score(q, i)
                            /\ Abs(Score(m, i)) = Abs(Score(q, i))
    BY <2>1, ScoreIs, MirroredScore DEF AllScoresFinite
  <2> HIDE DEF m
  <2>3. \A i : IsPrimary(m, i) <=> IsPrimary(q, i)
    BY <2>2 DEF IsPrimary
  <2>4. PICK i \in 1..Pairs : i = Primary(q) /\ i = Primary(m)
    <3>1. IsPrimary(q, Primary(q))
      BY <2>1, PrimaryIs
    <3>2. Primary(q) = Primary(m)
      BY <1>1, <2>1, <2>3, <3>1, PrimaryIs
    <3> QED
      BY <3>1, <3>2 DEF IsPrimary
  <2>5. SquaredNorm(m) = SquaredNorm(q)
    <3>1. \A k \in 1..Pairs : Score(m, k) * Score(m, k) = Score(q, k) * Score(q, k)
      <4> SUFFICES ASSUME NEW k \in 1..Pairs
                   PROVE  Score(m, k) * Score(m, k) = Score(q, k) * Score(q, k)
        OBVIOUS
      <4>1. PICK s \in Int : s = Score(q, k) /\ Score(m, k) = -s
        BY <2>2
      <4>2. (-s) * (-s) = s * s
        OBVIOUS
      <4> QED
        BY <4>1, <4>2
    <3>2. [k \in 1..Pairs |-> Score(m, k) * Score(m, k)] = [k \in 1..Pairs |-> Score(q, k) * Score(q, k)]
      BY <3>1
    <3> QED
      BY <3>2 DEF SquaredNorm
  <2>6. MaxRelevance(m) = MaxRelevance(q)
    BY <1>1 DEF MaxRelevance
  <2>7. Side(Score(m, i)) = Opposite(Side(Score(q, i)))
    <3>1. PICK s \in Int : s = Score(q, i) /\ Score(m, i) = -s
      BY <2>2
    <3>2. Side(-s) = Opposite(Side(s))
      <4>1. SideEps \in Nat
        BY WireAssumption
      <4>2. CASE s > SideEps
        BY <4>1, <4>2 DEF Side, Opposite
      <4>3. CASE s < -SideEps
        BY <4>1, <4>3 DEF Side, Opposite
      <4>4. CASE ~(s > SideEps) /\ ~(s < -SideEps)
        BY <4>1, <4>4 DEF Side, Opposite
      <4> QED
        BY <4>2, <4>3, <4>4
    <3> QED
      BY <3>1, <3>2
  <2>8. CASE ~Finite(SquaredNorm(q)) \/ ~WeightSimplex(q.relevance)
    <3>1. ReadoutToTrade(q) = NeutralTrade(i)
      BY <1>5, <2>4, <2>8 DEF ReadoutToTrade
    <3>2. ReadoutToTrade(m) = NeutralTrade(i)
      BY <1>1, <1>2, <1>5, <2>4, <2>5, <2>8 DEF ReadoutToTrade
    <3> QED
      BY <1>3, <3>1, <3>2 DEF m
  <2>9. CASE ~(~Finite(SquaredNorm(q)) \/ ~WeightSimplex(q.relevance))
    <3> DEFINE confidence == Clamp(MaxRelevance(q) * Tanh(SquaredNorm(q)), 0, One * One)
    <3>1. ReadoutToTrade(q) = [pair |-> i, side |-> Side(Score(q, i)), confidence |-> confidence]
      BY <1>5, <2>4, <2>9 DEF ReadoutToTrade
    <3>2. ReadoutToTrade(m) = [pair |-> i, side |-> Side(Score(m, i)), confidence |-> confidence]
      BY <1>1, <1>2, <1>5, <2>4, <2>5, <2>6, <2>9 DEF ReadoutToTrade
    <3> HIDE DEF confidence
    <3>3. ASSUME NEW side, NEW other, other = Opposite(side)
          PROVE  [[pair |-> i, side |-> side, confidence |-> confidence] EXCEPT !.side = Opposite(@)]
                   = [pair |-> i, side |-> other, confidence |-> confidence]
      BY <3>3
    <3> QED
      BY <2>7, <3>1, <3>2, <3>3 DEF m
  <2> QED
    BY <2>8, <2>9
<1> QED
  BY <1>4, <1>5

(* A directed trade is about a pair no other outweighs, follows that pair's *)
(* sign, and so does the direction a run is graded on where the pairs       *)
(* agree; exchanging every bull with its bear reverses the side and changes *)
(* nothing else (readout_to_trade, binary_wire.rs:309; direction_score,     *)
(* metrics.jl:54).                                                          *)
THEOREM TradesFollowTheStrongestPair == Spec => []FollowsTheStrongestPair
<1>1. ASSUME InputTypes PROVE FollowsTheStrongestPair
  <2> DEFINE trade == ReadoutToTrade(packet)
             bull == packet.readout[2 * trade.pair - 1]
             bear == packet.readout[2 * trade.pair]
             i == Primary(packet)
  <2>1. packet \in Packets
    BY <1>1 DEF InputTypes
  <2>2. ASSUME trade.side # "neutral"
        PROVE  /\ trade.side = IF bull > bear THEN "buy" ELSE "sell"
               /\ \A k \in 1..Pairs :
                    Abs(packet.readout[2 * k - 1] - packet.readout[2 * k]) <= Abs(bull - bear)
               /\ AllOneWay(packet.readout) => Side(DirectionScore(packet.readout)) = trade.side
    <3>1. \A k : NeutralTrade(k).side = "neutral"
      BY DEF NeutralTrade
    <3>2. AllScoresFinite(packet) /\ trade.pair = i /\ trade.side = Side(Score(packet, i))
      <4> SUFFICES ASSUME ~(/\ AllScoresFinite(packet) /\ trade.pair = i
                            /\ trade.side = Side(Score(packet, i)))
                   PROVE  \E k : trade = NeutralTrade(k)
        BY <2>2, <3>1
      <4> HIDE DEF NeutralTrade, SquaredNorm, WeightSimplex, Primary, MaxRelevance, Side, Score, Finite
      <4> QED
        BY DEF ReadoutToTrade, AllScoresFinite
    <3>3. /\ IsPrimary(packet, i) /\ i \in 1..Pairs
          /\ \A k \in 1..Pairs : Abs(Score(packet, k)) <= Abs(Score(packet, i))
      BY <2>1, <3>2, PrimaryIs DEF IsPrimary
    <3>4. \A k \in 1..Pairs : /\ packet.readout[2 * k - 1] \in Int /\ packet.readout[2 * k] \in Int
                              /\ Score(packet, k) = packet.readout[2 * k - 1] - packet.readout[2 * k]
      BY <2>1, <3>2, ScoreIs DEF AllScoresFinite
    <3>5. Side(Score(packet, i)) # "neutral"
      BY <2>2, <3>2
    <3>6. AllOneWay(packet.readout) => Side(DirectionScore(packet.readout)) = trade.side
      BY <2>1, <3>2, <3>3, <3>5, DirectionIsPrimary
    <3>7. bull \in Int /\ bear \in Int /\ Score(packet, i) = bull - bear
      BY <3>2, <3>3, <3>4
    <3>8. \A k \in 1..Pairs :
            Abs(packet.readout[2 * k - 1] - packet.readout[2 * k]) <= Abs(bull - bear)
      BY <3>3, <3>4, <3>7
    <3> HIDE DEF bull, bear, trade, i
    <3>9. trade.side = IF bull > bear THEN "buy" ELSE "sell"
      <4>1. SideEps \in Nat /\ Side(bull - bear) # "neutral" /\ trade.side = Side(bull - bear)
        BY <3>2, <3>5, <3>7, WireAssumption
      <4>2. CASE bull > bear
        <5>1. ~(bull - bear < -SideEps)
          BY <3>7, <4>1, <4>2
        <5> QED
          BY <4>1, <4>2, <5>1 DEF Side
      <4>3. CASE ~(bull > bear)
        <5>1. ~(bull - bear > SideEps)
          BY <3>7, <4>1, <4>3
        <5> QED
          BY <4>1, <4>3, <5>1 DEF Side
      <4> QED
        BY <4>2, <4>3
    <3> QED
      BY <3>6, <3>8, <3>9
  <2>3. ReadoutToTrade(Mirrored(packet)) = [trade EXCEPT !.side = Opposite(@)]
    BY <2>1, MirroredTrade
  <2> QED
    BY <2>2, <2>3 DEF FollowsTheStrongestPair
<1> QED
  BY <1>1, InputsTyped, PTL
===============================================================================
