--------------------------- MODULE FormulaChecks ---------------------------
(***************************************************************************)
(* The numeric stages on the way from a frame to a stake, over bounded     *)
(* inputs: a state is one pulse frame, one readout packet, one pair of a   *)
(* probability and a payoff ratio, one answer of the dYdX market, refused  *)
(* ones included, or a state of the NERO orchestrator, which makes the     *)
(* trailer of the packets.                                                 *)
(***************************************************************************)
EXTENDS NervousWire

CONSTANTS ScalarNum, ScalarDen, \* kelly_fraction_scalar
          PulseFloats,          \* values of a pulse field
          ReadoutFloats,        \* values of a readout field
          Weights,              \* values of a relevance weight
          Probabilities,        \* values of a win probability
          Payoffs,              \* values of a payoff ratio
          MarketPrices,         \* values of a dYdX price
          Depths,               \* depths of an order book
          Missing,              \* a field that is not there
          NeroLobes, Activities, Inhibit, Momentum, Unit, Epsilon, Exp(_),
          MaxTicks              \* as in Nero

Sizing == INSTANCE Kelly
Dydx == INSTANCE DydxQuote

VARIABLES frame, packet, p, b,   \* the inputs of the pure functions
          market, depth,
          tick, num, den, scores \* NERO's state

Conductor == INSTANCE Nero WITH Lobes <- NeroLobes

ASSUME FormulaAssumption ==
  /\ PulseFloats \cup ReadoutFloats \cup Weights \cup Probabilities \cup Payoffs
       \subseteq Int \cup {NonFinite}
  /\ MarketPrices \subseteq Int \cup {NonFinite, Missing}
  /\ Depths \subseteq Nat
  /\ ScalarNum \in Nat /\ ScalarDen \in Nat \ {0}
ASSUME ConductorAssumption == Conductor!NeroConstants
ASSUME DydxAssumption == Dydx!QuoteConstants

inputs == <<frame, packet, p, b, market, depth>>
vars == <<inputs, tick, num, den, scores>>

ZeroFrame == [k \in 1..(2 * Assets + Others) |-> 0]
ZeroPacket == [readout |-> [k \in 1..(2 * Pairs) |-> 0], relevance |-> [i \in 1..Lobes |-> 0]]

NoMarket == [oracle |-> Missing, index |-> Missing]

NoFrame == frame = ZeroFrame
NoPacket == packet = ZeroPacket
NoStake == p = 0 /\ b = 0
NoAnswer == market = NoMarket /\ depth = 0
NoInput == NoFrame /\ NoPacket /\ NoStake /\ NoAnswer

Init == /\ \/ /\ frame \in [1..(2 * Assets + Others) -> PulseFloats]
              /\ NoPacket /\ NoStake /\ NoAnswer
           \/ /\ packet \in [readout : [1..(2 * Pairs) -> ReadoutFloats],
                             relevance : [1..Lobes -> Weights]]
              /\ NoFrame /\ NoStake /\ NoAnswer
           \/ /\ p \in Probabilities /\ b \in Payoffs
              /\ NoFrame /\ NoPacket /\ NoAnswer
           \/ /\ market \in [oracle : MarketPrices, index : MarketPrices]
              /\ depth \in Depths
              /\ NoFrame /\ NoPacket /\ NoStake
        /\ Conductor!Init

\* Only NERO has a state of its own.
Next == NoInput /\ Conductor!Next /\ UNCHANGED inputs

Spec == Init /\ [][Next]_vars

-----------------------------------------------------------------------------
\* Rust and Julia accept the same pulse frames and read the same values out of
\* them, each with its own index arithmetic (binary_wire.rs against
\* market_types.jl), and what they let through is packed and decoded again
\* without a change: clamping is stable and no field changes its place.
DecodersAgree ==
  LET rust == RustDecodePulse(frame)
      julia == JuliaDecodePulse(frame)
  IN /\ rust.ok = julia.ok
     /\ rust.ok => /\ PackPulse(rust.value) = julia.value
                   /\ RustDecodePulse(julia.value) = rust
                   /\ JuliaDecodePulse(julia.value) = julia

\* Only a packet whose every derived value is finite and whose trailer is a
\* weight simplex trades with any confidence: what decode would refuse, and
\* what overflows after decode, is neutral with confidence 0.
FailsClosed ==
  LET trade == ReadoutToTrade(packet)
  IN trade.confidence > 0 \/ trade.side # "neutral" =>
       /\ RustDecodeReadout(packet).ok
       /\ \A i \in 1..Pairs : Finite(Score(packet, i))
       /\ Finite(SquaredNorm(packet))

Mirrored(packet_) == [packet_ EXCEPT !.readout =
  [k \in 1..(2 * Pairs) |-> IF k % 2 = 1 THEN @[k + 1] ELSE @[k - 1]]]
Opposite(side) == IF side = "buy" THEN "sell" ELSE IF side = "sell" THEN "buy" ELSE "neutral"

\* A directed trade is about a pair no other pair outweighs, follows the sign of
\* that pair's own bull - bear, and is reversed, and nothing else, by exchanging
\* every bull with its bear.  The direction a research run is graded on
\* (metrics.jl, the sum over all pairs) is the one traded on, unless the pairs
\* disagree among themselves.
AllOneWay(output) ==
  \/ \A i \in 1..Pairs : output[2 * i - 1] >= output[2 * i]
  \/ \A i \in 1..Pairs : output[2 * i - 1] <= output[2 * i]

FollowsTheStrongestPair ==
  LET trade == ReadoutToTrade(packet)
      bull == packet.readout[2 * trade.pair - 1]
      bear == packet.readout[2 * trade.pair]
  IN /\ trade.side # "neutral" =>
          /\ trade.side = IF bull > bear THEN "buy" ELSE "sell"
          /\ \A i \in 1..Pairs :
               Abs(packet.readout[2 * i - 1] - packet.readout[2 * i]) <= Abs(bull - bear)
          /\ AllOneWay(packet.readout) => Side(DirectionScore(packet.readout)) = trade.side
     /\ ReadoutToTrade(Mirrored(packet)) = [trade EXCEPT !.side = Opposite(@)]

\* The Kelly fraction is the one that maximises p*log(1 + b*f) + q*log(1 - f):
\* the derivative's numerator p*b*(1-f) - q*(1 + b*f) is zero at an interior
\* fraction, not positive at 0, and only certainty bets everything.  Inputs that
\* are no probability, or odds that are not positive, size to nothing.
GrowthOptimal ==
  LET n == Sizing!CalculateFraction(p, b)
      d == Sizing!FullDen(b)
      q == One - p
  IN IF Sizing!Valid(p, b)
       THEN /\ n \in 0..d
            /\ n \in 1..(d - 1) => p * b * (d - n) = q * (One * d + b * n)
            /\ n = 0 => p * b <= q * One
            /\ n = d => p = One
       ELSE n = 0

\* The offline CLI (market_kelly.jl:5 "do not fork a third formula") never
\* stakes more than the engine would at the same scalar, unless it prints the
\* floor of its pilot or of an under-specified call; both stay within the scalar.
CliNeverStakesMore ==
  Sizing!Valid(p, b) /\ 100 * p >= One =>
    /\ Sizing!CliPrinted(p, b, FALSE) <= Sizing!FractionalKelly(p, b)
    /\ Sizing!FractionalKelly(p, b) * ScalarDen <= ScalarNum * Sizing!FracDen(b)

\* At the odds the engine is built with, or shorter ones, whatever it stakes on
\* is in the top tier: the tiers below name stakes that are never made.
StakesAreAggressive ==
  /\ b \in 1..(One \div 19)
  /\ Sizing!CalculateFraction(p, b) > 0
  => Sizing!RiskTier(p) = "aggressive"

\* A stake is the growth-optimal one or less, in the engine and in the CLI, and
\* labelled as one.
StakesSound == GrowthOptimal /\ CliNeverStakesMore /\ StakesAreAggressive

\* A quote and the order book made of it, each with its own spread and middle,
\* agree: one middle for both, the book a thousandth outside the quote on either
\* side, best level first, never crossed; and a quote without an index is still
\* below the oracle's price.  The relative spread is one number, 2/1999,
\* whatever the market does.
QuoteAndBookAgree ==
  LET quote == Dydx!GetPrice(market)
      book == Dydx!GetOrderbook(quote, depth)
  IN quote.ok /\ quote.bid # NonFinite /\ quote.bid > 0 =>
       /\ 1999 * Dydx!Spread(quote) = Dydx!TwiceMid(quote)
       /\ market.index = Missing => Dydx!TwiceMid(quote) < 2 * market.oracle * Dydx!Tick
       /\ depth > 0 => /\ Dydx!TwiceBookMid(book) = Dydx!TwiceMid(quote)
                       /\ Dydx!BookSpread(book) = Dydx!Spread(quote) + 2 * Dydx!Tick
       /\ \A i, j \in 1..depth :
            /\ i < j => book.bids[i] > book.bids[j] /\ book.asks[i] < book.asks[j]
            /\ book.bids[i] < book.asks[j]

\* Rust's decoder takes every trailer NERO makes, and no lobe is silenced in it
\* by the softmax and its floor (Nero).
TrailerSound == Conductor!TrailerAccepted /\ Conductor!NoLobeSilenced
=============================================================================
