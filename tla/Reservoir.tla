----------------------------- MODULE Reservoir -----------------------------
(***************************************************************************)
(* The spiking reservoir: reservoir_step! of brain/reservoir.jl over the   *)
(* EnsembleBrain of brain/naut_core.jl, and the stress map of              *)
(* brain/hft_inhibition.jl.  One action steps every lobe once.             *)
(*                                                                         *)
(* Membrane noise is Gaussian, so the potential of an integrating neuron   *)
(* may become any level.  Of a lobe's readout the model keeps whether some *)
(* value of it is positive, which only a lobe that spiked can have; of the *)
(* readout weights of a neuron, how much learning has raised them (a raise *)
(* may be lost to rounding or to the bound).                               *)
(*                                                                         *)
(* Units: inhibition 1/200; potential 1/40 mV; temperature Celsius; load   *)
(* percent; funding rates 1e-5; liquidations 1e6; OI delta 5e-4; reflex    *)
(* signals 1/10; weights what ETA adds once.                               *)
(***************************************************************************)
EXTENDS Integers, Sequences

CONSTANTS Lobes,      \* the lobes
          Scalper,    \* the first of them
          Neurons,    \* neurons of a lobe
          Levels,     \* potentials a neuron may integrate to
          VThresh,    \* V_THRESH
          VReset,     \* V_RESET
          VRest,      \* V_REST
          Gain,       \* INHIB_GAIN, per unit of inhibition
          RefracT,    \* REFRAC_T
          HistDepth,  \* HIST_DEPTH
          LearnEvery, \* ticks from one learning to the next, 10
          WMax,       \* W_MAX, as a rise
          Reflexes,   \* liquidity deltas, and excess intensities, of a tick
          Stresses,   \* the stress fields a pulse may carry
          AllStresses,\* the stress fields the map is compared on
          MaxTicks    \* bound on the ticks

\* The fields of a pulse the stress map reads.
StressFields == [temp : Int, load : Int, funding : Int, liquidation : Int,
                 dydxFunding : Int, oiDelta : Int]

ASSUME ReservoirAssumption == /\ Levels \subseteq Int
                              /\ VThresh \in Int
                              /\ VReset \in Int
                              /\ VRest \in Int
                              /\ VReset < VThresh
                              /\ Gain \in Nat
                              /\ RefracT \in Nat
                              /\ HistDepth \in Nat \ {0}
                              /\ Scalper \in Lobes
                              /\ LearnEvery \in Nat \ {0}
                              /\ WMax \in Nat
                              /\ Reflexes \subseteq Int
                              /\ Stresses \subseteq StressFields
                              /\ AllStresses \subseteq StressFields
                              /\ MaxTicks \in Nat

VARIABLES tick,      \* tick_count, the same in every lobe
          v,         \* V
          refrac,    \* the refractory counters
          threshold, \* v_thresh_dynamic
          history,   \* the circular spike history, a row per tick
          histIdx,   \* hist_idx
          histFull,  \* hist_full
          traced,    \* the cells whose traces are not 0
          output,    \* the lobes whose output has a positive value
          weight,    \* how much the W_out of each cell has risen
          log        \* the cells that spiked at each tick, all of them

vars == <<tick, v, refrac, threshold, history, histIdx, histFull,
          traced, output, weight, log>>

Cells == Lobes \X Neurons

Clamp(x, lo, hi) == IF x < lo THEN lo ELSE IF x > hi THEN hi ELSE x
Abs(x) == IF x < 0 THEN -x ELSE x
If(condition, x) == IF condition THEN x ELSE 0

\* Mutated HftInhibition: open interest adds to the stress.
HftInhibitionOiAdds(s) ==
  Clamp(If(s.temp > 75, 8 * (s.temp - 75)) + Clamp(s.oiDelta, -100, 100), 0, 600)

\* hft_inhibition: hardware and market stress add up, OI arousal calms.
HftInhibition(s) ==
  LET stress == If(s.temp > 75, 8 * (s.temp - 75))
              + If(s.load > 80, 10 * (s.load - 80))
              + If(Abs(s.funding) > 50, Clamp(2 * Abs(s.funding), 0, 300))
              + If(s.liquidation > 10, Clamp(4 * s.liquidation, 0, 200))
              + If(Abs(s.dydxFunding) > 30, Clamp(2 * Abs(s.dydxFunding), 0, 200))
  IN Clamp(stress - Clamp(s.oiDelta, -100, 100), 0, 600)

Init == /\ tick = 0
        /\ v = [c \in Cells |-> VRest]
        /\ refrac = [c \in Cells |-> 0]
        /\ threshold = VThresh
        /\ history = [i \in 1..HistDepth |-> {}]
        /\ histIdx = 1
        /\ histFull = FALSE
        /\ traced = {}
        /\ output = {}
        /\ weight = [c \in Cells |-> 0]
        /\ log = <<>>

\* step!, 1: the threshold the inhibition raises.
Threshold(inhibition) == VThresh + Clamp(inhibition, 0, 600) * Gain

\* step!, 2: a neuron that is refractory does not integrate.
Membrane(drive) == [c \in Cells |-> IF refrac[c] <= 0 THEN drive[c] ELSE v[c]]

\* Mutated Fire: the counters of this tick's spikes are decremented too.
FireThenDecrement(membrane, spiked) ==
  /\ v' = [c \in Cells |-> IF c \in spiked THEN VReset ELSE membrane[c]]
  /\ refrac' = [c \in Cells |-> Clamp((IF c \in spiked THEN RefracT ELSE refrac[c]) - 1, 0, RefracT)]

\* step!, 3: reset and refractory counter of the neurons that spiked.
Fire(membrane, spiked) ==
  /\ v' = [c \in Cells |-> IF c \in spiked THEN VReset ELSE membrane[c]]
  /\ refrac' = [c \in Cells |-> IF c \in spiked THEN RefracT ELSE Clamp(refrac[c] - 1, 0, RefracT)]

\* Mutated RecordHistory: hist_full a tick early.
RecordHistoryEarly(spiked) ==
  /\ history' = [history EXCEPT ![histIdx] = spiked]
  /\ histIdx' = IF histIdx + 1 > HistDepth THEN 1 ELSE histIdx + 1
  /\ histFull' = (histFull \/ histIdx + 1 >= HistDepth)

\* step!, 4: the row is written at hist_idx, which wraps.
RecordHistory(spiked) ==
  /\ history' = [history EXCEPT ![histIdx] = spiked]
  /\ histIdx' = IF histIdx + 1 > HistDepth THEN 1 ELSE histIdx + 1
  /\ histFull' = (histFull \/ histIdx + 1 > HistDepth)

\* The main loop's reflex signal, and the learning rates ensemble_step! makes of
\* it: a signal over 0.1 in size is worth 5 times ETA to the Scalper.
Reflex(liquidity, excess) == IF liquidity > excess THEN liquidity ELSE excess
Eta(lobe, signal) == IF lobe = Scalper /\ Abs(signal) > 1 THEN 5 ELSE 1

\* step!, 6: the readout of the spikes.
ReadOut(spiked) == output' \in SUBSET {c[1] : c \in spiked}

Raised(cells, signal) ==
  \E raised \in SUBSET cells :
    weight' = [c \in Cells |-> IF c \in raised THEN Clamp(weight[c] + Eta(c[1], signal), 0, WMax)
                               ELSE weight[c]]

\* Mutated Learn: the readout of this tick is what is learned from.
LearnFromNow(spiked, signal) ==
  /\ traced' = traced \cup spiked
  /\ IF tick' % LearnEvery = 0 THEN Raised({c \in traced' : c[1] \in output'}, signal)
                               ELSE UNCHANGED weight

\* step!, 5: every LearnEvery ticks, before the readout, the weights from cells
\* with a trace to outputs that were positive at the last tick rise.
Learn(spiked, signal) ==
  /\ traced' = traced \cup spiked
  /\ IF tick' % LearnEvery = 0 THEN Raised({c \in traced' : c[1] \in output}, signal)
                               ELSE UNCHANGED weight

ReservoirStep(stress, signal) ==
  /\ tick < MaxTicks
  /\ tick' = tick + 1
  /\ threshold' = Threshold(HftInhibition(stress))
  /\ \E drive \in [Cells -> Levels] :
       LET spiked == {c \in Cells : Membrane(drive)[c] > threshold'}
       IN /\ Fire(Membrane(drive), spiked)
          /\ RecordHistory(spiked)
          /\ ReadOut(spiked)
          /\ Learn(spiked, signal)
          /\ log' = Append(log, spiked)

Next == \E stress \in Stresses, liquidity \in Reflexes, excess \in Reflexes :
          excess >= 0 /\ ReservoirStep(stress, Reflex(liquidity, excess))

Spec == Init /\ [][Next]_vars

-----------------------------------------------------------------------------
\* A neuron rests REFRAC_T full ticks after a spike, whatever the inhibition
\* and the noise: the threshold never sinks to the reset potential.
Refractory ==
  \A j, k \in 1..Len(log) :
    j < k /\ k <= j + RefracT => log[j] \cap log[k] = {}

\* The circular history holds exactly the last HIST_DEPTH ticks, each at its
\* row, and hist_full says whether every row is one: the covariance, gated on
\* it, never averages a row nobody wrote.
HistoryExact ==
  /\ histFull <=> tick >= HistDepth
  /\ histIdx = (tick % HistDepth) + 1
  /\ \A i \in 1..HistDepth :
       history[i] = IF \E t \in 1..tick : t % HistDepth = i % HistDepth
                      THEN log[CHOOSE t \in 1..tick : /\ t % HistDepth = i % HistDepth
                                                      /\ t + HistDepth > tick]
                      ELSE {}

\* What a step may do to the weights.
LearnedFromLastReadout ==
  \A c \in Cells : weight'[c] # weight[c] =>
    /\ tick' % LearnEvery = 0
    /\ tick > 0 /\ \E n \in Neurons : <<c[1], n>> \in log[tick]
    /\ \E t \in 1..tick' : c \in log'[t]
    /\ weight'[c] > weight[c]
    /\ c[1] # Scalper => weight'[c] = weight[c] + 1

\* A neuron's readout is learned only from what came before the learning tick:
\* its lobe fired one tick earlier, itself at any time so far.  A lobe silent on
\* that tick learns nothing, whatever liquidity event comes with the next; the
\* rule never unlearns; and only the Scalper learns faster than ETA.
LearnsFromLastReadout == [][LearnedFromLastReadout]_vars

\* s is no more stressed than t, in every field.
Worse(s, t) == /\ s.temp <= t.temp
               /\ s.load <= t.load
               /\ Abs(s.funding) <= Abs(t.funding)
               /\ s.liquidation <= t.liquidation
               /\ Abs(s.dydxFunding) <= Abs(t.dydxFunding)
               /\ s.oiDelta >= t.oiDelta

\* More stress never lowers the threshold, and more OI accumulation never
\* raises it, across every gate and clamp of the map (a fact about the map
\* alone, evaluated once).
StressNeverCalms ==
  tick = 0 => \A s, t \in AllStresses :
    Worse(s, t) => Threshold(HftInhibition(s)) <= Threshold(HftInhibition(t))

=============================================================================
