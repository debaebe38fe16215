-------------------------- MODULE Reservoir_proofs --------------------------
(***************************************************************************)
(* Proofs about the reservoir, for any lobes, neurons, levels, refractory  *)
(* period, history depth and learning period, and any stress a pulse may   *)
(* carry.  ReservoirInv says what the counters, the ring, the traces and   *)
(* the readout know of the log of all spikes.                              *)
(***************************************************************************)
EXTENDS Reservoir, SequenceTheorems, Lemmas

ReservoirTypes == /\ tick \in Nat
                  /\ v \in [Cells -> Int]
                  /\ refrac \in [Cells -> 0..RefracT]
                  /\ history \in [1..HistDepth -> SUBSET Cells]
                  /\ histIdx \in 1..HistDepth
                  /\ histFull \in BOOLEAN
                  /\ traced \in SUBSET Cells
                  /\ output \in SUBSET Lobes
                  /\ weight \in [Cells -> 0..WMax]
                  /\ log \in Seq(SUBSET Cells)
                  /\ Len(log) = tick

\* A neuron that spiked less than RefracT ticks ago is still counting, and has
\* not integrated since.
Counting ==
  \A t \in 1..tick : \A c \in log[t] :
    t + RefracT > tick => refrac[c] >= RefracT - (tick - t) /\ v[c] = VReset

\* The row of k ticks ago.
Row(k) == IF histIdx - 1 - k >= 1 THEN histIdx - 1 - k ELSE histIdx - 1 - k + HistDepth

RingInOrder ==
  /\ histFull <=> tick >= HistDepth
  /\ histIdx = (tick % HistDepth) + 1
  /\ \A k \in 0..(HistDepth - 1) :
       history[Row(k)] = IF k < tick THEN log[tick - k] ELSE {}

\* Traces are of cells that spiked, the readout of lobes that just did.
TracesSpiked == \A c \in traced : \E t \in 1..tick : c \in log[t]
OutputSpiked == \A lobe \in output : tick > 0 /\ \E n \in Neurons : <<lobe, n>> \in log[tick]

ReservoirInv == /\ ReservoirTypes
                /\ Counting
                /\ Refractory
                /\ RingInOrder
                /\ TracesSpiked
                /\ OutputSpiked

-----------------------------------------------------------------------------
(* The stress of a pulse is a number, and inhibition only raises the       *)
(* threshold.                                                              *)
LEMMA ClampInRange ==
  ASSUME NEW x \in Int, NEW lo \in Int, NEW hi \in Int, lo <= hi
  PROVE  Clamp(x, lo, hi) \in lo..hi
  BY DEF Clamp

\* The stress of a pulse before open interest calms it, field by field.
HardwareStress(s) == If(s.temp > 75, 8 * (s.temp - 75)) + If(s.load > 80, 10 * (s.load - 80))
FundingStress(s) == If(Abs(s.funding) > 50, Clamp(2 * Abs(s.funding), 0, 300))
LiquidationStress(s) == If(s.liquidation > 10, Clamp(4 * s.liquidation, 0, 200))
DydxStress(s) == If(Abs(s.dydxFunding) > 30, Clamp(2 * Abs(s.dydxFunding), 0, 200))
Arousal(s) == Clamp(s.oiDelta, -100, 100)
Stress(s) == (HardwareStress(s) + FundingStress(s) + LiquidationStress(s) + DydxStress(s)) - Arousal(s)

LEMMA StressParts ==
  ASSUME NEW s \in StressFields
  PROVE  /\ HardwareStress(s) \in Int /\ FundingStress(s) \in Int /\ LiquidationStress(s) \in Int
         /\ DydxStress(s) \in Int /\ Arousal(s) \in Int /\ Stress(s) \in Int
         /\ HftInhibition(s) = Clamp(Stress(s), 0, 600)
         /\ HftInhibition(s) \in 0..600
<1>1. HardwareStress(s) \in Int
  BY DEF HardwareStress, StressFields, If
<1>2. FundingStress(s) \in Int
  BY DEF FundingStress, StressFields, If, Abs, Clamp
<1>3. LiquidationStress(s) \in Int
  BY DEF LiquidationStress, StressFields, If, Clamp
<1>4. DydxStress(s) \in Int
  BY DEF DydxStress, StressFields, If, Abs, Clamp
<1>5. Arousal(s) \in Int
  BY DEF Arousal, StressFields, Clamp
<1>6. Stress(s) \in Int
  BY <1>1, <1>2, <1>3, <1>4, <1>5 DEF Stress
<1>7. HftInhibition(s) = Clamp(Stress(s), 0, 600)
  BY Zenon DEF HftInhibition, Stress, HardwareStress, FundingStress, LiquidationStress, DydxStress,
               Arousal
<1>8. Clamp(Stress(s), 0, 600) \in 0..600
  <2>1. PICK x \in Int : x = Stress(s)
    BY <1>6
  <2>2. Clamp(x, 0, 600) \in 0..600
    BY DEF Clamp
  <2> QED
    BY <2>1, <2>2
<1> QED
  BY <1>1, <1>2, <1>3, <1>4, <1>5, <1>6, <1>7, <1>8

LEMMA ThresholdNotLowered ==
  ASSUME NEW s \in StressFields
  PROVE  Threshold(HftInhibition(s)) \in Int /\ Threshold(HftInhibition(s)) >= VThresh
<1>1. PICK inhibition \in 0..600 : inhibition = HftInhibition(s)
  BY StressParts
<1>2. Clamp(inhibition, 0, 600) = inhibition /\ inhibition * Gain \in Nat
  BY ReservoirAssumption DEF Clamp
<1>3. PICK raise \in Nat : raise = inhibition * Gain
  BY <1>2
<1>4. Threshold(inhibition) = VThresh + raise
  BY <1>2, <1>3 DEF Threshold
<1>5. Threshold(inhibition) \in Int /\ Threshold(inhibition) >= VThresh
  BY <1>4, ReservoirAssumption
<1> QED
  BY <1>1, <1>5

LEMMA InitReservoir == Init => ReservoirInv
<1> SUFFICES ASSUME Init PROVE ReservoirInv
  OBVIOUS
<1> USE ReservoirAssumption DEF Init
<1>1. ReservoirTypes
  <2>1. log \in Seq(SUBSET Cells) /\ Len(log) = 0
    OBVIOUS
  <2>2. v \in [Cells -> Int]
    OBVIOUS
  <2>3. refrac \in [Cells -> 0..RefracT]
    OBVIOUS
  <2>4. weight \in [Cells -> 0..WMax]
    OBVIOUS
  <2>5. history \in [1..HistDepth -> SUBSET Cells] /\ histIdx \in 1..HistDepth
    OBVIOUS
  <2> QED
    BY <2>1, <2>2, <2>3, <2>4, <2>5 DEF ReservoirTypes
<1>2. RingInOrder
  <2>1. 0 % HistDepth = 0
    BY RemainderNext
  <2>2. \A k \in 0..(HistDepth - 1) : Row(k) \in 1..HistDepth
    BY DEF Row
  <2> QED
    BY <2>1, <2>2 DEF RingInOrder
<1> QED
  BY <1>1, <1>2 DEF ReservoirInv, Counting, Refractory, TracesSpiked, OutputSpiked

(* What a step of the reservoir does, for the drive it takes.              *)
LEMMA StepFacts ==
  ASSUME ReservoirTypes, [Next]_vars
  PROVE  \/ UNCHANGED vars
         \/ \E spiked \in SUBSET Cells, membrane \in [Cells -> Int], signal \in Int :
              /\ tick' = tick + 1
              /\ \A c \in Cells : refrac[c] > 0 => membrane[c] = v[c]
              /\ \A c \in spiked : membrane[c] > VThresh
              /\ Fire(membrane, spiked)
              /\ RecordHistory(spiked)
              /\ ReadOut(spiked)
              /\ Learn(spiked, signal)
              /\ log' = Append(log, spiked)
<1>1. ASSUME NEW stress \in Stresses, NEW signal \in Int, ReservoirStep(stress, signal)
      PROVE  \E spiked \in SUBSET Cells, membrane \in [Cells -> Int] :
              /\ tick' = tick + 1
              /\ \A c \in Cells : refrac[c] > 0 => membrane[c] = v[c]
              /\ \A c \in spiked : membrane[c] > VThresh
              /\ Fire(membrane, spiked)
              /\ RecordHistory(spiked)
              /\ ReadOut(spiked)
              /\ Learn(spiked, signal)
              /\ log' = Append(log, spiked)
  <2>1. threshold' \in Int /\ threshold' >= VThresh
    BY <1>1, ThresholdNotLowered, ReservoirAssumption DEF ReservoirStep
  <2>2. PICK drive \in [Cells -> Levels] :
          LET spiked == {c \in Cells : Membrane(drive)[c] > threshold'}
          IN /\ Fire(Membrane(drive), spiked)
             /\ RecordHistory(spiked)
             /\ ReadOut(spiked)
             /\ Learn(spiked, signal)
             /\ log' = Append(log, spiked)
    BY <1>1 DEF ReservoirStep
  <2>3. /\ Membrane(drive) \in [Cells -> Int]
        /\ \A c \in Cells : refrac[c] > 0 => Membrane(drive)[c] = v[c]
    <3>1. \A c \in Cells : drive[c] \in Int
      BY ReservoirAssumption
    <3>2. \A c \in Cells : v[c] \in Int /\ refrac[c] \in 0..RefracT
      BY DEF ReservoirTypes
    <3> QED
      BY <3>1, <3>2, ReservoirAssumption DEF Membrane
  <2>4. PICK membrane \in [Cells -> Int] : membrane = Membrane(drive)
    BY <2>3
  <2>5. PICK spiked \in SUBSET Cells : spiked = {c \in Cells : membrane[c] > threshold'}
    OBVIOUS
  <2>6. /\ Fire(membrane, spiked) /\ RecordHistory(spiked) /\ ReadOut(spiked)
        /\ Learn(spiked, signal) /\ log' = Append(log, spiked)
    BY <2>2, <2>4, <2>5
  <2>7. \A c \in spiked : membrane[c] > VThresh
    BY <2>1, <2>4, <2>5, ReservoirAssumption
  <2>8. \A c \in Cells : refrac[c] > 0 => membrane[c] = v[c]
    BY <2>3, <2>4
  <2>9. tick' = tick + 1
    BY <1>1 DEF ReservoirStep
  <2> QED
    BY <2>6, <2>7, <2>8, <2>9
<1>2. \A liquidity, excess \in Reflexes : Reflex(liquidity, excess) \in Int
  BY ReservoirAssumption DEF Reflex
<1> QED
  BY <1>1, <1>2 DEF Next

(* Everything the invariant is about, after one step.                      *)
LEMMA StepTypes ==
  ASSUME ReservoirTypes, NEW spiked \in SUBSET Cells, NEW membrane \in [Cells -> Int],
         NEW signal \in Int, tick' = tick + 1, Fire(membrane, spiked), RecordHistory(spiked),
         ReadOut(spiked), Learn(spiked, signal), log' = Append(log, spiked)
  PROVE  /\ ReservoirTypes'
         /\ \A t \in 1..tick : log'[t] = log[t]
         /\ log'[tick + 1] = spiked
<1> USE ReservoirAssumption
<1>1. /\ log' \in Seq(SUBSET Cells) /\ Len(log') = tick'
      /\ \A t \in 1..tick : log'[t] = log[t]
      /\ log'[tick + 1] = spiked
  BY AppendProperties DEF ReservoirTypes
<1>2. v' \in [Cells -> Int]
  BY DEF Fire, ReservoirTypes
<1>3. refrac' \in [Cells -> 0..RefracT]
  <2>1. \A c \in Cells : refrac[c] \in 0..RefracT
    BY DEF ReservoirTypes
  <2>2. \A c \in Cells : Clamp(refrac[c] - 1, 0, RefracT) \in 0..RefracT
    BY <2>1 DEF Clamp
  <2> QED
    BY <2>2 DEF Fire
<1>4. history' \in [1..HistDepth -> SUBSET Cells] /\ histIdx' \in 1..HistDepth /\ histFull' \in BOOLEAN
  BY DEF RecordHistory, ReservoirTypes
<1>5. traced' \in SUBSET Cells
  BY DEF Learn, ReservoirTypes
<1>6. output' \in SUBSET Lobes
  BY DEF ReadOut, Cells
<1>7. weight' \in [Cells -> 0..WMax]
  <2>1. ASSUME NEW cells, Raised(cells, signal) PROVE weight' \in [Cells -> 0..WMax]
    <3>1. PICK raised \in SUBSET cells :
            weight' = [c \in Cells |-> IF c \in raised THEN Clamp(weight[c] + Eta(c[1], signal), 0, WMax)
                                       ELSE weight[c]]
      BY <2>1 DEF Raised
    <3>2. \A c \in Cells : weight[c] \in 0..WMax
      BY DEF ReservoirTypes
    <3>3. \A c \in Cells : Clamp(weight[c] + Eta(c[1], signal), 0, WMax) \in 0..WMax
      BY <3>2 DEF Clamp, Eta
    <3> QED
      BY <3>1, <3>2, <3>3
  <2> QED
    BY <2>1 DEF Learn, ReservoirTypes
<1>8. tick' \in Nat
  BY DEF ReservoirTypes
<1> QED
  BY <1>1, <1>2, <1>3, <1>4, <1>5, <1>6, <1>7, <1>8 DEF ReservoirTypes

(* A neuron still counting does not spike, and counts on.                  *)
LEMMA StepRefractory ==
  ASSUME ReservoirInv, ReservoirTypes', NEW spiked \in SUBSET Cells, NEW membrane \in [Cells -> Int],
         tick' = tick + 1, \A c \in Cells : refrac[c] > 0 => membrane[c] = v[c],
         \A c \in spiked : membrane[c] > VThresh, Fire(membrane, spiked),
         \A t \in 1..tick : log'[t] = log[t], log'[tick + 1] = spiked
  PROVE  Counting' /\ Refractory'
<1> USE ReservoirAssumption DEF ReservoirInv
<1>1. PICK n \in Nat : n = tick
  BY DEF ReservoirTypes
<1>2. \A c \in Cells : v[c] \in Int /\ refrac[c] \in 0..RefracT
  BY DEF ReservoirTypes
<1>3. \A t \in 1..n : log[t] \subseteq Cells
  <2>1. ASSUME NEW t \in 1..n PROVE log[t] \in SUBSET Cells
    BY <1>1, ElementOfSeq DEF ReservoirTypes
  <2> QED
    BY <2>1
<1>4. ASSUME NEW t \in 1..n, NEW c \in log[t], t + RefracT > n
      PROVE  /\ c \in Cells /\ c \notin spiked /\ membrane[c] = v[c] /\ v[c] = VReset
             /\ refrac[c] >= RefracT - (n - t) /\ refrac[c] > 0
  <2>1. c \in Cells /\ refrac[c] >= RefracT - (n - t) /\ v[c] = VReset
    BY <1>1, <1>3, <1>4 DEF Counting
  <2>2. refrac[c] > 0
    BY <1>2, <1>4, <2>1
  <2>3. membrane[c] = VReset
    BY <2>1, <2>2
  <2> QED
    BY <2>1, <2>2, <2>3
<1>5. Counting'
  <2>1. ASSUME NEW t \in 1..(n + 1), NEW c \in log'[t], t + RefracT > n + 1
        PROVE  refrac'[c] >= RefracT - ((n + 1) - t) /\ v'[c] = VReset
    <3>1. CASE t = n + 1
      <4>1. c \in spiked
        BY <1>1, <2>1, <3>1
      <4> QED
        BY <3>1, <4>1 DEF Fire
    <3>2. CASE t \in 1..n
      <4>1. c \in log[t] /\ t + RefracT > n
        BY <1>1, <2>1, <3>2
      <4>2. /\ c \in Cells /\ c \notin spiked /\ membrane[c] = VReset
            /\ refrac[c] >= RefracT - (n - t) /\ refrac[c] \in 0..RefracT /\ refrac[c] > 0
        BY <1>2, <1>4, <3>2, <4>1
      <4>3. refrac'[c] = Clamp(refrac[c] - 1, 0, RefracT) /\ v'[c] = VReset
        BY <4>2 DEF Fire
      <4>4. Clamp(refrac[c] - 1, 0, RefracT) = refrac[c] - 1
        BY <4>2 DEF Clamp
      <4> QED
        BY <3>2, <4>2, <4>3, <4>4
    <3> QED
      BY <3>1, <3>2
  <2> QED
    BY <1>1, <2>1 DEF Counting
<1>6. Refractory'
  <2>1. Len(log) = n /\ Len(log') = n + 1
    BY <1>1 DEF ReservoirTypes
  <2>2. ASSUME NEW j \in 1..(n + 1), NEW k \in 1..(n + 1), j < k, k <= j + RefracT
        PROVE  log'[j] \cap log'[k] = {}
    <3>1. j \in 1..n /\ log'[j] = log[j]
      BY <1>1, <2>2
    <3>2. CASE k \in 1..n
      <4>1. log[j] \cap log[k] = {}
        BY <2>1, <2>2, <3>1, <3>2 DEF Refractory
      <4> QED
        BY <1>1, <3>1, <3>2, <4>1
    <3>3. CASE k = n + 1
      <4>1. j + RefracT > n
        BY <2>2, <3>3
      <4>2. \A c \in log[j] : c \notin spiked
        BY <1>4, <3>1, <4>1
      <4> QED
        BY <1>1, <3>1, <3>3, <4>2
    <3> QED
      BY <3>2, <3>3
  <2> QED
    BY <2>1, <2>2 DEF Refractory
<1> QED
  BY <1>5, <1>6

(* The row written is that of the tick just begun; the others are one tick *)
(* older.                                                                  *)
LEMMA StepRing ==
  ASSUME ReservoirInv, ReservoirTypes', NEW spiked \in SUBSET Cells,
         tick' = tick + 1, RecordHistory(spiked),
         \A t \in 1..tick : log'[t] = log[t], log'[tick + 1] = spiked
  PROVE  RingInOrder'
<1> USE ReservoirAssumption DEF ReservoirInv
<1>1. PICK n \in Nat, d \in Nat \ {0} : n = tick /\ d = HistDepth
  BY DEF ReservoirTypes
<1>2. PICK h \in 1..d : h = histIdx
  BY <1>1 DEF ReservoirTypes
<1>3. PICK g \in 1..d : g = histIdx' /\ g = IF h + 1 > d THEN 1 ELSE h + 1
  BY <1>1, <1>2 DEF RecordHistory
<1>4. h = (n % d) + 1 /\ (histFull <=> n >= d)
  BY <1>1, <1>2 DEF RingInOrder
<1>5. g = ((n + 1) % d) + 1
  <2>1. n % d \in 0..(d - 1) /\ (n + 1) % d = IF (n % d) + 1 = d THEN 0 ELSE (n % d) + 1
    BY RemainderNext
  <2> QED
    BY <1>3, <1>4, <2>1
<1>6. histFull' <=> n + 1 >= d
  <2>1. histFull' <=> histFull \/ h + 1 > d
    BY <1>1, <1>2 DEF RecordHistory
  <2>2. h + 1 > d => n + 1 >= d
    <3>1. n < d => n % d = n
      BY RemainderNext
    <3> QED
      BY <1>2, <1>4, <3>1
  <2>3. n + 1 = d => h = d
    <3>1. n < d => n % d = n
      BY RemainderNext
    <3> QED
      BY <1>4, <3>1
  <2> QED
    BY <1>4, <2>1, <2>2, <2>3
<1>7. Row(0)' = h
  BY <1>1, <1>2, <1>3 DEF Row
<1>8. ASSUME NEW k \in 1..(d - 1) PROVE Row(k)' = Row(k - 1) /\ Row(k - 1) # h /\ Row(k - 1) \in 1..d
  BY <1>1, <1>2, <1>3 DEF Row
<1>9. /\ history'[h] = spiked
      /\ \A i \in 1..d : i # h => history'[i] = history[i]
  BY <1>1, <1>2 DEF RecordHistory, ReservoirTypes
<1>10. ASSUME NEW k \in 0..(d - 1)
       PROVE  history'[Row(k)'] = IF k < n + 1 THEN log'[(n + 1) - k] ELSE {}
  <2>1. CASE k = 0
    BY <1>1, <1>7, <1>9, <2>1
  <2>2. CASE k \in 1..(d - 1)
    <3>1. PICK j \in 0..(d - 1) : j = k - 1
      BY <2>2
    <3>2. history'[Row(k)'] = history[Row(j)]
      BY <1>8, <1>9, <2>2, <3>1
    <3>3. history[Row(j)] = IF j < n THEN log[n - j] ELSE {}
      BY <1>1, <3>1 DEF RingInOrder
    <3>4. CASE j < n
      <4>1. n - j \in 1..n /\ n - j = (n + 1) - k /\ k < n + 1
        BY <3>1, <3>4, <2>2
      <4>2. log'[n - j] = log[n - j]
        BY <1>1, <4>1
      <4> QED
        BY <3>2, <3>3, <3>4, <4>1, <4>2
    <3>5. CASE ~(j < n)
      BY <2>2, <3>1, <3>2, <3>3, <3>5
    <3> QED
      BY <3>4, <3>5
  <2> QED
    BY <2>1, <2>2
<1> QED
  BY <1>1, <1>3, <1>5, <1>6, <1>10 DEF RingInOrder

LEMMA StepReservoir == ReservoirInv /\ [Next]_vars => ReservoirInv'
<1> SUFFICES ASSUME ReservoirInv, [Next]_vars PROVE ReservoirInv'
  OBVIOUS
<1>1. ASSUME NEW spiked \in SUBSET Cells, NEW membrane \in [Cells -> Int], NEW signal \in Int,
             tick' = tick + 1,
             \A c \in Cells : refrac[c] > 0 => membrane[c] = v[c],
             \A c \in spiked : membrane[c] > VThresh,
             Fire(membrane, spiked), RecordHistory(spiked), ReadOut(spiked), Learn(spiked, signal),
             log' = Append(log, spiked)
      PROVE  ReservoirInv'
  <2>1. /\ ReservoirTypes'
        /\ \A t \in 1..tick : log'[t] = log[t]
        /\ log'[tick + 1] = spiked
    BY <1>1, StepTypes DEF ReservoirInv
  <2>2. Counting' /\ Refractory'
    BY <1>1, <2>1, StepRefractory
  <2>3. RingInOrder'
    BY <1>1, <2>1, StepRing
  <2>4. tick \in Nat
    BY DEF ReservoirInv, ReservoirTypes
  <2>5. TracesSpiked'
    <3>1. ASSUME NEW c \in traced' PROVE \E t \in 1..tick' : c \in log'[t]
      <4>1. CASE c \in traced
        <5>1. PICK t \in 1..tick : c \in log[t]
          BY <4>1 DEF ReservoirInv, TracesSpiked
        <5>2. t \in 1..tick'
          BY <1>1, <2>4
        <5>3. log'[t] = log[t]
          BY <2>1
        <5> QED
          BY <5>1, <5>2, <5>3
      <4>2. CASE c \in spiked
        <5>1. tick + 1 \in 1..tick' /\ c \in log'[tick + 1]
          BY <1>1, <2>1, <2>4, <4>2
        <5> QED
          BY <5>1
      <4> QED
        BY <1>1, <3>1, <4>1, <4>2 DEF Learn
    <3> QED
      BY <3>1 DEF TracesSpiked
  <2>6. OutputSpiked'
    <3>1. ASSUME NEW lobe \in output' PROVE \E n \in Neurons : <<lobe, n>> \in spiked
      <4>1. PICK c \in spiked : lobe = c[1]
        BY <1>1, <3>1 DEF ReadOut
      <4>2. c[2] \in Neurons /\ c = <<lobe, c[2]>>
        BY <4>1 DEF Cells
      <4> QED
        BY <4>1, <4>2
    <3>2. tick' > 0 /\ log'[tick'] = spiked
      BY <1>1, <2>1, <2>4
    <3> QED
      BY <3>1, <3>2 DEF OutputSpiked
  <2> QED
    BY <2>1, <2>2, <2>3, <2>5, <2>6 DEF ReservoirInv
<1>2. CASE UNCHANGED vars
  BY <1>2 DEF vars, ReservoirInv, ReservoirTypes, Counting, Refractory, RingInOrder, Row, TracesSpiked,
              OutputSpiked
<1> QED
  BY <1>1, <1>2, StepFacts DEF ReservoirInv

LEMMA ReservoirInvariant == Spec => []ReservoirInv
<1> QED
  BY InitReservoir, StepReservoir, PTL DEF Spec

(* A neuron rests RefracT full ticks after a spike (step!, naut_core.jl:   *)
(* 265-294).                                                               *)
THEOREM NeuronsRest == Spec => []Refractory
<1>1. ReservoirInv => Refractory
  BY DEF ReservoirInv
<1> QED
  BY <1>1, ReservoirInvariant, PTL

(* The tick a row was last written at is the one of the last d with the    *)
(* row's remainder; a row not yet written is of no tick's.                 *)
LEMMA RowOfTick ==
  ASSUME NEW n \in Nat, NEW d \in Nat \ {0}, NEW i \in 1..d, NEW k \in 0..(d - 1),
         i = IF (n % d) - k >= 1 THEN (n % d) - k ELSE (n % d) - k + d,
         k < n
  PROVE  /\ (n - k) % d = i % d
         /\ \A t \in 1..n : t % d = i % d /\ t + d > n => t = n - k
<1>1. n % d \in 0..(d - 1) /\ (n < d => n % d = n) /\ d % d = 0
  BY RemainderNext
<1>2. (n - k) % d = i % d
  <2>1. PICK u \in 1..n : u = n - k
    OBVIOUS
  <2>2. PICK q \in Nat : n = d * q + (n % d)
    <3>1. n \div d \in Nat /\ n = d * (n \div d) + (n % d)
      OBVIOUS
    <3> QED
      BY <3>1
  <2>3. PICK m \in Nat : m = d * q
    OBVIOUS
  <2>4. u = m + i \/ u = (m + i) - d
    BY <1>1, <2>1, <2>2, <2>3
  <2>5. PICK p \in Nat : u = d * p + i
    <3>1. CASE u = m + i
      BY <2>3, <3>1
    <3>2. CASE u = (m + i) - d
      <4>1. q # 0
        <5>1. m # 0
          BY <2>1, <3>2
        <5> QED
          BY <2>3, <5>1
      <4>2. q - 1 \in Nat /\ d * (q - 1) = m - d
        BY <2>3, <4>1
      <4>3. u = d * (q - 1) + i
        BY <3>2, <4>2
      <4> QED
        BY <4>2, <4>3
    <3> QED
      BY <2>4, <3>1, <3>2
  <2>6. CASE i < d
    <3>0. i \in 0..(d - 1) /\ i \in Nat /\ u \in Nat
      BY <2>6
    <3>1. PICK z \in 0..(d - 1), uu \in Nat : z = i /\ uu = u
      BY <3>0
    <3>2. u % d = i
      <4>1. uu = d * p + z
        BY <2>5, <3>1
      <4>2. uu % d = z
        BY <4>1, RemainderOf
      <4> QED
        BY <3>1, <4>2
    <3>3. i % d = i
      BY <2>6, <3>0, RemainderNext
    <3> QED
      BY <2>1, <3>2, <3>3
  <2>7. CASE i = d
    <3>1. PICK z \in 0..(d - 1), pp \in Nat, uu \in Nat : z = 0 /\ pp = p + 1 /\ uu = u
      OBVIOUS
    <3>2. uu = d * pp + z
      BY <2>5, <2>7, <3>1
    <3>3. uu % d = z
      BY <3>2, RemainderOf
    <3> QED
      BY <1>1, <2>1, <2>7, <3>1, <3>3
  <2> QED
    BY <2>6, <2>7
<1>3. ASSUME NEW t \in 1..n, t % d = i % d, t + d > n PROVE t = n - k
  <2>1. PICK u \in 1..n : u = n - k
    OBVIOUS
  <2>2. t \in Nat /\ u \in Nat /\ t % d = u % d
    BY <1>2, <1>3, <2>1
  <2>3. CASE t <= u
    <3>1. u < t + d
      BY <1>3
    <3>2. t = u
      BY <2>2, <2>3, <3>1, SameRemainder
    <3> QED
      BY <2>1, <3>2
  <2>4. CASE u <= t
    <3>1. t < u + d
      BY <2>1
    <3>2. u = t
      BY <2>2, <2>4, <3>1, SameRemainder
    <3> QED
      BY <2>1, <3>2
  <2> QED
    BY <2>2, <2>3, <2>4
<1> QED
  BY <1>2, <1>3

LEMMA RowUnwritten ==
  ASSUME NEW n \in Nat, NEW d \in Nat \ {0}, NEW i \in 1..d, NEW k \in 0..(d - 1),
         i = IF (n % d) - k >= 1 THEN (n % d) - k ELSE (n % d) - k + d,
         ~(k < n), NEW t \in 1..n
  PROVE  t % d # i % d
<1>1. n % d = n
  BY RemainderNext
<1>2. n < i
  BY <1>1
<1>3. t \in Nat /\ i \in Nat /\ t <= i /\ i < t + d
  BY <1>2
<1>4. t % d = i % d => t = i
  BY <1>3, SameRemainder
<1> QED
  BY <1>2, <1>4

(* The circular history holds exactly the last HistDepth ticks, each in    *)
(* its row, and hist_full says when all are (naut_core.jl:301-307).        *)
THEOREM HistoryIsExact == Spec => []HistoryExact
<1>1. ASSUME ReservoirInv PROVE HistoryExact
  <2>1. /\ tick \in Nat /\ HistDepth \in Nat \ {0} /\ histIdx \in 1..HistDepth
        /\ histIdx = (tick % HistDepth) + 1 /\ (histFull <=> tick >= HistDepth)
    BY <1>1, ReservoirAssumption DEF ReservoirInv, ReservoirTypes, RingInOrder
  <2>2. tick % HistDepth \in 0..(HistDepth - 1)
    BY <2>1, RemainderNext
  <2>3. ASSUME NEW i \in 1..HistDepth
        PROVE  history[i] = IF \E t \in 1..tick : t % HistDepth = i % HistDepth
                              THEN log[CHOOSE t \in 1..tick : /\ t % HistDepth = i % HistDepth
                                                              /\ t + HistDepth > tick]
                              ELSE {}
    <3>1. PICK k \in 0..(HistDepth - 1) :
            k = IF histIdx - 1 - i >= 0 THEN histIdx - 1 - i ELSE histIdx - 1 - i + HistDepth
      <4>1. CASE histIdx - 1 - i >= 0
        <5>1. histIdx - 1 - i \in 0..(HistDepth - 1)
          BY <2>1, <4>1
        <5> QED
          BY <4>1, <5>1
      <4>2. CASE ~(histIdx - 1 - i >= 0)
        <5>1. histIdx - 1 - i + HistDepth \in 0..(HistDepth - 1)
          BY <2>1, <4>2
        <5> QED
          BY <4>2, <5>1
      <4> QED
        BY <4>1, <4>2
    <3>2. /\ Row(k) = i
          /\ i = IF (tick % HistDepth) - k >= 1 THEN (tick % HistDepth) - k
                 ELSE (tick % HistDepth) - k + HistDepth
      BY <2>1, <2>2, <3>1 DEF Row
    <3>3. history[i] = IF k < tick THEN log[tick - k] ELSE {}
      BY <1>1, <3>2 DEF ReservoirInv, RingInOrder
    <3>4. CASE k < tick
      <4>1. /\ (tick - k) % HistDepth = i % HistDepth
            /\ \A t \in 1..tick : t % HistDepth = i % HistDepth /\ t + HistDepth > tick => t = tick - k
        BY <2>1, <3>2, <3>4, RowOfTick
      <4>2. tick - k \in 1..tick /\ (tick - k) + HistDepth > tick
        BY <2>1, <3>4
      <4>3. (CHOOSE t \in 1..tick : /\ t % HistDepth = i % HistDepth
                                    /\ t + HistDepth > tick) = tick - k
        BY <4>1, <4>2
      <4> QED
        BY <3>3, <3>4, <4>1, <4>2, <4>3
    <3>5. CASE ~(k < tick)
      <4>1. \A t \in 1..tick : t % HistDepth # i % HistDepth
        BY <2>1, <3>2, <3>5, RowUnwritten
      <4> QED
        BY <3>3, <3>5, <4>1
    <3> QED
      BY <3>4, <3>5
  <2> QED
    BY <2>1, <2>3 DEF HistoryExact
<1> QED
  BY <1>1, ReservoirInvariant, PTL

(* Learning takes the readout of the tick before, never lowers a weight,   *)
(* and is fast for the Scalper alone (naut_core.jl:309-322, 519-532).      *)
THEOREM LearningFollowsReadout == Spec => LearnsFromLastReadout
<1>1. ASSUME ReservoirInv, [Next]_vars PROVE [LearnedFromLastReadout]_vars
  <2>1. ASSUME NEW spiked \in SUBSET Cells, NEW membrane \in [Cells -> Int], NEW signal \in Int,
               tick' = tick + 1, Fire(membrane, spiked), RecordHistory(spiked), ReadOut(spiked),
               Learn(spiked, signal), log' = Append(log, spiked), ReservoirInv',
               NEW c \in Cells, weight'[c] # weight[c]
        PROVE  /\ tick' % LearnEvery = 0
               /\ tick > 0 /\ \E n \in Neurons : <<c[1], n>> \in log[tick]
               /\ \E t \in 1..tick' : c \in log'[t]
               /\ weight'[c] > weight[c]
               /\ c[1] # Scalper => weight'[c] = weight[c] + 1
    <3>1. tick' % LearnEvery = 0 /\ Raised({x \in traced' : x[1] \in output}, signal)
      BY <2>1 DEF Learn
    <3>2. PICK raised \in SUBSET {x \in traced' : x[1] \in output} :
            weight' = [x \in Cells |-> IF x \in raised THEN Clamp(weight[x] + Eta(x[1], signal), 0, WMax)
                                       ELSE weight[x]]
      BY <3>1 DEF Raised
    <3>3. /\ c \in raised /\ c \in traced' /\ c[1] \in output
          /\ weight'[c] = Clamp(weight[c] + Eta(c[1], signal), 0, WMax)
      BY <2>1, <3>2
    <3>4. weight[c] \in 0..WMax /\ WMax \in Nat
      BY <1>1, ReservoirAssumption DEF ReservoirInv, ReservoirTypes
    <3>5. weight'[c] > weight[c]
      BY <2>1, <3>3, <3>4 DEF Clamp, Eta
    <3>6. c[1] # Scalper => weight'[c] = weight[c] + 1
      BY <2>1, <3>3, <3>4 DEF Clamp, Eta
    <3>7. tick > 0 /\ \E n \in Neurons : <<c[1], n>> \in log[tick]
      BY <1>1, <3>3 DEF ReservoirInv, OutputSpiked
    <3>8. \E t \in 1..tick' : c \in log'[t]
      BY <2>1, <3>3 DEF ReservoirInv, TracesSpiked
    <3> QED
      BY <3>1, <3>5, <3>6, <3>7, <3>8
  <2>2. ReservoirInv'
    BY <1>1, StepReservoir
  <2>3. CASE UNCHANGED vars
    BY <2>3
  <2>4. ASSUME NEW spiked \in SUBSET Cells, NEW membrane \in [Cells -> Int], NEW signal \in Int,
               tick' = tick + 1, Fire(membrane, spiked), RecordHistory(spiked), ReadOut(spiked),
               Learn(spiked, signal), log' = Append(log, spiked)
        PROVE  LearnedFromLastReadout
    BY <2>1, <2>2, <2>4 DEF LearnedFromLastReadout
  <2> QED
    BY <1>1, <2>3, <2>4, StepFacts DEF ReservoirInv
<1>2. ReservoirInv /\ [Next]_vars => [LearnedFromLastReadout]_vars
  BY <1>1
<1> QED
  BY <1>2, ReservoirInvariant, PTL DEF Spec, LearnsFromLastReadout

-----------------------------------------------------------------------------
LEMMA ClampGrows ==
  ASSUME NEW x \in Int, NEW y \in Int, x <= y, NEW lo \in Int, NEW hi \in Int, lo <= hi
  PROVE  Clamp(x, lo, hi) <= Clamp(y, lo, hi)
  BY DEF Clamp

(* More stress never lowers the threshold and more open interest never     *)
(* raises it, for any numbers in the fields of a pulse                     *)
(* (hft_inhibition.jl:12-39).                                              *)
THEOREM StressRaisesThreshold == Spec => []StressNeverCalms
<1>1. ASSUME NEW s \in AllStresses, NEW t \in AllStresses, Worse(s, t)
      PROVE  Threshold(HftInhibition(s)) <= Threshold(HftInhibition(t))
  <2>1. s \in StressFields /\ t \in StressFields
    BY ReservoirAssumption
  <2>2. HardwareStress(s) <= HardwareStress(t)
    BY <1>1, <2>1 DEF Worse, HardwareStress, If, StressFields
  <2>3. FundingStress(s) <= FundingStress(t)
    BY <1>1, <2>1 DEF Worse, FundingStress, If, Clamp, Abs, StressFields
  <2>4. LiquidationStress(s) <= LiquidationStress(t)
    BY <1>1, <2>1 DEF Worse, LiquidationStress, If, Clamp, StressFields
  <2>5. DydxStress(s) <= DydxStress(t)
    BY <1>1, <2>1 DEF Worse, DydxStress, If, Clamp, Abs, StressFields
  <2>6. Arousal(s) >= Arousal(t)
    BY <1>1, <2>1 DEF Worse, Arousal, Clamp, StressFields
  <2>7. PICK x \in Int, y \in Int : x = Stress(s) /\ y = Stress(t) /\ x <= y
    BY <2>1, <2>2, <2>3, <2>4, <2>5, <2>6, StressParts, SMTT(40) DEF Stress
  <2>8. PICK i \in 0..600, j \in 0..600 : i = HftInhibition(s) /\ j = HftInhibition(t) /\ i <= j
    <3>1. Clamp(x, 0, 600) <= Clamp(y, 0, 600)
      BY <2>7 DEF Clamp
    <3> QED
      <4>1. HftInhibition(s) = Clamp(x, 0, 600) /\ HftInhibition(s) \in 0..600
        BY <2>1, <2>7, StressParts
      <4>2. HftInhibition(t) = Clamp(y, 0, 600) /\ HftInhibition(t) \in 0..600
        BY <2>1, <2>7, StressParts
      <4> QED
        BY <3>1, <4>1, <4>2, ZenonT(40)
  <2>9. Threshold(i) = VThresh + i * Gain /\ Threshold(j) = VThresh + j * Gain
    BY DEF Threshold, Clamp
  <2>10. i * Gain <= j * Gain
    <3>1. PICK e \in Nat : j = i + e
      <4>1. j - i \in Nat /\ j = i + (j - i)
        BY <2>8
      <4> QED
        BY <4>1
    <3>2. j * Gain = i * Gain + e * Gain
      BY <3>1, ReservoirAssumption
    <3>3. e * Gain \in Nat /\ i * Gain \in Nat
      BY ReservoirAssumption
    <3> QED
      BY <3>2, <3>3
  <2>11. Threshold(i) <= Threshold(j)
    <3>1. PICK a \in Nat, b \in Nat : a = i * Gain /\ b = j * Gain
      BY ReservoirAssumption
    <3> QED
      BY <2>9, <2>10, <3>1, ReservoirAssumption
  <2> QED
    BY <2>8, <2>11
<1>2. StressNeverCalms
  BY <1>1 DEF StressNeverCalms
<1> QED
  BY <1>2, PTL
===============================================================================
