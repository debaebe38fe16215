------------------------- MODULE MarketMath_proofs -------------------------
(***************************************************************************)
(* Proofs about the streaming estimators, for any prices, windows and      *)
(* thresholds and any decay.  Three invariants, one for each structure     *)
(* that takes a price per tick: HawkesInv says which update a slot of the  *)
(* event ring is from, EncoderInv how far an anchor may be from the price  *)
(* it stands for, WindowInv which tick a slot of a rolling window is from. *)
(***************************************************************************)
EXTENDS MarketMath, SequenceTheorems, Lemmas

\* k is the last of the updates S.
LastOf(S, k) == k \in S /\ \A j \in S : j <= k

HawkesTypes == /\ events \in [Slots -> Nat]
               /\ prices \in [Slots -> Nat]
               /\ count \in Nat
               /\ history \in Seq([price : Prices, time : Nat])
               /\ count = 0 <=> history = <<>>
               /\ pos = (Len(history) % WindowSize) + 1

\* Each slot holds the price of the last update that went through it.
PricesHeld == \A i \in Slots :
                \/ InSlot(i) = {} /\ prices[i] = 0
                \/ \E k \in InSlot(i) : LastOf(InSlot(i), k) /\ prices[i] = history[k].price

\* And the time of the last jump that did.
JumpsIn(i) == InSlot(i) \cap Jumps
EventsHeld == \A i \in Slots :
                \/ JumpsIn(i) = {} /\ events[i] = 0
                \/ \E k \in JumpsIn(i) : LastOf(JumpsIn(i), k) /\ events[i] = history[k].time

HawkesInv == HawkesTypes /\ PricesHeld /\ EventsHeld

-----------------------------------------------------------------------------
LogEntries == [prices : [Asset -> Nat \ {0}], gain : 25..800, moved : SUBSET Asset]

EncoderTypes == /\ pc \in {"pulse", "again"}
                /\ pc = "again" => current[1] \in Prices
                /\ gain \in 25..800
                /\ anchor \in [Asset -> Nat]
                /\ log \in Seq(LogEntries)

\* The anchors are unset before the first pulse, and only then.
AnchorsSet == \A i \in Asset : anchor[i] = 0 <=> log = <<>>

\* No price spike of asset i in the pulses j + 1 to k.
Silent(i, j, k) == \A m \in (j + 1)..k : ~PriceSpike(m, i)

\* While asset i is silent since pulse j its anchor is the price of j, if it was
\* set by j, and within j's threshold of it otherwise.
AnchorOf(i, j) == IF j = 1 \/ PriceSpike(j, i)
                    THEN anchor[i] = log[j].prices[i]
                    ELSE Abs(anchor[i] - log[j].prices[i]) * log[j].gain < 100 * BaseDelta

AnchorsNear == \A j \in DOMAIN log, i \in Asset : Silent(i, j, Len(log)) => AnchorOf(i, j)

EncoderInv == EncoderTypes /\ AnchorsSet /\ AnchorsNear

-----------------------------------------------------------------------------
WindowTypes == /\ windowSize \in Nat \ {0}
               /\ lookback \in Nat \ {0}
               /\ minWindow \in Nat \ {0}
               /\ windowCount \in Nat
               /\ windowPrices \in [1..windowSize -> Nat]
               /\ windowPos = (windowCount % windowSize) + 1

\* A slot holds a recent tick that belongs in it, or none while there are fewer ticks.
SlotHolds(i) == LET t == windowPrices[i]
                IN \/ windowCount < i /\ t = 0
                   \/ t \in Windows!Recent /\ (t - 1) % windowSize = i - 1

WindowHolds == \A i \in 1..windowSize : SlotHolds(i)

WindowRead == /\ returns = Windows!Returns(Windows!Window(windowPrices, windowCount))
              /\ series = Windows!HurstSeries(windowPrices, windowCount)

WindowInv == WindowTypes /\ WindowHolds /\ WindowRead

-----------------------------------------------------------------------------
(* What an update appends to the history.                                  *)
LEMMA HistoryNext ==
  ASSUME HawkesTypes, NEW price \in Prices, NEW time \in Nat, Update(price, time),
         NEW n \in Nat, n = Len(history)
  PROVE  /\ history' \in Seq([price : Prices, time : Nat])
         /\ Len(history') = n + 1
         /\ DOMAIN history = 1..n /\ DOMAIN history' = 1..(n + 1)
         /\ \A k \in 1..n : history'[k] = history[k] /\ history[k].price \in Nat
         /\ history'[n + 1] = [price |-> price, time |-> time]
         /\ pos = (n % WindowSize) + 1 /\ pos \in Slots
         /\ count = 0 <=> n = 0
         /\ price \in Nat
<1>1. [price |-> price, time |-> time] \in [price : Prices, time : Nat]
  OBVIOUS
<1>2. history \in Seq([price : Prices, time : Nat])
      /\ history' = Append(history, [price |-> price, time |-> time])
  BY DEF HawkesTypes, Update
<1>3. /\ history' \in Seq([price : Prices, time : Nat]) /\ Len(history') = n + 1
      /\ \A k \in 1..n : history'[k] = history[k]
      /\ history'[n + 1] = [price |-> price, time |-> time]
  BY <1>1, <1>2, AppendProperties
<1>4. DOMAIN history = 1..n /\ DOMAIN history' = 1..(n + 1)
  BY <1>2, <1>3, LenProperties
<1>5. \A k \in 1..n : history[k].price \in Nat
  <2>1. \A k \in 1..n : history[k] \in [price : Prices, time : Nat]
    BY <1>2, ElementOfSeq
  <2> QED
    BY <2>1, HawkesAssumption
<1>6. pos = (n % WindowSize) + 1 /\ pos \in Slots
  <2>1. WindowSize \in Nat \ {0}
    BY HawkesAssumption
  <2>2. n % WindowSize \in 0..(WindowSize - 1)
    BY <2>1, RemainderNext
  <2>3. pos = (n % WindowSize) + 1
    BY DEF HawkesTypes
  <2> QED
    BY <2>1, <2>2, <2>3 DEF Slots
<1>7. count = 0 <=> n = 0
  BY <1>2, EmptySeq DEF HawkesTypes
<1>8. price \in Nat
  BY HawkesAssumption
<1> QED
  BY <1>3, <1>4, <1>5, <1>6, <1>7, <1>8

(* The new update is in the slot of the position, and in no other.         *)
LEMMA SlotNext ==
  ASSUME HawkesTypes, NEW price \in Prices, NEW time \in Nat, Update(price, time),
         NEW n \in Nat, n = Len(history), NEW i \in Slots
  PROVE  InSlot(i)' = IF i = pos THEN InSlot(i) \cup {n + 1} ELSE InSlot(i)
<1>1. DOMAIN history = 1..n /\ DOMAIN history' = 1..(n + 1) /\ pos = (n % WindowSize) + 1
  BY HistoryNext
<1>2. InSlot(i) = {k \in 1..n : (k - 1) % WindowSize = i - 1}
  BY <1>1 DEF InSlot
<1>3. InSlot(i)' = {k \in 1..(n + 1) : (k - 1) % WindowSize = i - 1}
  BY <1>1 DEF InSlot
<1>4. n % WindowSize \in Int /\ i \in Int /\ ((n + 1) - 1) = n
  BY HawkesAssumption DEF Slots
<1>5. 1..(n + 1) = (1..n) \cup {n + 1} /\ n + 1 \notin 1..n
  OBVIOUS
<1>6. n % WindowSize = i - 1 <=> i = pos
  BY <1>1, <1>4
<1> QED
  BY <1>2, <1>3, <1>4, <1>5, <1>6

(* With more than one slot the update before is in the slot before.        *)
LEMMA PriceBefore ==
  ASSUME HawkesInv, WindowSize > 1, NEW price \in Prices, NEW time \in Nat,
         Update(price, time), NEW n \in Nat, n = Len(history), n > 0
  PROVE  prices'[PrevPos] = history[n].price
<1> USE DEF HawkesInv
<1>1. DOMAIN history = 1..n /\ pos = (n % WindowSize) + 1 /\ pos \in Slots
  BY HistoryNext
<1>2. PICK m \in Nat : n = m + 1
  <2>1. n - 1 \in Nat /\ n = (n - 1) + 1
    OBVIOUS
  <2> QED
    BY <2>1
<1>3. m % WindowSize \in 0..(WindowSize - 1)
      /\ n % WindowSize = IF (m % WindowSize) + 1 = WindowSize THEN 0 ELSE (m % WindowSize) + 1
  BY <1>2, RemainderNext, HawkesAssumption
<1>4. PrevPos = (m % WindowSize) + 1 /\ PrevPos # pos /\ PrevPos \in Slots
  BY <1>1, <1>3, HawkesAssumption DEF PrevPos, Slots
<1>5. n \in InSlot(PrevPos)
  BY <1>1, <1>2, <1>3, <1>4 DEF InSlot
<1>6. PICK k \in InSlot(PrevPos) : LastOf(InSlot(PrevPos), k) /\ prices[PrevPos] = history[k].price
  BY <1>4, <1>5 DEF PricesHeld
<1>7. k \in 1..n /\ n <= k
  BY <1>1, <1>5, <1>6 DEF LastOf, InSlot
<1>8. k = n
  BY <1>7
<1>9. prices'[PrevPos] = prices[PrevPos]
  BY <1>1, <1>4, HawkesAssumption DEF Update, HawkesTypes
<1> QED
  BY <1>6, <1>8, <1>9

(* An update is an event when the history makes it a jump.                 *)
LEMMA JumpNext ==
  ASSUME HawkesInv, WindowSize > 1, NEW price \in Prices, NEW time \in Nat,
         Update(price, time), NEW n \in Nat, n = Len(history)
  PROVE  Jumps' = IF IsEvent(price) THEN Jumps \cup {n + 1} ELSE Jumps
<1> USE DEF HawkesInv
<1> DEFINE J(h, k) == k = 1 \/ Abs(h[k].price - h[k - 1].price) > Threshold
<1>1. /\ DOMAIN history = 1..n /\ DOMAIN history' = 1..(n + 1)
      /\ \A k \in 1..n : history'[k] = history[k] /\ history[k].price \in Nat
      /\ history'[n + 1] = [price |-> price, time |-> time]
      /\ count = 0 <=> n = 0
  BY HistoryNext
<1>2. \A k \in 1..n : J(history', k) <=> J(history, k)
  <2> TAKE k \in 1..n
  <2>1. k = 1 \/ k - 1 \in 1..n
    OBVIOUS
  <2> QED
    BY <1>1, <2>1
<1>3. J(history', n + 1) <=> IsEvent(price)
  <2>1. CASE n = 0
    BY <1>1, <2>1 DEF IsEvent
  <2>2. CASE n > 0
    <3>1. prices'[PrevPos] = history[n].price
      BY <2>2, PriceBefore
    <3>2. history'[n + 1].price = price /\ history'[n] = history[n] /\ (n + 1) - 1 = n /\ n + 1 # 1 /\ count # 0
      BY <1>1, <2>2
    <3> QED
      BY <3>1, <3>2 DEF IsEvent
  <2> QED
    BY <2>1, <2>2
<1>4. Jumps = {k \in 1..n : J(history, k)} /\ Jumps' = {k \in 1..(n + 1) : J(history', k)}
  BY <1>1 DEF Jumps
<1>5. 1..(n + 1) = (1..n) \cup {n + 1} /\ n + 1 \notin 1..n
  OBVIOUS
<1> HIDE DEF J
<1> QED
  BY <1>2, <1>3, <1>4, <1>5

-----------------------------------------------------------------------------
(* HawkesInv is inductive.                                                 *)
LEMMA HawkesStart == HawkesInit => HawkesInv
<1> SUFFICES ASSUME HawkesInit PROVE HawkesInv
  OBVIOUS
<1>1. history = <<>> /\ DOMAIN history = {} /\ Len(history) = 0
      /\ history \in Seq([price : Prices, time : Nat])
  BY EmptySeq DEF HawkesInit
<1>2. 0 % WindowSize = 0
  <2>1. WindowSize \in Nat \ {0} /\ 0 \in Nat /\ 0 < WindowSize
    BY HawkesAssumption
  <2>2. \A m \in Nat : m < WindowSize => m % WindowSize = m
    BY <2>1, RemainderNext
  <2> QED
    BY <2>1, <2>2
<1>3. HawkesTypes
  BY <1>1, <1>2, HawkesAssumption DEF HawkesTypes, HawkesInit, Slots
<1>4. \A i \in Slots : InSlot(i) = {} /\ JumpsIn(i) = {}
  BY <1>1 DEF InSlot, JumpsIn
<1>5. PricesHeld /\ EventsHeld
  BY <1>4 DEF PricesHeld, EventsHeld, HawkesInit
<1> QED
  BY <1>3, <1>5 DEF HawkesInv

LEMMA HawkesTypesNext ==
  ASSUME HawkesTypes, NEW price \in Prices, NEW time \in Nat, Update(price, time)
  PROVE  HawkesTypes'
<1>1. PICK n \in Nat : n = Len(history)
  BY LenProperties DEF HawkesTypes
<1>2. /\ history' \in Seq([price : Prices, time : Nat]) /\ Len(history') = n + 1
      /\ pos = (n % WindowSize) + 1 /\ pos \in Slots /\ price \in Nat
  BY <1>1, HistoryNext
<1>3. history' # <<>>
  BY <1>2, EmptySeq
<1>4. count' \in Nat /\ count' # 0 /\ events' \in [Slots -> Nat]
  <2>1. /\ events \in [Slots -> Nat] /\ count \in Nat
        /\ IF IsEvent(price) THEN events' = [events EXCEPT ![pos] = time] /\ count' = count + 1
                             ELSE events' = events /\ count' = count
    BY DEF Update, HawkesTypes
  <2>2. count = 0 => IsEvent(price)
    BY DEF IsEvent
  <2>3. pos \in Slots /\ time \in Nat
    BY <1>2
  <2>4. CASE IsEvent(price)
    BY <2>1, <2>3, <2>4
  <2>5. CASE ~IsEvent(price)
    BY <2>1, <2>2, <2>5
  <2> QED
    BY <2>4, <2>5
<1>5. prices' \in [Slots -> Nat]
  <2>1. prices \in [Slots -> Nat] /\ prices' = [prices EXCEPT ![pos] = price]
    BY DEF Update, HawkesTypes
  <2>2. pos \in Slots /\ price \in Nat
    BY <1>2
  <2> QED
    BY <2>1, <2>2
<1>6. pos' = (Len(history') % WindowSize) + 1
  <2>1. WindowSize \in Nat \ {0}
    BY HawkesAssumption
  <2>2. n % WindowSize \in 0..(WindowSize - 1)
        /\ (n + 1) % WindowSize = IF (n % WindowSize) + 1 = WindowSize THEN 0 ELSE (n % WindowSize) + 1
    BY <2>1, RemainderNext
  <2>3. pos' = IF pos >= WindowSize THEN 1 ELSE pos + 1
    BY DEF Update, Advance
  <2>4. PICK r \in 0..(WindowSize - 1) : r = n % WindowSize
    BY <2>2
  <2>5. PICK q \in Nat : q = (n + 1) % WindowSize
    BY <2>1, <2>2, <2>4
  <2>6. pos = r + 1 /\ q = IF r + 1 = WindowSize THEN 0 ELSE r + 1
    BY <1>2, <2>2, <2>4, <2>5
  <2>7. pos' = q + 1
    BY <2>1, <2>3, <2>6
  <2> QED
    BY <1>2, <2>5, <2>7
<1> QED
  BY <1>2, <1>3, <1>4, <1>5, <1>6 DEF HawkesTypes

LEMMA PricesHeldNext ==
  ASSUME HawkesTypes, PricesHeld, NEW price \in Prices, NEW time \in Nat, Update(price, time)
  PROVE  PricesHeld'
<1>1. PICK n \in Nat : n = Len(history)
  BY LenProperties DEF HawkesTypes
<1>2. /\ DOMAIN history = 1..n /\ \A k \in 1..n : history'[k] = history[k]
      /\ history'[n + 1] = [price |-> price, time |-> time]
      /\ pos \in Slots
  BY <1>1, HistoryNext
<1>3. prices \in [Slots -> Nat] /\ prices' = [prices EXCEPT ![pos] = price]
  BY DEF HawkesTypes, Update
<1> SUFFICES ASSUME NEW i \in Slots
             PROVE  \/ InSlot(i)' = {} /\ prices'[i] = 0
                    \/ \E k \in InSlot(i)' : LastOf(InSlot(i)', k) /\ prices'[i] = history'[k].price
  BY DEF PricesHeld, LastOf
<1>4. InSlot(i) \subseteq 1..n
  BY <1>2 DEF InSlot
<1>5. CASE i = pos
  <2>1. InSlot(i)' = InSlot(i) \cup {n + 1}
    BY <1>1, <1>5, SlotNext
  <2>2. LastOf(InSlot(i)', n + 1)
    BY <2>1, <1>4 DEF LastOf
  <2>3. prices'[i] = history'[n + 1].price
    BY <1>2, <1>3, <1>5
  <2> QED
    BY <2>1, <2>2, <2>3
<1>6. CASE i # pos
  <2>1. InSlot(i)' = InSlot(i) /\ prices'[i] = prices[i]
    BY <1>1, <1>3, <1>6, SlotNext
  <2>2. \A k \in InSlot(i) : history'[k] = history[k]
    BY <1>2, <1>4
  <2>3. \/ InSlot(i) = {} /\ prices[i] = 0
        \/ \E k \in InSlot(i) : LastOf(InSlot(i), k) /\ prices[i] = history[k].price
    BY DEF PricesHeld
  <2> QED
    BY <2>1, <2>2, <2>3
<1> QED
  BY <1>5, <1>6

LEMMA EventsHeldNext ==
  ASSUME HawkesInv, WindowSize > 1, NEW price \in Prices, NEW time \in Nat, Update(price, time)
  PROVE  EventsHeld'
<1> USE DEF HawkesInv
<1>1. PICK n \in Nat : n = Len(history)
  BY LenProperties DEF HawkesTypes
<1>2. /\ DOMAIN history = 1..n /\ \A k \in 1..n : history'[k] = history[k]
      /\ history'[n + 1] = [price |-> price, time |-> time]
      /\ pos \in Slots
  BY <1>1, HistoryNext
<1>3. /\ events \in [Slots -> Nat]
      /\ events' = IF IsEvent(price) THEN [events EXCEPT ![pos] = time] ELSE events
  BY DEF HawkesTypes, Update
<1>4. Jumps' = IF IsEvent(price) THEN Jumps \cup {n + 1} ELSE Jumps
  BY <1>1, JumpNext
<1> SUFFICES ASSUME NEW i \in Slots
             PROVE  \/ JumpsIn(i)' = {} /\ events'[i] = 0
                    \/ \E k \in JumpsIn(i)' : LastOf(JumpsIn(i)', k) /\ events'[i] = history'[k].time
  BY DEF EventsHeld, LastOf
<1>5. JumpsIn(i) \subseteq 1..n /\ n + 1 \notin InSlot(i) /\ n + 1 \notin Jumps
  BY <1>2 DEF InSlot, Jumps, JumpsIn
<1>6. InSlot(i)' = IF i = pos THEN InSlot(i) \cup {n + 1} ELSE InSlot(i)
  BY <1>1, SlotNext
<1>7. CASE i = pos /\ IsEvent(price)
  <2>1. JumpsIn(i)' = JumpsIn(i) \cup {n + 1}
    BY <1>4, <1>5, <1>6, <1>7 DEF JumpsIn
  <2>2. LastOf(JumpsIn(i)', n + 1)
    BY <2>1, <1>5 DEF LastOf
  <2>3. events'[i] = history'[n + 1].time
    BY <1>2, <1>3, <1>7
  <2> QED
    BY <2>1, <2>2, <2>3
<1>8. CASE ~(i = pos /\ IsEvent(price))
  <2>1. JumpsIn(i)' = JumpsIn(i)
    BY <1>4, <1>5, <1>6, <1>8 DEF JumpsIn
  <2>2. events'[i] = events[i]
    BY <1>3, <1>8
  <2>3. \A k \in JumpsIn(i) : history'[k] = history[k]
    BY <1>2, <1>5
  <2>4. \/ JumpsIn(i) = {} /\ events[i] = 0
        \/ \E k \in JumpsIn(i) : LastOf(JumpsIn(i), k) /\ events[i] = history[k].time
    BY DEF EventsHeld
  <2> QED
    BY <2>1, <2>2, <2>3, <2>4
<1> QED
  BY <1>7, <1>8

LEMMA HawkesUnchanged == HawkesInv /\ UNCHANGED hawkes => HawkesInv'
<1> SUFFICES ASSUME HawkesInv, UNCHANGED hawkes PROVE HawkesInv'
  OBVIOUS
<1>1. /\ events' = events /\ prices' = prices /\ count' = count /\ history' = history /\ pos' = pos
  BY DEF hawkes
<1>2. HawkesTypes'
  BY <1>1 DEF HawkesInv, HawkesTypes
<1>3. PricesHeld'
  BY <1>1 DEF HawkesInv, PricesHeld, InSlot, LastOf
<1>4. EventsHeld'
  BY <1>1 DEF HawkesInv, EventsHeld, JumpsIn, InSlot, Jumps, LastOf
<1> QED
  BY <1>2, <1>3, <1>4 DEF HawkesInv

-----------------------------------------------------------------------------
(* EncoderInv: what the pulses left in the log.                            *)
LEMMA GainType ==
  ASSUME NEW summed, NEW n \in Nat, DOMAIN summed \subseteq 1..n
  PROVE  Gain(Lambda(summed)) \in 25..800
<1> DEFINE terms == {t \in (DOMAIN summed) \X (1..100) : t[2] <= Decay(summed[t[1]])}
<1>1. IsFiniteSet(1..n) /\ IsFiniteSet(1..100)
  <2>1. 1 \in Int /\ n \in Int /\ 100 \in Int
    OBVIOUS
  <2> QED
    BY <2>1, FS_Interval
<1>2. IsFiniteSet(DOMAIN summed)
  BY <1>1, FS_Subset
<1>3. IsFiniteSet((DOMAIN summed) \X (1..100))
  BY <1>1, <1>2, FS_Product
<1>4. terms \in SUBSET ((DOMAIN summed) \X (1..100))
  OBVIOUS
<1>5. IsFiniteSet(terms)
  BY <1>3, <1>4, FS_Subset
<1> HIDE DEF terms
<1>6. Cardinality(terms) \in Nat
  BY <1>5, FS_CardinalityType
<1>7. Lambda(summed) = 100 + Alpha * Cardinality(terms)
  BY DEF Lambda, terms
<1>8. Lambda(summed) \in Int
  BY <1>6, <1>7, FeaturesAssumption
<1> QED
  BY <1>8 DEF Gain, Clamp

(* An update leaves a gain between its clamps.                             *)
LEMMA GainNext ==
  ASSUME HawkesTypes, NEW price \in Prices, NEW time \in Nat, UpdateFeatures(price, time)
  PROVE  gain' \in 25..800
<1>1. Update(price, time)
  BY DEF UpdateFeatures
<1>2. HawkesTypes'
  BY <1>1, HawkesTypesNext
<1>3. DOMAIN ages' \subseteq 1..count' \/ DOMAIN ages' \subseteq 1..WindowSize
  BY <1>1 DEF Update, ActiveEvents
<1>4. count' \in Nat /\ WindowSize \in Nat
  BY <1>2, HawkesAssumption DEF HawkesTypes
<1>5. Gain(Lambda(ages')) \in 25..800
  BY <1>3, <1>4, GainType
<1> QED
  BY <1>5 DEF UpdateFeatures

(* The entry a pulse adds to the log.                                      *)
LEMMA PulseEntry ==
  ASSUME EncoderTypes, HawkesTypes, Pulse, NEW n \in Nat, n = Len(log)
  PROVE  /\ current' \in [Asset -> Nat \ {0}] /\ current'[1] \in Prices
         /\ gain' \in 25..800
         /\ log' \in Seq(LogEntries) /\ Len(log') = n + 1
         /\ DOMAIN log = 1..n /\ DOMAIN log' = 1..(n + 1)
         /\ \A k \in 1..n : log'[k] = log[k] /\ log[k] \in LogEntries
         /\ log'[n + 1] = [prices |-> current', gain |-> gain', moved |-> PriceSpikes']
         /\ Encode(current', gain')
<1>1. PICK p \in Prices, others \in [2..Assets -> AssetPrices] :
        current' = [i \in Asset |-> IF i = 1 THEN p ELSE others[i]]
  BY DEF Pulse
<1>2. Assets \in Nat \ {0} /\ Prices \subseteq Nat \ {0} /\ AssetPrices \subseteq Nat \ {0}
  BY HawkesAssumption, FeaturesAssumption
<1>3. current' \in [Asset -> Nat \ {0}] /\ current'[1] \in Prices
  <2>1. ASSUME NEW i \in Asset PROVE (IF i = 1 THEN p ELSE others[i]) \in Nat \ {0}
    <3>1. i # 1 => i \in 2..Assets
      BY <1>2 DEF Asset
    <3> QED
      BY <1>1, <1>2, <3>1
  <2>2. 1 \in Asset
    BY <1>2 DEF Asset
  <2> QED
    BY <1>1, <2>1, <2>2
<1>4. UpdateFeatures(current'[1], n + 1) /\ Encode(current', gain')
      /\ log' = Append(log, [prices |-> current', gain |-> gain', moved |-> PriceSpikes'])
  BY DEF Pulse
<1>5. gain' \in 25..800
  <2>1. PICK price \in Prices, time \in Nat : price = current'[1] /\ time = n + 1
    BY <1>3
  <2> QED
    BY <1>4, <2>1, GainNext
<1>6. PriceSpikes' \in SUBSET Asset
  BY DEF PriceSpikes
<1>7. [prices |-> current', gain |-> gain', moved |-> PriceSpikes'] \in LogEntries
  BY <1>3, <1>5, <1>6 DEF LogEntries
<1>8. log \in Seq(LogEntries)
  BY DEF EncoderTypes
<1>9. /\ log' \in Seq(LogEntries) /\ Len(log') = n + 1
      /\ \A k \in 1..n : log'[k] = log[k]
      /\ log'[n + 1] = [prices |-> current', gain |-> gain', moved |-> PriceSpikes']
  BY <1>4, <1>7, <1>8, AppendProperties
<1>10. DOMAIN log = 1..n /\ DOMAIN log' = 1..(n + 1)
  BY <1>8, <1>9, LenProperties
<1>11. \A k \in 1..n : log[k] \in LogEntries
  BY <1>8, ElementOfSeq
<1> QED
  BY <1>3, <1>4, <1>5, <1>9, <1>10, <1>11

(* What the encoder does to one asset.                                     *)
LEMMA EncodeMoves ==
  ASSUME NEW pulse \in [Asset -> Nat \ {0}], NEW g \in 25..800, Encode(pulse, g),
         NEW from \in [Asset -> Nat], from = Anchored(pulse), NEW i \in Asset
  PROVE  /\ i \in PriceSpikes' => anchor'[i] = pulse[i]
         /\ i \notin PriceSpikes' => anchor'[i] = from[i]
                                     /\ Abs(pulse[i] - from[i]) * g < 100 * BaseDelta
<1> DEFINE up == {a \in Asset : Moved(pulse[a] - from[a], g)}
           down == {a \in Asset : Moved(from[a] - pulse[a], g)} \ up
           rising == {a \in Asset : pulse[a] > from[a]}
<1>1. PICK drawn \in SUBSET Asset :
        spikes' = (up \X {"Price_UP"}) \cup (down \X {"Price_DOWN"})
                  \cup ((drawn \cap rising) \X {"Vol_UP"})
                  \cup ((drawn \ rising) \X {"Vol_DOWN"})
  BY DEF Encode
<1>2. anchor' = [a \in Asset |-> IF a \in up \cup down THEN pulse[a] ELSE from[a]]
  BY DEF Encode
<1>3. i \in PriceSpikes' <=> i \in up \cup down
  <2> HIDE DEF up, down, rising
  <2>1. i \in PriceSpikes' <=> (<<i, "Price_UP">> \in spikes' \/ <<i, "Price_DOWN">> \in spikes')
    BY DEF PriceSpikes
  <2>2. <<i, "Price_UP">> \in spikes' <=> i \in up
    BY <1>1
  <2>3. <<i, "Price_DOWN">> \in spikes' <=> i \in down
    BY <1>1
  <2> QED
    BY <2>1, <2>2, <2>3
<1>4. ASSUME i \notin up \cup down PROVE Abs(pulse[i] - from[i]) * g < 100 * BaseDelta
  <2>1. ~Moved(pulse[i] - from[i], g) /\ ~Moved(from[i] - pulse[i], g)
    BY <1>4
  <2>2. PICK x \in Int : x = pulse[i] - from[i]
    OBVIOUS
  <2>3. from[i] - pulse[i] = -x
    BY <2>2
  <2>4. ~(x * g >= BaseDelta * 100) /\ ~((-x) * g >= BaseDelta * 100)
    BY <2>1, <2>2, <2>3 DEF Moved
  <2>5. Abs(x) * g = x * g \/ Abs(x) * g = (-x) * g
    BY DEF Abs
  <2>6. BaseDelta \in Int /\ x * g \in Int /\ (-x) * g \in Int
    BY FeaturesAssumption
  <2> QED
    BY <2>2, <2>4, <2>5, <2>6
<1> QED
  BY <1>2, <1>3, <1>4

(* The first pulse sets the anchors, later ones start from them.           *)
LEMMA AnchoredFrom ==
  ASSUME EncoderTypes, AnchorsSet, NEW pulse \in [Asset -> Nat \ {0}]
  PROVE  /\ Anchored(pulse) = IF log = <<>> THEN pulse ELSE anchor
         /\ Anchored(pulse) \in [Asset -> Nat]
<1>1. 1 \in Asset
  BY FeaturesAssumption DEF Asset
<1>2. log = <<>> <=> \A i \in Asset : anchor[i] = 0
  BY <1>1 DEF AnchorsSet
<1>3. Anchored(pulse) = IF log = <<>> THEN pulse ELSE anchor
  BY <1>2 DEF Anchored
<1>4. anchor \in [Asset -> Nat]
  BY DEF EncoderTypes
<1> QED
  BY <1>3, <1>4

-----------------------------------------------------------------------------
(* EncoderInv is inductive.                                                *)
LEMMA EncoderStart == Init => EncoderInv
<1> SUFFICES ASSUME Init PROVE EncoderInv
  OBVIOUS
<1>1. log = <<>> /\ DOMAIN log = {} /\ log \in Seq(LogEntries)
  BY EmptySeq DEF Init
<1>2. EncoderTypes
  BY <1>1 DEF EncoderTypes, Init
<1>3. AnchorsSet
  BY <1>1 DEF AnchorsSet, Init
<1>4. AnchorsNear
  BY <1>1 DEF AnchorsNear
<1> QED
  BY <1>2, <1>3, <1>4 DEF EncoderInv

LEMMA PulseKeepsEncoder ==
  ASSUME EncoderInv, HawkesTypes, Pulse
  PROVE  EncoderInv'
<1> USE DEF EncoderInv
<1>1. PICK n \in Nat : n = Len(log)
  BY LenProperties DEF EncoderTypes
<1>2. /\ current' \in [Asset -> Nat \ {0}] /\ current'[1] \in Prices
      /\ gain' \in 25..800
      /\ log' \in Seq(LogEntries) /\ Len(log') = n + 1
      /\ DOMAIN log = 1..n /\ DOMAIN log' = 1..(n + 1)
      /\ \A k \in 1..n : log'[k] = log[k] /\ log[k] \in LogEntries
      /\ log'[n + 1] = [prices |-> current', gain |-> gain', moved |-> PriceSpikes']
      /\ Encode(current', gain')
  BY <1>1, PulseEntry
<1>3. PICK pulse \in [Asset -> Nat \ {0}], g \in 25..800 : pulse = current' /\ g = gain'
  BY <1>2
<1>4. PICK from \in [Asset -> Nat] :
        from = Anchored(pulse) /\ from = IF log = <<>> THEN pulse ELSE anchor
  BY AnchoredFrom
<1>5. Encode(pulse, g)
  BY <1>2, <1>3
<1>6. \A i \in Asset :
        /\ i \in PriceSpikes' => anchor'[i] = pulse[i]
        /\ i \notin PriceSpikes' => anchor'[i] = from[i]
                                    /\ Abs(pulse[i] - from[i]) * g < 100 * BaseDelta
  BY <1>4, <1>5, EncodeMoves, ZenonT(40)
<1>7. anchor' \in [Asset -> Nat]
  <2>1. \A i \in Asset : anchor'[i] \in Nat
    BY <1>6
  <2>2. anchor' = [i \in Asset |-> anchor'[i]]
    BY <1>5 DEF Encode
  <2> QED
    BY <2>1, <2>2
<1>8. EncoderTypes'
  <2>1. pc' \in {"pulse", "again"}
    BY DEF Pulse
  <2> QED
    BY <1>2, <1>7, <2>1 DEF EncoderTypes
<1>9. log' # <<>>
  BY <1>2, EmptySeq
<1>10. log = <<>> <=> n = 0
  BY <1>1, EmptySeq DEF EncoderTypes
<1>11. AnchorsSet'
  <2> SUFFICES ASSUME NEW i \in Asset PROVE anchor'[i] # 0
    BY <1>9 DEF AnchorsSet
  <2>1. from[i] # 0
    BY <1>4 DEF AnchorsSet
  <2> QED
    BY <1>6, <2>1
<1>12. AnchorsNear'
  <2> SUFFICES ASSUME NEW j \in 1..(n + 1), NEW i \in Asset,
                      \A m \in (j + 1)..(n + 1) : i \notin log'[m].moved
               PROVE  AnchorOf(i, j)'
    BY <1>2 DEF AnchorsNear, Silent, PriceSpike
  <2>1. CASE j = n + 1
    <3>1. /\ log'[j].prices[i] = pulse[i] /\ log'[j].gain = g
          /\ i \in log'[j].moved <=> i \in PriceSpikes'
      BY <1>2, <1>3, <2>1
    <3>2. (j = 1 \/ i \in log'[j].moved) => anchor'[i] = pulse[i]
      <4>1. j = 1 => from = pulse
        BY <1>4, <1>10, <2>1
      <4> QED
        BY <1>6, <3>1, <4>1
    <3>3. i \notin log'[j].moved => Abs(anchor'[i] - pulse[i]) * g < 100 * BaseDelta
      <4>1. Abs(from[i] - pulse[i]) = Abs(pulse[i] - from[i])
        BY DEF Abs
      <4> QED
        BY <1>6, <3>1, <4>1
    <3> QED
      BY <3>1, <3>2, <3>3 DEF AnchorOf, PriceSpike
  <2>2. CASE j \in 1..n
    <3>1. i \notin PriceSpikes'
      <4>1. n + 1 \in (j + 1)..(n + 1)
        BY <2>2
      <4> QED
        BY <1>2, <4>1
    <3>2. anchor'[i] = anchor[i]
      BY <1>4, <1>6, <1>10, <2>2, <3>1
    <3>3. Silent(i, j, n)
      <4> SUFFICES ASSUME NEW m \in (j + 1)..n PROVE i \notin log[m].moved
        BY DEF Silent, PriceSpike
      <4>1. m \in 1..n /\ m \in (j + 1)..(n + 1)
        BY <2>2
      <4> QED
        BY <1>2, <4>1
    <3>4. AnchorOf(i, j)
      BY <1>1, <1>2, <2>2, <3>3 DEF AnchorsNear
    <3>5. log'[j] = log[j]
      BY <1>2, <2>2
    <3> QED
      BY <3>2, <3>4, <3>5 DEF AnchorOf, PriceSpike
  <2> QED
    BY <2>1, <2>2
<1> QED
  BY <1>8, <1>11, <1>12

(* Every step of the features is an update of the ring.                    *)
LEMMA EachUpdate ==
  ASSUME EncoderTypes, HawkesTypes, Next
  PROVE  \E price \in Prices, time \in Nat : Update(price, time)
<1>1. PICK n \in Nat : n = Len(log)
  BY LenProperties DEF EncoderTypes
<1>2. CASE Pulse
  <2>1. current'[1] \in Prices
    BY <1>1, <1>2, PulseEntry
  <2>2. Update(current'[1], n + 1) /\ n + 1 \in Nat
    BY <1>1, <1>2 DEF Pulse, UpdateFeatures
  <2> QED
    BY <2>1, <2>2
<1>3. CASE PulseAgain
  <2>1. current[1] \in Prices
    BY <1>3 DEF PulseAgain, EncoderTypes
  <2>2. Update(current[1], n)
    BY <1>1, <1>3 DEF PulseAgain, UpdateFeatures
  <2> QED
    BY <2>1, <2>2
<1> QED
  BY <1>2, <1>3 DEF Next

LEMMA PulseAgainKeepsEncoder ==
  ASSUME EncoderInv, HawkesTypes, PulseAgain
  PROVE  EncoderInv'
<1>1. PICK n \in Nat : n = Len(log)
  BY LenProperties DEF EncoderInv, EncoderTypes
<1>2. gain' \in 25..800
  <2>1. current[1] \in Prices /\ UpdateFeatures(current[1], n)
    BY <1>1 DEF PulseAgain, EncoderInv, EncoderTypes
  <2>2. PICK price \in Prices : price = current[1]
    BY <2>1
  <2> QED
    BY <2>1, <2>2, GainNext
<1>3. pc' = "pulse" /\ anchor' = anchor /\ log' = log
  BY DEF PulseAgain
<1>4. EncoderTypes'
  BY <1>2, <1>3 DEF EncoderInv, EncoderTypes
<1>5. AnchorsSet' /\ AnchorsNear'
  BY <1>3 DEF EncoderInv, AnchorsSet, AnchorsNear, Silent, AnchorOf, PriceSpike
<1> QED
  BY <1>4, <1>5 DEF EncoderInv

LEMMA EncoderUnchanged == EncoderInv /\ UNCHANGED vars => EncoderInv'
  BY DEF EncoderInv, EncoderTypes, AnchorsSet, AnchorsNear, Silent, AnchorOf, PriceSpike, vars

LEMMA EncoderStep == HawkesTypes /\ EncoderInv /\ [MathNext]_mathVars => HawkesTypes' /\ EncoderInv'
<1> SUFFICES ASSUME HawkesTypes, EncoderInv, [MathNext]_mathVars
             PROVE  HawkesTypes' /\ EncoderInv'
  OBVIOUS
<1>1. CASE Next
  <2>1. HawkesTypes'
    BY <1>1, EachUpdate, HawkesTypesNext DEF EncoderInv
  <2>2. EncoderInv'
    BY <1>1, PulseKeepsEncoder, PulseAgainKeepsEncoder DEF Next
  <2> QED
    BY <2>1, <2>2
<1>2. CASE UNCHANGED mathVars
  <2>1. UNCHANGED vars /\ UNCHANGED hawkes
    BY <1>2 DEF mathVars, vars
  <2>2. HawkesTypes'
    BY <2>1 DEF HawkesTypes, hawkes
  <2> QED
    BY <2>1, <2>2, EncoderUnchanged
<1> QED
  BY <1>1, <1>2 DEF MathNext, Next

LEMMA EncoderInvariant == MathSpec => [](HawkesTypes /\ EncoderInv)
<1>1. MathInit => HawkesTypes /\ EncoderInv
  <2>1. Init => HawkesInit
    BY DEF Init
  <2> QED
    BY <2>1, HawkesStart, EncoderStart DEF MathInit, HawkesInv
<1> QED
  BY <1>1, EncoderStep, PTL DEF MathSpec

-----------------------------------------------------------------------------
(* Two moves under the thresholds of their times add up to less than the   *)
(* two thresholds.                                                         *)
LEMMA DriftAdds ==
  ASSUME NEW a \in Nat, NEW b \in Nat, NEW c \in Nat, NEW g \in Nat \ {0}, NEW h \in Nat \ {0},
         NEW t \in Nat, Abs(b - a) * g < t, Abs(c - b) * h < t
  PROVE  Abs(c - a) * g * h < t * (g + h)
<1>1. PICK x \in Nat, y \in Nat, z \in Nat : x = Abs(b - a) /\ y = Abs(c - b) /\ z = Abs(c - a) /\ z <= x + y
  <2>1. Abs(b - a) \in Nat /\ Abs(c - b) \in Nat /\ Abs(c - a) \in Nat
        /\ Abs(c - a) <= Abs(b - a) + Abs(c - b)
    BY DEF Abs
  <2> QED
    BY <2>1
<1>2. ASSUME NEW m \in Nat, NEW n \in Nat, NEW k \in Nat, m <= n PROVE m * k <= n * k
  <2>1. PICK d \in Nat : n = m + d
    <3>1. n - m \in Nat /\ n = m + (n - m)
      BY <1>2
    <3> QED
      BY <3>1
  <2>2. n * k = m * k + d * k /\ d * k \in Nat /\ m * k \in Nat
    BY <2>1
  <2> QED
    BY <2>2
<1>3. ASSUME NEW m \in Nat, NEW n \in Nat, NEW k \in Nat \ {0}, m < n PROVE m * k < n * k
  <2>1. m + 1 \in Nat /\ m + 1 <= n
    BY <1>3
  <2>2. (m + 1) * k <= n * k
    BY <2>1, <1>2
  <2>3. (m + 1) * k = m * k + k /\ m * k \in Nat /\ n * k \in Nat
    OBVIOUS
  <2> QED
    BY <2>2, <2>3
<1>4. x * g \in Nat /\ y * h \in Nat /\ z * g \in Nat /\ g * h \in Nat
  OBVIOUS
<1>5. z * (g * h) <= (x + y) * (g * h)
  BY <1>1, <1>2, <1>4
<1>6. (x * g) * h < t * h
  BY <1>1, <1>3, <1>4
<1>7. (y * h) * g < t * g
  BY <1>1, <1>3, <1>4
<1>8. (x + y) * (g * h) = (x * g) * h + (y * h) * g
  OBVIOUS
<1>9. z * g * h = z * (g * h) /\ t * (g + h) = t * h + t * g
  OBVIOUS
<1>10. z * (g * h) \in Int /\ (x + y) * (g * h) \in Int /\ (x * g) * h \in Int /\ (y * h) * g \in Int
       /\ t * h \in Int /\ t * g \in Int
  OBVIOUS
<1>11. z * g * h < t * (g + h)
  BY <1>5, <1>6, <1>7, <1>8, <1>9, <1>10
<1> QED
  BY <1>1, <1>11

(* A pulse that leaves an asset silent finds it near its anchor.           *)
LEMMA DriftBounded ==
  ASSUME EncoderInv, HawkesTypes, Pulse, NEW n \in Nat, n = Len(log)
  PROVE  \A j \in 1..n, i \in Asset :
           (\A m \in (j + 1)..(n + 1) : i \notin log'[m].moved) =>
             LET drift == Abs(log'[n + 1].prices[i] - log[j].prices[i])
             IN IF j = 1 \/ PriceSpike(j, i)
                  THEN drift * log'[n + 1].gain < 100 * BaseDelta
                  ELSE drift * log[j].gain * log'[n + 1].gain
                         < 100 * BaseDelta * (log[j].gain + log'[n + 1].gain)
<1>0. EncoderTypes
  BY DEF EncoderInv
<1>1. /\ current' \in [Asset -> Nat \ {0}] /\ current'[1] \in Prices
      /\ gain' \in 25..800
      /\ log' \in Seq(LogEntries) /\ Len(log') = n + 1
      /\ DOMAIN log = 1..n /\ DOMAIN log' = 1..(n + 1)
      /\ \A k \in 1..n : log'[k] = log[k] /\ log[k] \in LogEntries
      /\ log'[n + 1] = [prices |-> current', gain |-> gain', moved |-> PriceSpikes']
      /\ Encode(current', gain')
  BY <1>0, PulseEntry
<1> SUFFICES ASSUME NEW j \in 1..n, NEW i \in Asset,
                    \A m \in (j + 1)..(n + 1) : i \notin log'[m].moved
             PROVE  LET drift == Abs(log'[n + 1].prices[i] - log[j].prices[i])
                    IN IF j = 1 \/ PriceSpike(j, i)
                         THEN drift * log'[n + 1].gain < 100 * BaseDelta
                         ELSE drift * log[j].gain * log'[n + 1].gain
                                < 100 * BaseDelta * (log[j].gain + log'[n + 1].gain)
  OBVIOUS
<1> USE DEF EncoderInv
<1>2. PICK pulse \in [Asset -> Nat \ {0}], g \in 25..800 : pulse = current' /\ g = gain'
  BY <1>1
<1>3. anchor = Anchored(pulse) /\ anchor \in [Asset -> Nat]
  <2>1. log # <<>>
    BY EmptySeq DEF EncoderTypes
  <2> QED
    BY <2>1, AnchoredFrom DEF EncoderTypes
<1>4. i \notin PriceSpikes'
  <2>1. n + 1 \in (j + 1)..(n + 1)
    OBVIOUS
  <2> QED
    BY <1>1, <2>1, SMTT(40)
<1>5. Abs(pulse[i] - anchor[i]) * g < 100 * BaseDelta
  <2>1. Encode(pulse, g)
    BY <1>1, <1>2
  <2> QED
    BY <1>3, <1>4, <2>1, EncodeMoves, ZenonT(40)
<1>6. Silent(i, j, n)
  <2> SUFFICES ASSUME NEW m \in (j + 1)..n PROVE i \notin log[m].moved
    BY DEF Silent, PriceSpike
  <2>1. m \in 1..n /\ m \in (j + 1)..(n + 1)
    OBVIOUS
  <2> QED
    BY <1>1, <2>1
<1>7. AnchorOf(i, j)
  BY <1>1, <1>6 DEF AnchorsNear
<1>8. log'[n + 1].prices[i] = pulse[i] /\ log'[n + 1].gain = g
  BY <1>1, <1>2
<1>9. CASE j = 1 \/ PriceSpike(j, i)
  <2>1. anchor[i] = log[j].prices[i]
    BY <1>7, <1>9 DEF AnchorOf
  <2> QED
    BY <1>5, <1>8, <1>9, <2>1
<1>10. CASE ~(j = 1 \/ PriceSpike(j, i))
  <2>1. Abs(anchor[i] - log[j].prices[i]) * log[j].gain < 100 * BaseDelta
    BY <1>7, <1>10 DEF AnchorOf
  <2>2. log[j].prices[i] \in Nat /\ log[j].gain \in Nat \ {0}
    <3>1. log[j] \in LogEntries
      BY <1>1
    <3>2. log[j].prices \in [Asset -> Nat \ {0}] /\ log[j].gain \in 25..800
      BY <3>1, ZenonT(40) DEF LogEntries
    <3>3. PICK then \in [Asset -> Nat \ {0}], gained \in 25..800 :
            then = log[j].prices /\ gained = log[j].gain
      BY <3>2, ZenonT(40)
    <3>4. then[i] \in Nat /\ gained \in Nat \ {0}
      OBVIOUS
    <3> QED
      BY <3>3, <3>4
  <2>3. PICK a \in Nat, b \in Nat, c \in Nat, f \in Nat \ {0}, h \in Nat \ {0}, t \in Nat :
          a = log[j].prices[i] /\ b = anchor[i] /\ c = pulse[i] /\ f = log[j].gain /\ h = g
          /\ t = 100 * BaseDelta
    <3>1. 100 * BaseDelta \in Nat
      BY FeaturesAssumption
    <3>2. anchor[i] \in Nat /\ pulse[i] \in Nat /\ g \in Nat \ {0}
      BY <1>2, <1>3
    <3> QED
      BY <2>2, <3>1, <3>2
  <2>4. Abs(c - a) * f * h < t * (f + h)
    BY <1>5, <2>1, <2>3, DriftAdds, ZenonT(40)
  <2> QED
    BY <1>8, <1>10, <2>3, <2>4
<1> QED
  BY <1>9, <1>10

LEMMA DriftStep ==
  HawkesTypes /\ EncoderInv /\ NoDriftLost /\ [MathNext]_mathVars => NoDriftLost'
<1> SUFFICES ASSUME HawkesTypes, EncoderInv, NoDriftLost, [MathNext]_mathVars
             PROVE  NoDriftLost'
  OBVIOUS
<1>1. CASE Pulse
  <2>1. PICK n \in Nat : n = Len(log)
    BY LenProperties DEF EncoderInv, EncoderTypes
  <2>2. /\ DOMAIN log = 1..n /\ DOMAIN log' = 1..(n + 1)
        /\ \A k \in 1..n : log'[k] = log[k]
    BY <1>1, <2>1, PulseEntry, ZenonT(40) DEF EncoderInv
  <2> SUFFICES ASSUME NEW j \in 1..(n + 1), NEW k \in 1..(n + 1), NEW i \in Asset, j < k,
                      \A m \in (j + 1)..k : i \notin log'[m].moved
               PROVE  LET drift == Abs(log'[k].prices[i] - log'[j].prices[i])
                      IN IF j = 1 \/ i \in log'[j].moved
                           THEN drift * log'[k].gain < 100 * BaseDelta
                           ELSE drift * log'[j].gain * log'[k].gain
                                  < 100 * BaseDelta * (log'[j].gain + log'[k].gain)
    BY <2>2 DEF NoDriftLost, PriceSpike
  <2>3. j \in 1..n /\ log'[j] = log[j]
    BY <2>2
  <2>4. CASE k \in 1..n
    <3>1. log'[k] = log[k]
      BY <2>2, <2>4
    <3>2. \A m \in (j + 1)..k : ~PriceSpike(m, i)
      <4> SUFFICES ASSUME NEW m \in (j + 1)..k PROVE i \notin log[m].moved
        BY DEF PriceSpike
      <4>1. m \in 1..n
        BY <2>3, <2>4
      <4> QED
        BY <2>2, <4>1
    <3> QED
      BY <2>2, <2>3, <2>4, <3>1, <3>2 DEF NoDriftLost, PriceSpike
  <2>5. CASE k = n + 1
    BY <1>1, <2>1, <2>3, <2>5, DriftBounded DEF PriceSpike
  <2> QED
    BY <2>4, <2>5
<1>2. CASE log' = log
  BY <1>2 DEF NoDriftLost, PriceSpike
<1> QED
  BY <1>1, <1>2 DEF MathNext, PulseAgain, mathVars, vars

(***************************************************************************)
(* The encoder loses no drift (encode!, market_encoder.jl:40-79): for any  *)
(* pulses and however the Hawkes intensity moves its threshold, a price    *)
(* that has not spiked since some pulse is within the thresholds of then   *)
(* and now of where it was.                                                *)
(***************************************************************************)
THEOREM DriftIsReported == MathSpec => []NoDriftLost
<1>1. MathInit => NoDriftLost
  <2>1. MathInit => DOMAIN log = {}
    BY DEF MathInit, Init
  <2> QED
    BY <2>1 DEF NoDriftLost
<1> QED
  BY <1>1, EncoderInvariant, DriftStep, PTL DEF MathSpec

-----------------------------------------------------------------------------
LEMMA HawkesStep ==
  ASSUME WindowSize > 1
  PROVE  HawkesInv /\ EncoderInv /\ [MathNext]_mathVars => HawkesInv'
<1> SUFFICES ASSUME HawkesInv, EncoderInv, [MathNext]_mathVars PROVE HawkesInv'
  OBVIOUS
<1>1. CASE Next
  <2>1. PICK price \in Prices, time \in Nat : Update(price, time)
    BY <1>1, EachUpdate DEF EncoderInv, HawkesInv
  <2>2. HawkesTypes' /\ PricesHeld'
    BY <2>1, HawkesTypesNext, PricesHeldNext DEF HawkesInv
  <2>3. EventsHeld'
    BY <2>1, EventsHeldNext
  <2> QED
    BY <2>2, <2>3 DEF HawkesInv
<1>2. CASE UNCHANGED mathVars
  BY <1>2, HawkesUnchanged DEF mathVars, vars
<1> QED
  BY <1>1, <1>2 DEF MathNext, Next

(* The choice in RingHoldsJumps is the last update of LastOf.              *)
LEMMA LastChosen ==
  ASSUME NEW S \in SUBSET Nat, NEW k, LastOf(S, k)
  PROVE  (CHOOSE m \in S : \A j \in S : j <= m) = k
<1>1. k \in S /\ \A j \in S : j <= k
  BY DEF LastOf
<1>2. ASSUME NEW m \in S, \A j \in S : j <= m PROVE m = k
  BY <1>1, <1>2
<1> QED
  BY <1>1, <1>2

(***************************************************************************)
(* With a window of more than one tick the event ring holds, slot by slot, *)
(* the last jump and the last price that went through it (update!,         *)
(* market_hawkes.jl:161-196), also when FastReflex makes two updates of a  *)
(* tick.  A ring of one slot compares every price with itself.             *)
(***************************************************************************)
THEOREM RingIsExact ==
  ASSUME WindowSize > 1
  PROVE  MathSpec => []RingHoldsJumps
<1>1. HawkesInv => RingHoldsJumps
  <2> SUFFICES ASSUME HawkesInv, NEW i \in Slots
               PROVE  /\ events[i] = IF JumpsIn(i) = {} THEN 0
                                       ELSE history[CHOOSE k \in JumpsIn(i) : \A j \in JumpsIn(i) : j <= k].time
                      /\ prices[i] = IF InSlot(i) = {} THEN 0
                                       ELSE history[CHOOSE k \in InSlot(i) : \A j \in InSlot(i) : j <= k].price
    BY DEF RingHoldsJumps, JumpsIn
  <2>1. InSlot(i) \in SUBSET Nat /\ JumpsIn(i) \in SUBSET Nat
    <3>1. DOMAIN history \in SUBSET Nat
      BY LenProperties DEF HawkesInv, HawkesTypes
    <3> QED
      BY <3>1 DEF InSlot, JumpsIn
  <2>2. \/ JumpsIn(i) = {} /\ events[i] = 0
        \/ \E k \in JumpsIn(i) : LastOf(JumpsIn(i), k) /\ events[i] = history[k].time
    BY DEF HawkesInv, EventsHeld
  <2>3. \/ InSlot(i) = {} /\ prices[i] = 0
        \/ \E k \in InSlot(i) : LastOf(InSlot(i), k) /\ prices[i] = history[k].price
    BY DEF HawkesInv, PricesHeld
  <2> QED
    BY <2>1, <2>2, <2>3, LastChosen
<1>2. MathInit => HawkesInv
  BY HawkesStart DEF MathInit, Init
<1>3. HawkesInv /\ EncoderInv /\ [MathNext]_mathVars => HawkesInv'
  BY HawkesStep
<1> QED
  BY <1>1, <1>2, <1>3, EncoderInvariant, PTL DEF MathSpec

-----------------------------------------------------------------------------
(* The rolling windows.                                                    *)
LEMMA RemainderShift ==
  ASSUME NEW d \in Nat \ {0}, NEW n \in Nat
  PROVE  (n + d) % d = n % d
<1>1. PICK q \in Nat, r \in 0..(d - 1) : r = n % d /\ n = d * q + r
  <2>1. n \div d \in Nat /\ n % d \in 0..(d - 1) /\ n = d * (n \div d) + (n % d)
    OBVIOUS
  <2> QED
    BY <2>1
<1>2. PICK p \in Nat, m \in Nat : p = q + 1 /\ m = n + d
  <2>1. q + 1 \in Nat /\ n + d \in Nat
    OBVIOUS
  <2> QED
    BY <2>1
<1>3. m = d * p + r
  BY <1>1, <1>2
<1>4. m % d = r
  BY <1>3, RemainderOf
<1> QED
  BY <1>1, <1>2, <1>4

(* Two recent ticks of one slot are the same.                              *)
LEMMA OneTickPerSlot ==
  ASSUME NEW d \in Nat \ {0}, NEW c \in Nat, NEW t \in 1..c, NEW u \in 1..c,
         t > c - d, u > c - d, (t - 1) % d = (u - 1) % d
  PROVE  t = u
<1>1. PICK a \in Nat, b \in Nat : a = t - 1 /\ b = u - 1
  <2>1. t - 1 \in Nat /\ u - 1 \in Nat
    OBVIOUS
  <2> QED
    BY <2>1
<1>2. a < b + d /\ b < a + d /\ a % d = b % d
  BY <1>1
<1>3. a = b
  <2>1. CASE a <= b
    BY <1>2, <2>1, SameRemainder
  <2>2. CASE b <= a
    BY <1>2, <2>2, SameRemainder
  <2> QED
    BY <2>1, <2>2
<1> QED
  BY <1>1, <1>3

LEMMA WindowStart == Windows!Init => WindowInv
<1> SUFFICES ASSUME Windows!Init PROVE WindowInv
  OBVIOUS
<1>1. windowSize \in Nat \ {0} /\ lookback \in Nat \ {0} /\ minWindow \in Nat \ {0}
  BY WindowsAssumption DEF Windows!Init, Windows!WindowConstants
<1>2. 0 % windowSize = 0
  <2>1. 0 \in Nat /\ 0 < windowSize
    BY <1>1
  <2>2. \A m \in Nat : m < windowSize => m % windowSize = m
    BY <1>1, RemainderNext
  <2> QED
    BY <2>1, <2>2
<1>3. WindowTypes
  BY <1>1, <1>2 DEF WindowTypes, Windows!Init
<1>4. WindowHolds
  BY <1>1 DEF WindowHolds, SlotHolds, Windows!Init
<1>5. WindowRead
  <2>1. windowCount = 0 /\ returns = <<>> /\ series = <<>>
    BY DEF Windows!Init
  <2>2. Windows!Window(windowPrices, windowCount) = <<>>
    <3>1. Windows!Window(windowPrices, windowCount) = SubSeq(windowPrices, 1, 0)
      BY <1>1, <2>1 DEF Windows!Window
    <3> QED
      BY <3>1, SubSeqEmpty
  <2>3. Windows!Returns(<<>>) = <<>>
    BY EmptySeq DEF Windows!Returns
  <2>4. Windows!HurstSeries(windowPrices, windowCount) = <<>>
    BY <1>1, <2>1 DEF Windows!HurstSeries
  <2> QED
    BY <2>1, <2>2, <2>3, <2>4 DEF WindowRead
<1> QED
  BY <1>3, <1>4, <1>5 DEF WindowInv

LEMMA WindowUpdate ==
  ASSUME WindowInv, Windows!Update
  PROVE  WindowInv'
<1> USE DEF WindowInv
<1>1. PICK d \in Nat \ {0}, c \in Nat, p \in Nat : d = windowSize /\ c = windowCount /\ p = c % d
  <2>1. windowSize \in Nat \ {0} /\ windowCount \in Nat
    BY DEF WindowTypes
  <2>2. windowCount % windowSize \in Nat
    BY <2>1
  <2> QED
    BY <2>1, <2>2
<1>2. /\ windowPos = p + 1 /\ p \in 0..(d - 1)
      /\ windowPrices \in [1..d -> Nat]
      /\ lookback \in Nat \ {0} /\ minWindow \in Nat \ {0}
  BY <1>1 DEF WindowTypes
<1>3. /\ windowPrices' = [windowPrices EXCEPT ![windowPos] = c + 1]
      /\ windowCount' = c + 1
      /\ windowPos' = IF windowPos >= d THEN 1 ELSE windowPos + 1
      /\ windowSize' = d /\ lookback' = lookback /\ minWindow' = minWindow
  BY <1>1 DEF Windows!Update, Windows!Push
<1>4. WindowTypes'
  <2>1. (c + 1) % d = IF p + 1 = d THEN 0 ELSE p + 1
    BY <1>1, RemainderNext
  <2>2. PICK q \in Nat : q = (c + 1) % d
    BY <2>1
  <2>3. windowPos' = q + 1
    BY <1>2, <1>3, <2>1, <2>2
  <2>4. windowPrices' \in [1..d -> Nat]
    BY <1>2, <1>3
  <2> QED
    BY <1>2, <1>3, <2>2, <2>3, <2>4 DEF WindowTypes
<1>5. WindowHolds'
  <2> SUFFICES ASSUME NEW i \in 1..d,
                      NEW t, t = windowPrices'[i]
               PROVE  \/ c + 1 < i /\ t = 0
                      \/ t \in 1..(c + 1) /\ t > (c + 1) - d /\ (t - 1) % d = i - 1
    BY <1>3 DEF WindowHolds, SlotHolds, Windows!Recent
  <2>1. CASE i = p + 1
    <3>1. t = c + 1
      BY <1>2, <1>3, <2>1
    <3>2. t - 1 = c /\ i - 1 = p /\ t \in 1..(c + 1) /\ t > (c + 1) - d
      BY <2>1, <3>1
    <3> QED
      BY <1>1, <3>2
  <2>2. CASE i # p + 1
    <3>1. t = windowPrices[i]
      BY <1>2, <1>3, <2>2
    <3>2. \/ c < i /\ t = 0
          \/ t \in 1..c /\ t > c - d /\ (t - 1) % d = i - 1
      BY <1>1, <3>1 DEF WindowHolds, SlotHolds, Windows!Recent
    <3>3. CASE c < i /\ t = 0
      <4>1. p = c
        BY <1>1, <3>3, RemainderNext
      <4> QED
        BY <2>2, <3>3, <4>1
    <3>4. CASE t \in 1..c /\ t > c - d /\ (t - 1) % d = i - 1
      <4>1. t # (c + 1) - d
        <5>1. SUFFICES ASSUME t = (c + 1) - d PROVE FALSE
          OBVIOUS
        <5>2. PICK m \in Nat : m = t - 1
          BY <3>4
        <5>3. m + d = c /\ m % d = i - 1
          BY <3>4, <5>1, <5>2
        <5>4. c % d = m % d
          BY <5>3, RemainderShift
        <5> QED
          BY <1>1, <2>2, <5>3, <5>4
      <4> QED
        BY <3>4, <4>1
    <3> QED
      BY <3>2, <3>3, <3>4
  <2> QED
    BY <2>1, <2>2
<1>6. WindowRead'
  <2>1. windowSize' = windowSize /\ lookback' = lookback /\ minWindow' = minWindow
        /\ returns' = Windows!Returns(Windows!Window(windowPrices', windowCount'))
        /\ series' = Windows!HurstSeries(windowPrices', windowCount')
    BY DEF Windows!Update
  <2> QED
    BY <2>1 DEF WindowRead, Windows!Returns, Windows!Window, Windows!HurstSeries
<1> QED
  BY <1>4, <1>5, <1>6

LEMMA WindowUnchanged == WindowInv /\ UNCHANGED windowVars => WindowInv'
  BY DEF WindowInv, WindowTypes, WindowHolds, SlotHolds, WindowRead, windowVars, Windows!Recent,
         Windows!Returns, Windows!Window, Windows!HurstSeries

(* The valid part of a window is a sequence of recent ticks, each in the   *)
(* slot it belongs in.                                                     *)
LEMMA WindowFacts ==
  ASSUME WindowInv, NEW w, w = Windows!Window(windowPrices, windowCount),
         NEW d, d = windowSize, NEW c, c = windowCount
  PROVE  /\ d \in Nat \ {0} /\ c \in Nat
         /\ w \in Seq(Nat)
         /\ Len(w) = IF c < d THEN c ELSE d
         /\ DOMAIN w = 1..Len(w)
         /\ \A k \in 1..Len(w) : /\ w[k] \in 1..c /\ w[k] > c - d
                                 /\ (w[k] - 1) % d = k - 1
<1> USE DEF WindowInv
<1>1. d \in Nat \ {0} /\ c \in Nat /\ windowPrices \in [1..d -> Nat]
  BY DEF WindowTypes
<1>2. /\ w \in Seq(Nat) /\ Len(w) = IF c < d THEN c ELSE d
      /\ \A k \in 1..Len(w) : w[k] = windowPrices[k]
  <2>1. CASE c >= d
    <3>1. w = windowPrices
      BY <2>1 DEF Windows!Window
    <3>2. w \in Seq(Nat)
      BY <1>1, <3>1, SeqDef
    <3>3. Len(w) \in Nat /\ DOMAIN w = 1..Len(w)
      BY <3>2, LenProperties
    <3>4. Len(w) = d
      BY <1>1, <3>1, <3>3
    <3> QED
      BY <1>1, <2>1, <3>1, <3>2, <3>4
  <2>2. CASE c < d
    <3>1. w = SubSeq(windowPrices, 1, c)
      BY <1>1, <2>2 DEF Windows!Window
    <3>2. \A k \in 1..c : windowPrices[k] \in Nat
      BY <1>1, <2>2
    <3>3. PICK one \in Int : one = 1
      OBVIOUS
    <3>4. /\ SubSeq(windowPrices, one, c) \in Seq(Nat)
          /\ Len(SubSeq(windowPrices, one, c)) = IF one <= c THEN c - one + 1 ELSE 0
          /\ \A k \in 1..(c - one + 1) : SubSeq(windowPrices, one, c)[k] = windowPrices[one + k - 1]
      BY <1>1, <3>2, <3>3, SubSeqProperties
    <3>5. Len(w) = c
      BY <1>1, <3>1, <3>3, <3>4
    <3>6. \A k \in 1..c : w[k] = windowPrices[k]
      <4> TAKE k \in 1..c
      <4>1. k \in 1..(c - one + 1) /\ one + k - 1 = k
        BY <1>1, <3>3
      <4> QED
        BY <3>1, <3>3, <3>4, <4>1
    <3> QED
      BY <1>1, <2>2, <3>1, <3>3, <3>4, <3>5, <3>6
  <2> QED
    BY <1>1, <2>1, <2>2
<1>3. DOMAIN w = 1..Len(w)
  BY <1>2, LenProperties
<1>4. \A k \in 1..Len(w) : w[k] \in 1..c /\ w[k] > c - d /\ (w[k] - 1) % d = k - 1
  <2> TAKE k \in 1..Len(w)
  <2>1. k \in 1..d /\ k <= c /\ w[k] = windowPrices[k]
    BY <1>1, <1>2
  <2>2. SlotHolds(k)
    BY <2>1 DEF WindowHolds
  <2>3. w[k] \in Windows!Recent /\ (w[k] - 1) % windowSize = k - 1
    BY <1>1, <2>1, <2>2 DEF SlotHolds
  <2> QED
    BY <2>3 DEF Windows!Recent
<1> QED
  BY <1>1, <1>2, <1>3, <1>4

(* Next to a tick is the tick after it, or the seam.                       *)
LEMMA NextInWindow ==
  ASSUME WindowInv, NEW w, w = Windows!Window(windowPrices, windowCount),
         NEW d, d = windowSize, NEW c, c = windowCount,
         NEW k \in 1..Len(w), k + 1 \in 1..Len(w)
  PROVE  \/ w[k + 1] = w[k] + 1
         \/ w[k] = c /\ w[k + 1] = c - d + 1 /\ c >= d
<1>1. /\ d \in Nat \ {0} /\ c \in Nat /\ Len(w) = IF c < d THEN c ELSE d
      /\ \A m \in 1..Len(w) : w[m] \in 1..c /\ w[m] > c - d /\ (w[m] - 1) % d = m - 1
  BY WindowFacts
<1>2. PICK t \in 1..c, u \in 1..c :
        /\ t = w[k] /\ t > c - d /\ (t - 1) % d = k - 1
        /\ u = w[k + 1] /\ u > c - d /\ (u - 1) % d = k
  <2>1. PICK m \in 1..Len(w) : m = k + 1
    OBVIOUS
  <2>2. w[k] \in 1..c /\ w[k] > c - d /\ (w[k] - 1) % d = k - 1
    BY <1>1
  <2>3. w[m] \in 1..c /\ w[m] > c - d /\ (w[m] - 1) % d = m - 1
    BY <1>1
  <2>4. m - 1 = k
    BY <2>1
  <2> QED
    BY <2>1, <2>2, <2>3, <2>4
<1>3. PICK s \in Nat : s = t - 1
  BY <1>2
<1>4. k < d /\ (s + 1) % d = k
  <2>1. s % d = k - 1 /\ k < d
    BY <1>1, <1>2, <1>3, SMTT(40)
  <2>2. (s + 1) % d = IF (s % d) + 1 = d THEN 0 ELSE (s % d) + 1
    BY <1>1, RemainderNext
  <2> QED
    BY <2>1, <2>2, <1>1
<1>5. CASE t < c
  <2>1. PICK v \in 1..c : v = t + 1
    BY <1>1, <1>5
  <2>2. v > c - d /\ v - 1 = s + 1
    <3>1. t > c - d /\ t \in Int /\ c \in Int /\ d \in Int
      BY <1>1, <1>2
    <3>2. s = t - 1 /\ v = t + 1
      BY <1>3, <2>1
    <3> QED
      BY <3>1, <3>2
  <2>4. (v - 1) % d = (u - 1) % d
    BY <1>2, <1>4, <2>2
  <2>3. v = u
    BY <1>1, <1>2, <2>2, <2>4, OneTickPerSlot
  <2> QED
    BY <1>2, <2>1, <2>3
<1>6. CASE t = c
  <2>1. c % d = k /\ c = s + 1
    BY <1>3, <1>4, <1>6, <1>1
  <2>2. c >= d
    <3>1. SUFFICES ASSUME c < d PROVE FALSE
      BY <1>1
    <3>2. c % d = c
      BY <1>1, <3>1, RemainderNext
    <3>3. k + 1 <= c
      BY <1>1, <3>1
    <3> QED
      BY <2>1, <3>2, <3>3, <1>1
  <2>3. PICK m \in Nat, v \in 1..c : m = c - d /\ v = c - d + 1
    BY <1>1, <2>2
  <2>4. m % d = k
    <3>1. (m + d) % d = m % d
      BY <1>1, RemainderShift
    <3>2. m + d = c
      BY <1>1, <2>3
    <3> QED
      BY <2>1, <3>1, <3>2
  <2>5. v - 1 = m /\ v > c - d /\ (v - 1) % d = (u - 1) % d
    BY <1>1, <1>2, <2>3, <2>4
  <2>6. v = u
    BY <1>1, <1>2, <2>5, OneTickPerSlot
  <2> QED
    BY <1>2, <1>6, <2>2, <2>3, <2>6
<1> QED
  BY <1>1, <1>2, <1>5, <1>6

(* Every recent tick is read, once.                                        *)
LEMMA WindowReadsRecent ==
  ASSUME WindowInv, NEW w, w = Windows!Window(windowPrices, windowCount)
  PROVE  Windows!Read(w) = Windows!Recent /\ Len(w) = Cardinality(Windows!Recent)
<1>1. PICK d, c : d = windowSize /\ c = windowCount
  OBVIOUS
<1>2. /\ d \in Nat \ {0} /\ c \in Nat /\ Len(w) = IF c < d THEN c ELSE d
      /\ DOMAIN w = 1..Len(w)
      /\ \A m \in 1..Len(w) : w[m] \in 1..c /\ w[m] > c - d /\ (w[m] - 1) % d = m - 1
  BY <1>1, WindowFacts
<1>3. Windows!Recent = {t \in 1..c : t > c - d}
  BY <1>1 DEF Windows!Recent
<1>4. Windows!Read(w) \subseteq Windows!Recent
  BY <1>2, <1>3 DEF Windows!Read
<1>5. ASSUME NEW t \in 1..c, t > c - d PROVE t \in Windows!Read(w)
  <2>1. PICK s \in Nat : s = t - 1
    BY <1>5
  <2>3. PICK r \in 0..(d - 1) : r = s % d
    BY <1>2, RemainderNext
  <2>4. r + 1 \in 1..Len(w)
    <3>1. ASSUME c < d PROVE r = s
      <4>1. s < d
        BY <1>2, <2>1, <3>1
      <4> QED
        BY <1>2, <2>3, <4>1, RemainderNext
    <3> QED
      BY <1>2, <2>1, <2>3, <3>1
  <2>5. PICK u \in 1..c : u = w[r + 1] /\ u > c - d /\ (u - 1) % d = r
    <3>1. PICK m \in 1..Len(w) : m = r + 1
      BY <2>4
    <3>2. w[m] \in 1..c /\ w[m] > c - d /\ (w[m] - 1) % d = m - 1
      BY <1>2
    <3>3. m - 1 = r
      BY <1>2, <3>1
    <3> QED
      BY <3>1, <3>2, <3>3
  <2>6. (t - 1) % d = (u - 1) % d
    BY <2>1, <2>3, <2>5
  <2>7. t = u
    BY <1>2, <1>5, <2>5, <2>6, OneTickPerSlot
  <2> QED
    BY <1>2, <2>4, <2>5, <2>7 DEF Windows!Read
<1>6. Len(w) = Cardinality(Windows!Recent)
  <2>1. PICK a \in Int : a = IF c < d THEN 1 ELSE c - d + 1
    <3>1. 1 \in Int /\ c - d + 1 \in Int
      BY <1>2
    <3> QED
      BY <3>1
  <2>2. Windows!Recent = a..c
    BY <1>2, <1>3, <2>1
  <2>3. Cardinality(a..c) = IF a > c THEN 0 ELSE c - a + 1
    BY <1>2, FS_Interval
  <2> QED
    BY <1>2, <2>1, <2>2, <2>3
<1> QED
  BY <1>3, <1>4, <1>5, <1>6

(* Only at the seam do the returns join prices that are not successive.    *)
LEMMA SeamsInWindow ==
  ASSUME WindowInv, NEW w, w = Windows!Window(windowPrices, windowCount)
  PROVE  LET seams == {k \in DOMAIN returns : returns[k][2] # returns[k][1] + 1}
         IN /\ UNION {{r[1], r[2]} : r \in Windows!Read(returns)} \subseteq Windows!Recent
            /\ Cardinality(seams) <= 1
            /\ \A k \in seams : /\ returns[k] = <<windowCount, windowCount - windowSize + 1>>
                                /\ windowCount >= windowSize
<1> DEFINE seams == {k \in DOMAIN returns : returns[k][2] # returns[k][1] + 1}
<1>1. PICK d, c : d = windowSize /\ c = windowCount
  OBVIOUS
<1>2. /\ d \in Nat \ {0} /\ c \in Nat /\ Len(w) = IF c < d THEN c ELSE d
      /\ \A m \in 1..Len(w) : w[m] \in 1..c /\ w[m] > c - d /\ (w[m] - 1) % d = m - 1
  BY <1>1, WindowFacts
<1>3. PICK n \in Nat : n = Len(w)
  BY <1>2
<1>4. CASE n < 3
  <2>1. returns = <<>> /\ DOMAIN returns = {}
    <3>1. returns = <<>>
      BY <1>3, <1>4 DEF WindowInv, WindowRead, Windows!Returns
    <3> QED
      BY <3>1
  <2>2. seams = {} /\ Windows!Read(returns) = {}
    BY <2>1 DEF Windows!Read
  <2>3. Cardinality(seams) = 0
    BY <2>2, FS_EmptySet
  <2> QED
    BY <2>2, <2>3
<1>5. CASE n >= 3
  <2>1. PICK l \in 1..(n - 1) : l = IF lookback < n - 1 THEN lookback ELSE n - 1
    <3>1. lookback \in Nat \ {0}
      BY DEF WindowInv, WindowTypes
    <3>2. (IF lookback < n - 1 THEN lookback ELSE n - 1) \in 1..(n - 1)
      BY <1>5, <3>1
    <3> QED
      BY <3>2
  <2>2. returns = [k \in 1..l |-> <<w[n - l + k - 1], w[n - l + k]>>]
    BY <1>3, <1>5, <2>1 DEF WindowInv, WindowRead, Windows!Returns
  <2>3. ASSUME NEW k \in 1..l
        PROVE  \E m \in 1..n : /\ m = n - l + k - 1 /\ m + 1 \in 1..n
                               /\ returns[k] = <<w[m], w[m + 1]>>
    <3>1. PICK m \in 1..n : m = n - l + k - 1 /\ m + 1 = n - l + k /\ m + 1 \in 1..n
      <4>1. n - l + k - 1 \in 1..n /\ (n - l + k - 1) + 1 = n - l + k /\ n - l + k \in 1..n
        OBVIOUS
      <4> QED
        BY <4>1
    <3>2. returns[k] = <<w[n - l + k - 1], w[n - l + k]>>
      BY <2>2
    <3> QED
      BY <3>1, <3>2
  <2>4. DOMAIN returns = 1..l
    BY <2>2
  <2>5. ASSUME NEW m \in 1..n PROVE w[m] \in Windows!Recent
    <3>1. w[m] \in 1..c /\ w[m] > c - d
      BY <1>2, <1>3
    <3> QED
      BY <1>1, <3>1 DEF Windows!Recent
  <2>6. UNION {{r[1], r[2]} : r \in Windows!Read(returns)} \subseteq Windows!Recent
    <3> SUFFICES ASSUME NEW k \in 1..l
                 PROVE  returns[k][1] \in Windows!Recent /\ returns[k][2] \in Windows!Recent
      BY <2>4 DEF Windows!Read
    <3>1. PICK m \in 1..n : m + 1 \in 1..n /\ returns[k] = <<w[m], w[m + 1]>>
      BY <2>3
    <3>2. w[m] \in Windows!Recent /\ w[m + 1] \in Windows!Recent
      BY <2>5, <3>1
    <3> QED
      BY <3>1, <3>2
  <2>7. ASSUME NEW k \in seams
        PROVE  /\ returns[k] = <<c, c - d + 1>> /\ c >= d
               /\ k - 1 = (((c - 1) % d) + 1) - (n - l)
    <3>1. k \in 1..l /\ returns[k][2] # returns[k][1] + 1
      BY <2>4, <2>7
    <3>2. PICK m \in 1..n : /\ m = n - l + k - 1 /\ m + 1 \in 1..n
                            /\ returns[k] = <<w[m], w[m + 1]>>
      BY <2>3, <3>1
    <3>3. w[m + 1] # w[m] + 1
      BY <3>1, <3>2
    <3>4. w[m] = c /\ w[m + 1] = c - d + 1 /\ c >= d
      BY <1>1, <1>3, <3>2, <3>3, NextInWindow
    <3>5. (w[m] - 1) % d = m - 1
      BY <1>2, <1>3
    <3>6. k - 1 = ((m - 1) + 1) - (n - l)
      <4>1. m = n - l + k - 1 /\ k \in Int /\ m \in Int /\ n \in Int /\ l \in Int
        BY <3>1, <3>2
      <4> QED
        BY <4>1
    <3> QED
      BY <3>2, <3>4, <3>5, <3>6
  <2>8. Cardinality(seams) <= 1
    <3>1. \A j, k \in seams : j = k
      <4> SUFFICES ASSUME NEW j \in seams, NEW k \in seams PROVE j = k
        OBVIOUS
      <4>1. j - 1 = k - 1
        BY <2>7
      <4>2. j \in 1..l /\ k \in 1..l
        BY <2>4
      <4> QED
        BY <4>1, <4>2
    <3>2. CASE seams = {}
      BY <3>2, FS_EmptySet
    <3>3. CASE seams # {}
      <4>1. PICK k : k \in seams
        BY <3>3
      <4>2. seams = {k}
        BY <3>1, <4>1
      <4>3. Cardinality({k}) = 1
        BY FS_Singleton
      <4> QED
        BY <4>2, <4>3
    <3> QED
      BY <3>2, <3>3
  <2> HIDE DEF seams
  <2>9. \A k \in seams : returns[k] = <<windowCount, windowCount - windowSize + 1>> /\ windowCount >= windowSize
    BY <1>1, <2>7
  <2> QED
    BY <2>6, <2>8, <2>9 DEF seams
<1> QED
  BY <1>3, <1>4, <1>5

(* The newest price is in the slot of its remainder.                       *)
LEMMA NewestInWindow ==
  ASSUME WindowInv, NEW w, w = Windows!Window(windowPrices, windowCount),
         NEW d, d = windowSize, NEW c, c = windowCount, c >= 1,
         NEW s, s = ((c - 1) % d) + 1
  PROVE  s \in 1..Len(w) /\ \A m \in 1..Len(w) : w[m] = c <=> m = s
<1>1. /\ d \in Nat \ {0} /\ c \in Nat /\ Len(w) = IF c < d THEN c ELSE d
      /\ \A m \in 1..Len(w) : w[m] \in 1..c /\ w[m] > c - d /\ (w[m] - 1) % d = m - 1
  BY WindowFacts
<1>2. PICK t \in Nat : t = c - 1
  BY <1>1
<1>3. PICK r \in 0..(d - 1) : r = t % d
  BY <1>1, RemainderNext
<1>4. s = r + 1
  BY <1>2, <1>3
<1>5. s \in 1..Len(w)
  <2>1. CASE c < d
    <3>0. t < d
      BY <1>1, <1>2, <2>1
    <3>1. r = t
      BY <1>1, <1>3, <3>0, RemainderNext
    <3> QED
      BY <1>1, <1>2, <1>4, <2>1, <3>1
  <2>2. CASE c >= d
    BY <1>1, <1>3, <1>4, <2>2
  <2> QED
    BY <1>1, <2>1, <2>2
<1>6. ASSUME NEW m \in 1..Len(w) PROVE w[m] = c <=> m = s
  <2>1. PICK u \in 1..c : u = w[m] /\ u > c - d /\ (u - 1) % d = m - 1
    BY <1>1
  <2>2. m \in Int /\ r \in Int
    BY <1>1, <1>3
  <2>3. CASE u = c
    <3>1. m - 1 = r
      BY <1>2, <1>3, <2>1, <2>3
    <3> QED
      BY <1>4, <2>1, <2>2, <2>3, <3>1
  <2>4. CASE m = s
    <3>1. m - 1 = r
      BY <1>4, <2>2, <2>4
    <3>2. (u - 1) % d = (c - 1) % d
      BY <1>2, <1>3, <2>1, <3>1
    <3>3. c \in 1..c /\ c > c - d
      BY <1>1
    <3>4. u = c
      BY <1>1, <2>1, <3>2, <3>3, OneTickPerSlot
    <3> QED
      BY <2>1, <2>4, <3>4
  <2> QED
    BY <2>1, <2>3, <2>4
<1> QED
  BY <1>5, <1>6

(* The last return is of the newest price while that is in the last slot,  *)
(* and some return is while it is no further back than the lookback.       *)
LEMMA NewestInReturns ==
  ASSUME WindowInv, NEW w, w = Windows!Window(windowPrices, windowCount),
         NEW d, d = windowSize, NEW c, c = windowCount,
         NEW s, s = ((c - 1) % d) + 1, returns # <<>>
  PROVE  /\ returns[Len(returns)] = <<c - 1, c>> <=> s = Len(w)
         /\ (\E r \in Windows!Read(returns) : c \in {r[1], r[2]}) <=> s >= Len(w) - Len(returns)
<1>1. /\ d \in Nat \ {0} /\ c \in Nat /\ Len(w) = IF c < d THEN c ELSE d
      /\ \A m \in 1..Len(w) : w[m] \in 1..c
  BY WindowFacts
<1>2. PICK n \in Nat : n = Len(w)
  BY <1>1
<1>3. n >= 3
  BY <1>2 DEF WindowInv, WindowRead, Windows!Returns
<1>4. PICK l \in 1..(n - 1) : l = IF lookback < n - 1 THEN lookback ELSE n - 1
  <2>1. lookback \in Nat \ {0}
    BY DEF WindowInv, WindowTypes
  <2>2. (IF lookback < n - 1 THEN lookback ELSE n - 1) \in 1..(n - 1)
    BY <1>3, <2>1
  <2> QED
    BY <2>2
<1>5. returns = [k \in 1..l |-> <<w[n - l + k - 1], w[n - l + k]>>]
  BY <1>2, <1>3, <1>4 DEF WindowInv, WindowRead, Windows!Returns
<1>6. Len(returns) = l /\ DOMAIN returns = 1..l
  BY <1>4, <1>5
<1>7. s \in 1..n /\ \A m \in 1..n : w[m] = c <=> m = s
  <2>1. c >= 1
    BY <1>1, <1>2, <1>3
  <2> QED
    BY <1>2, <2>1, NewestInWindow
<1>8. returns[l] = <<w[n - 1], w[n]>>
  <2>1. n - l + l - 1 = n - 1 /\ n - l + l = n /\ l \in 1..l
    BY <1>4
  <2> QED
    BY <1>5, <2>1
<1>9. ASSUME w[n] = c PROVE w[n - 1] = c - 1
  <2>1. PICK k \in 1..n : k = n - 1 /\ k + 1 = n /\ k + 1 \in 1..n
    BY <1>3
  <2>2. \/ w[k + 1] = w[k] + 1
        \/ w[k] = c /\ w[k + 1] = c - d + 1 /\ c >= d
    BY <1>2, <2>1, NextInWindow
  <2>3. PICK t \in 1..c : t = w[k]
    BY <1>1, <1>2, <2>1
  <2>4. d >= 3
    BY <1>1, <1>2, <1>3
  <2>5. c = t + 1 \/ c = c - d + 1
    BY <1>9, <2>1, <2>2, <2>3
  <2>6. t = c - 1
    BY <1>1, <2>3, <2>4, <2>5
  <2> QED
    BY <2>1, <2>3, <2>6
<1>10. returns[l] = <<c - 1, c>> <=> s = n
  <2>1. n \in 1..n
    BY <1>3
  <2>2. w[n] = c <=> s = n
    BY <1>7, <2>1
  <2> QED
    BY <1>8, <1>9, <2>2
<1>11. ASSUME NEW k \in 1..l, c \in {returns[k][1], returns[k][2]} PROVE s >= n - l
  <2>1. PICK i \in 1..n, j \in 1..n : /\ i = n - l + k - 1 /\ j = n - l + k
                                      /\ i >= n - l /\ j >= n - l
    <3>1. n - l + k - 1 \in 1..n /\ n - l + k \in 1..n
      OBVIOUS
    <3>2. n - l + k - 1 >= n - l /\ n - l + k >= n - l
      OBVIOUS
    <3> QED
      BY <3>1, <3>2
  <2>2. returns[k] = <<w[i], w[j]>>
    BY <1>5, <2>1
  <2>3. w[i] = c \/ w[j] = c
    BY <1>11, <2>2
  <2>4. i = s \/ j = s
    BY <1>7, <2>3
  <2> QED
    BY <2>1, <2>4
<1>12. ASSUME s >= n - l PROVE \E k \in 1..l : c \in {returns[k][1], returns[k][2]}
  <2>1. w[s] = c
    BY <1>7
  <2>2. CASE s = n - l
    <3>1. 1 \in 1..l /\ n - l + 1 - 1 = s
      BY <1>7, <2>2
    <3>2. returns[1] = <<w[s], w[n - l + 1]>>
      BY <1>5, <3>1
    <3> QED
      BY <2>1, <3>1, <3>2
  <2>3. CASE s # n - l
    <3>1. PICK k \in 1..l : k = s - (n - l) /\ n - l + k = s
      <4>1. s - (n - l) \in 1..l /\ n - l + (s - (n - l)) = s
        BY <1>7, <1>12, <2>3
      <4> QED
        BY <4>1
    <3>2. returns[k] = <<w[n - l + k - 1], w[s]>>
      BY <1>5, <3>1
    <3> QED
      BY <2>1, <3>2
  <2> QED
    BY <2>2, <2>3
<1>13. (\E r \in Windows!Read(returns) : c \in {r[1], r[2]}) <=> s >= n - l
  BY <1>6, <1>11, <1>12 DEF Windows!Read
<1> QED
  BY <1>2, <1>6, <1>10, <1>13

(***************************************************************************)
(* Either rolling window is the latest prices and nothing else; its        *)
(* returns are of successive prices but for the seam between the newest    *)
(* and the oldest, and which of them is of the newest depends on its slot  *)
(* (update!, market_sde.jl:159-176; market_fractal.jl), for any window,    *)
(* lookback and least window.                                              *)
(***************************************************************************)
THEOREM WindowsAreRecent == MathSpec => []WindowIsRecent
<1>1. MathInit => WindowInv
  BY WindowStart DEF MathInit
<1>2. WindowInv /\ [MathNext]_mathVars => WindowInv'
  <2> SUFFICES ASSUME WindowInv, [MathNext]_mathVars PROVE WindowInv'
    OBVIOUS
  <2>1. CASE Windows!Update
    BY <2>1, WindowUpdate
  <2>2. CASE UNCHANGED windowVars
    BY <2>2, WindowUnchanged
  <2> QED
    BY <2>1, <2>2 DEF MathNext, mathVars
<1>3. WindowInv => WindowIsRecent
  <2> SUFFICES ASSUME WindowInv PROVE Windows!WindowIsRecent
    BY DEF WindowIsRecent
  <2>1. PICK w : w = Windows!Window(windowPrices, windowCount)
    OBVIOUS
  <2>2. Windows!Read(w) = Windows!Recent /\ Len(w) = Cardinality(Windows!Recent)
    BY <2>1, WindowReadsRecent
  <2>3. series # <<>> => series = w
    BY <2>1 DEF WindowInv, WindowRead, Windows!HurstSeries
  <2>4. LET seams == {k \in DOMAIN returns : returns[k][2] # returns[k][1] + 1}
        IN /\ UNION {{r[1], r[2]} : r \in Windows!Read(returns)} \subseteq Windows!Recent
           /\ Cardinality(seams) <= 1
           /\ \A k \in seams : /\ returns[k] = <<windowCount, windowCount - windowSize + 1>>
                               /\ windowCount >= windowSize
    BY <2>1, SeamsInWindow
  <2>5. /\ Windows!Read(Windows!Window(windowPrices, windowCount)) = Windows!Recent
        /\ Len(Windows!Window(windowPrices, windowCount)) = Cardinality(Windows!Recent)
        /\ series # <<>> => Windows!Read(series) = Windows!Recent
    BY <2>1, <2>2, <2>3, Zenon
  <2>6. \A S : Windows!Cardinality(S) = Cardinality(S)
    BY DEF Windows!Cardinality, Cardinality
  <2>7. PICK d, c, s : d = windowSize /\ c = windowCount /\ s = ((c - 1) % d) + 1
    OBVIOUS
  <2>8. returns # <<>> =>
          /\ returns[Len(returns)] = <<c - 1, c>> <=> s = Len(w)
          /\ (\E r \in Windows!Read(returns) : c \in {r[1], r[2]}) <=> s >= Len(w) - Len(returns)
    BY <2>1, <2>7, NewestInReturns
  <2> QED
    BY <2>1, <2>4, <2>5, <2>6, <2>7, <2>8, Zenon DEF Windows!WindowIsRecent
<1> QED
  BY <1>1, <1>2, <1>3, PTL DEF MathSpec
===============================================================================
