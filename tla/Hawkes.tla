------------------------------- MODULE Hawkes -------------------------------
(***************************************************************************)
(* The streaming Hawkes intensity: RollingHawkes of math/market_hawkes.jl. *)
(* A ring of prices and a ring of event timestamps share one position; a   *)
(* tick is an event when its price differs from the last one by more than  *)
(* the threshold, or when it is the first.                                 *)
(*                                                                         *)
(* The caller's timestamp is its tick index.  An intensity is kept as the  *)
(* ages of the events it sums, Decay(age) = exp(-beta * age) being made a  *)
(* number only where one is compared.                                      *)
(***************************************************************************)
EXTENDS Integers, Sequences

CONSTANTS WindowSize, \* window_size
          Threshold,  \* threshold
          Prices,     \* prices of the primary asset
          MaxTicks    \* bound on the ticks

ASSUME HawkesAssumption == /\ WindowSize \in Nat \ {0}
                           /\ Threshold \in Nat
                           /\ Prices \subseteq Nat \ {0}
                           /\ MaxTicks \in Nat

VARIABLES now,     \* timestamp of the last update
          events,  \* events: a timestamp, or 0.0 where none was written
          prices,  \* prices: 0.0 where none was written
          pos,     \* pos
          count,   \* count
          ages,    \* the ages summed in the last intensity, by slot
          history  \* every update so far: its price and timestamp

hawkes == <<now, events, prices, pos, count, ages, history>>

Abs(x) == IF x < 0 THEN -x ELSE x
Slots == 1..WindowSize

HawkesInit == /\ now = 0
              /\ events = [i \in Slots |-> 0]
              /\ prices = [i \in Slots |-> 0]
              /\ pos = 1
              /\ count = 0
              /\ ages = <<>>
              /\ history = <<>>

-----------------------------------------------------------------------------
\* Mutated PrevPos: no wrap-around, as if the ring began at its end.
PrevPosUnwrapped == IF pos = 1 THEN 1 ELSE pos - 1

PrevPos == IF pos = 1 THEN WindowSize ELSE pos - 1

\* The first tick is an event, then every jump is.  The price is stored before it
\* is compared: in a ring of one slot, with itself.
IsEvent(price) == count = 0 \/ Abs(price - prices'[PrevPos]) > Threshold

\* The loop over the first min(count, window_size) slots, for ages not negative.
ActiveEvents ==
  {i \in 1..(IF count' < WindowSize THEN count' ELSE WindowSize) : now' - events'[i] >= 0}

Advance == pos' = IF pos >= WindowSize THEN 1 ELSE pos + 1

\* update!(rh, price, timestamp).
Update(price, timestamp) ==
  /\ now' = timestamp
  /\ prices' = [prices EXCEPT ![pos] = price]
  /\ IF IsEvent(price) THEN /\ events' = [events EXCEPT ![pos] = timestamp]
                            /\ count' = count + 1
                       ELSE UNCHANGED <<events, count>>
  /\ ages' = [i \in ActiveEvents |-> now' - events'[i]]
  /\ Advance
  /\ history' = Append(history, [price |-> price, time |-> timestamp])

-----------------------------------------------------------------------------
\* The updates that were events: the first and the jumps.
Jumps == {k \in DOMAIN history :
            k = 1 \/ Abs(history[k].price - history[k - 1].price) > Threshold}

\* The update that last went through slot i.
InSlot(i) == {k \in DOMAIN history : (k - 1) % WindowSize = i - 1}

\* Each slot holds the timestamp of the last jump that went through it, jumps
\* being between successive updates also where the ring wraps around, and the
\* last price that did (market_hawkes.jl:166-175).
RingHoldsJumps ==
  /\ \A i \in Slots :
       LET here == InSlot(i) \cap Jumps
       IN events[i] = IF here = {} THEN 0
                      ELSE history[CHOOSE k \in here : \A j \in here : j <= k].time
  /\ \A i \in Slots :
       prices[i] = IF InSlot(i) = {} THEN 0
                   ELSE history[CHOOSE k \in InSlot(i) : \A j \in InSlot(i) : j <= k].price

\* market_hawkes.jl:181 "Compute intensity using all events in window": the ages
\* are those of the events the ring holds.
AllEventsSummed ==
  \A age \in 0..now :
    LET summed == {k \in DOMAIN ages : ages[k] = age}
        held == {i \in Slots : events[i] # 0 /\ now - events[i] = age}
    IN (summed = {}) <=> (held = {})
=============================================================================
