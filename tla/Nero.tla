-------------------------------- MODULE Nero --------------------------------
(***************************************************************************)
(* The NERO orchestrator of brain/synapse_conductor.jl: update_relevance!  *)
(* turns the lobes' activity into the relevance that pack_readout puts in  *)
(* the trailer of a readout, and Rust's decoder has to accept.             *)
(*                                                                         *)
(* A lobe's activity, alpha * density + beta * surprise, is an input in    *)
(* 1/100, and an inhibited score is in 1/10^4.  Exp is the exponential     *)
(* over Unit, underflow included.  The relevance of a lobe is num / den,   *)
(* exactly.                                                                *)
(***************************************************************************)
EXTENDS Integers, Functions

CONSTANTS Lobes,      \* N_LOBES
          Activities, \* activities a lobe may show
          Inhibit,    \* NERO_INHIBIT, percent, [from a lobe][to a lobe]
          Momentum,   \* what a momentum other than 0 adds to a raw score
          Unit,       \* 1.0, as a softmax term
          Epsilon,    \* NERO_EPSILON, over Unit
          Exp(_),     \* exp(-d), over Unit
          NonFinite,  \* NaN or an infinity
          MaxTicks    \* bound on the ticks

NeroConstants == /\ Lobes \in Nat \ {0}
                 /\ Activities \subseteq Nat
                 /\ Inhibit \in [1..Lobes -> [1..Lobes -> 0..100]]
                 /\ Momentum \in Nat
                 /\ Unit \in Nat \ {0}
                 /\ Epsilon \in Nat /\ 100 * Epsilon <= Unit
                 /\ Exp(0) = Unit
                 /\ MaxTicks \in Nat

VARIABLES tick,     \* tick_count
          num, den, \* relevance
          scores    \* the inhibited scores, before the softmax

vars == <<tick, num, den, scores>>

Lobe == 1..Lobes
Total(f) == FoldFunction(LAMBDA x, y : x + y, 0, f)
Largest(f) == CHOOSE m \in {f[i] : i \in Lobe} : \A i \in Lobe : f[i] <= m

\* NERO_MIN_SCORE = 1/100, as an inhibited score and as a softmax term.
MinScore == 100

Init == /\ tick = 0
        /\ num = [i \in Lobe |-> 1]
        /\ den = Lobes
        /\ scores = [i \in Lobe |-> MinScore]

-----------------------------------------------------------------------------
\* Momentum of each lobe: relevance[i] against prev_relevance[i], which the
\* tick has begun by copying from relevance; the raw score of a lobe replaces
\* its prev_relevance only afterwards.
MomentumOf(prevNum, prevDen) == [i \in Lobe |-> <<num[i], den>> # <<prevNum[i], prevDen>>]

RawScores(activity, moving) ==
  [i \in Lobe |-> activity[i] + (IF moving[i] THEN Momentum ELSE 0)]

\* Cross-lobe inhibition, floored at the minimum score.
Inhibited(raw) ==
  [dst \in Lobe |->
     LET score == 100 * raw[dst]
                  - Total([src \in Lobe |-> IF src = dst THEN 0 ELSE Inhibit[src][dst] * raw[src]])
     IN IF score < MinScore THEN MinScore ELSE score]

\* The stable softmax of the scores, its terms over their sum + epsilon, floored
\* at 1/100: a numerator over 100 * (sum + epsilon).
Floored(inhibited) ==
  LET term == [i \in Lobe |-> Exp(Largest(inhibited) - inhibited[i])]
      sum == Total(term) + Epsilon
  IN [n |-> [i \in Lobe |-> IF 100 * term[i] < sum THEN sum ELSE 100 * term[i]],
      over |-> 100 * sum]

\* Mutated Renormalise: each over the largest.
RenormaliseByLargest(floored) == /\ num' = floored.n
                                 /\ den' = Largest(floored.n)

\* Normalised once more: each over the sum of all + epsilon.
Renormalise(floored) ==
  /\ num' = [i \in Lobe |-> Unit * floored.n[i]]
  /\ den' = Unit * Total(floored.n) + Epsilon * floored.over

UpdateRelevance(activity) ==
  /\ tick < MaxTicks
  /\ tick' = tick + 1
  /\ scores' = Inhibited(RawScores(activity, MomentumOf(num, den)))
  /\ Renormalise(Floored(scores'))

Next == \E activity \in [Lobe -> Activities] : UpdateRelevance(activity)

Spec == Init /\ [][Next]_vars

-----------------------------------------------------------------------------
NoTanh(s) == 0
Wire == INSTANCE NervousWire WITH One <- den, Assets <- 7, Others <- 11, Pairs <- 8,
                                  MaxFinite <- 0, SideEps <- 0,
                                  Tanh <- NoTanh

\* Rust's decoder takes every trailer NERO makes: after two normalisations with
\* their epsilons and a floor in between, the weights are still a simplex.
TrailerAccepted ==
  Wire!RustDecodeReadout([readout |-> [k \in 1..16 |-> 0], relevance |-> num]).ok

\* No lobe drops out: its weight stays above 0 and close to the floor, though
\* its softmax term may underflow (the second normalisation shrinks the floor);
\* and relevance keeps the order of the inhibited scores, so the dominant lobe,
\* and the confidence that rests on it, is the most active one.
NoLobeSilenced ==
  /\ \A i \in Lobe : num[i] > 0 /\ num[i] * (100 + 3 * Lobes) >= den
  /\ \A i, j \in Lobe : scores[i] >= scores[j] => num[i] >= num[j]
=============================================================================
