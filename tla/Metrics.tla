------------------------------ MODULE Metrics ------------------------------
(***************************************************************************)
(* How a research run is graded: the tick loop of experiment_runner.jl     *)
(* fills a MetricsCollector (brain/metrics.jl) statement by statement, an  *)
(* interrupt may land between any two of them, and finalize_metrics grades *)
(* what was collected.                                                     *)
(*                                                                         *)
(* A score is its sign, as far as the 1e-6 threshold lets it count.        *)
(* Returns and costs are integers in units of 1/Scale, exact since every   *)
(* price divides Scale.                                                    *)
(***************************************************************************)
EXTENDS Integers, Sequences, FiniteSets, Functions

CONSTANTS Duration,    \* cfg.duration, the bound on the ticks
          Horizon,     \* cfg.horizon
          Prices,      \* the primary prices a tick may show
          Latencies,   \* the latencies a tick may have, in ms
          Scale, Cost, \* one, and cfg.cost_bps * 1e-4, in units of return
          BoundsError  \* finalize_metrics throws

MetricsConstants ==
  /\ Duration \in Nat /\ Horizon \in Nat \ {0}
  /\ Latencies \subseteq Nat /\ Scale \in Nat /\ Cost \in Nat
  /\ \A p \in Prices : p \in Nat \ {0} /\ Scale % p = 0
  /\ BoundsError \notin [labeled : Nat, hits : Nat, pnl : Int]

Signs == {-1, 0, 1}

VARIABLES pc,                          \* the statement about to run
          n_ticks, latencies, scores, prices, \* the collector ...
          rest,                        \* ... and how many rows its other columns have
          interrupted,
          summary                      \* what finalize_metrics returned, <<>> before

collector == <<n_ticks, latencies, scores, prices, rest>>
vars == <<pc, collector, interrupted, summary>>

Init == /\ pc = "tick" /\ n_ticks = 0
        /\ latencies = <<>> /\ scores = <<>> /\ prices = <<>> /\ rest = 0
        /\ interrupted = FALSE /\ summary = <<>>

-----------------------------------------------------------------------------
SignOf(v) == IF v > 0 THEN 1 ELSE IF v < 0 THEN -1 ELSE 0

Total(f) == FoldFunction(LAMBDA a, b : a + b, 0, f)

\* The return of holding from row t to row t + h.
Return(ps, t) == (Scale * (ps[t + Horizon] - ps[t])) \div ps[t]

\* Mutated Profit: the cost changes sides with the position.
ProfitCostSigned(pred, ret) == pred * (ret - Cost)

Profit(pred, ret) == pred * ret - (IF pred = 0 THEN 0 ELSE Cost)

\* Mutated Decided: the score of the row that labels is read.
DecidedLate(ss, t) == ss[t + Horizon]

\* The position the score of row t stands for.
Decided(ss, t) == ss[t]

\* The grading loop over the first n rows.
Grade(n, ss, ps) ==
  LET Graded == 1..(n - Horizon)
      Labelled == {t \in Graded : Decided(ss, t) # 0 /\ Return(ps, t) # 0}
  IN [labeled |-> Cardinality(Labelled),
      hits |-> Cardinality({t \in Labelled : Decided(ss, t) = SignOf(Return(ps, t))}),
      pnl |-> Total([t \in Graded |-> Profit(Decided(ss, t), Return(ps, t))])]

\* sort: the column in ascending order.
Sorted(xs) ==
  LET order == CHOOSE p \in Bijection(DOMAIN xs, DOMAIN xs) :
                 \A i, j \in DOMAIN xs : i < j => xs[p[i]] <= xs[p[j]]
  IN [i \in DOMAIN xs |-> xs[order[i]]]

\* pct: the element at the p-th hundredth, rounded up, of the sorted column.
Pct(xs, p) ==
  LET idx == (p * Len(xs) + 99) \div 100
  IN Sorted(xs)[IF idx < 1 THEN 1 ELSE IF idx > Len(xs) THEN Len(xs) ELSE idx]

-----------------------------------------------------------------------------
\* record_tick! counts the tick first ...
Count == /\ pc = "tick" /\ n_ticks < Duration
         /\ n_ticks' = n_ticks + 1
         /\ pc' = "latency"
         /\ UNCHANGED <<latencies, scores, prices, rest, interrupted, summary>>

\* ... and then appends to one column after the other.
PushLatency == /\ pc = "latency"
               /\ \E l \in Latencies : latencies' = Append(latencies, l)
               /\ pc' = "score"
               /\ UNCHANGED <<n_ticks, scores, prices, rest, interrupted, summary>>

PushScore == /\ pc = "score"
             /\ \E s \in Signs : scores' = Append(scores, s)
             /\ pc' = "price"
             /\ UNCHANGED <<n_ticks, latencies, prices, rest, interrupted, summary>>

PushPrice == /\ pc = "price"
             /\ \E p \in Prices : prices' = Append(prices, p)
             /\ pc' = "rest"
             /\ UNCHANGED <<n_ticks, latencies, scores, rest, interrupted, summary>>

PushRest == /\ pc = "rest"
            /\ rest' = rest + 1
            /\ pc' = "tick"
            /\ UNCHANGED <<n_ticks, latencies, scores, prices, interrupted, summary>>

EndLoop == /\ pc = "tick" /\ n_ticks = Duration
           /\ pc' = "finalize"
           /\ UNCHANGED <<collector, interrupted, summary>>

\* Ctrl-C in the loop: caught, the recorder closed, and on to the summary.
Interrupt == /\ pc \in {"tick", "latency", "score", "price", "rest"}
             /\ interrupted' = TRUE
             /\ pc' = "finalize"
             /\ UNCHANGED <<collector, summary>>

\* finalize_metrics reads rows up to n_ticks, whatever the columns hold.
FinalizeMetrics ==
  /\ pc = "finalize"
  /\ summary' = IF n_ticks > Horizon /\ Len(prices) < n_ticks THEN BoundsError
                ELSE Grade(n_ticks, scores, prices)
  /\ pc' = "done"
  /\ UNCHANGED <<collector, interrupted>>

Next == \/ Count \/ PushLatency \/ PushScore \/ PushPrice \/ PushRest
        \/ EndLoop \/ Interrupt \/ FinalizeMetrics

Spec == Init /\ [][Next]_vars

-----------------------------------------------------------------------------
Graded == pc = "done" /\ summary # BoundsError

\* "Walk-forward": what is graded was decided before it could be known. The
\* scores of the last h rows, whose labels lie in the future, are not read.
WalkForward ==
  Graded => \A alt \in [(DOMAIN scores) -> Signs] :
    (\A t \in 1..(n_ticks - Horizon) : alt[t] = scores[t])
      => Grade(n_ticks, alt, prices) = summary

\* The grade does not favour a side: the predictor that always says the
\* opposite hits exactly what this one misses, and the two together lose the
\* cost of both trades and nothing else.
OppositeMirrors ==
  Graded =>
    LET opposite == Grade(n_ticks, [t \in DOMAIN scores |-> -scores[t]], prices)
        Trades == {t \in 1..(n_ticks - Horizon) : scores[t] # 0}
    IN /\ opposite.labeled = summary.labeled
       /\ opposite.hits + summary.hits = summary.labeled
       /\ opposite.pnl + summary.pnl = -2 * Cost * Cardinality(Trades)

\* The reported p50 and p99 are nearest ranks: the least latency of the run
\* that at least that share of the ticks did not exceed.
NearestRank ==
  Graded /\ latencies # <<>> =>
    \A p \in {50, 99} :
      LET Covers(v) ==
            100 * Cardinality({t \in DOMAIN latencies : latencies[t] <= v}) >= p * Len(latencies)
      IN /\ Covers(Pct(latencies, p))
         /\ \A v \in {latencies[t] : t \in DOMAIN latencies} : Covers(v) => Pct(latencies, p) <= v

\* A run is left without a summary only by an interrupt inside record_tick!, over
\* the one row it cut; no interrupt elsewhere costs the run its grade.
UngradedOnlyIfCut ==
  pc = "done" /\ summary = BoundsError =>
    interrupted /\ Len(prices) = n_ticks - 1 /\ rest = Len(prices)

=============================================================================
