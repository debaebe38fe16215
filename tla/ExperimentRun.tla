--------------------------- MODULE ExperimentRun ---------------------------
(***************************************************************************)
(* run_experiment of brain/experiment_runner.jl: each tick first records   *)
(* its spikes (SpikeRecorder), then appends a row to the collector         *)
(* (Metrics).  Ctrl-C ends both anywhere; `finally` closes the spike file  *)
(* and only then is the run graded.                                        *)
(***************************************************************************)
EXTENDS SpikeRecorder

CONSTANTS Horizon, Prices, Latencies, Scale, Cost, BoundsError

VARIABLES mpc, n_ticks, latencies, scores, prices, rest, interrupted, summary

Grading == INSTANCE Metrics WITH pc <- mpc

ASSUME GradingAssumption == Grading!MetricsConstants

grading == <<mpc, n_ticks, latencies, scores, prices, rest, interrupted, summary>>
runVars == <<vars, grading>>

RunInit == Init /\ Grading!Init

\* Within a tick the spikes come before the row of the collector.
SpikesFirst == mpc = "tick" /\ n_ticks = tick - 1

RecordTick == /\ SpikesFirst \/ closing
              /\ RecordSpikes
              /\ UNCHANGED grading

CollectTick == /\ ~SpikesFirst
               /\ \/ Grading!Count \/ Grading!PushLatency \/ Grading!PushScore
                  \/ Grading!PushPrice \/ Grading!PushRest
               /\ UNCHANGED vars

RunNext == \/ RecordTick
           \/ CollectTick
           \/ EndLoop /\ Grading!EndLoop
           \/ Interrupt /\ Grading!Interrupt
           \/ Close /\ UNCHANGED grading
           \/ pc = "closed" /\ Grading!FinalizeMetrics /\ UNCHANGED vars

RunSpec == RunInit /\ [][RunNext]_runVars

-----------------------------------------------------------------------------
\* The grade reads no score of the last `horizon` rows (Metrics).
WalkForward == Grading!WalkForward

\* What the summary of a finished run says is fair: the grade favours neither
\* side, the latency percentiles are nearest ranks, and only an interrupt that
\* cut a row leaves the run without a summary (Metrics).
SummaryFair ==
  Grading!OppositeMirrors /\ Grading!NearestRank /\ Grading!UngradedOnlyIfCut
=============================================================================
