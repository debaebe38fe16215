# Limen Capital: TLA+ models and proofs

Limen Capital is a trading research system in two languages: a Julia *brain* (a
spiking reservoir over market pulses, routed by the NERO orchestrator), a Rust
*muscle* that turns readouts or JSON signals into simulated trades, and the wires
between them. This directory holds models of its parts in TLA+, the TLC
configurations that check them, and TLAPS proofs, for every value of the constants, of
all the safety the passing runs check.

    tlc -config MC_Muscle.cfg MC_Muscle     # any MC_*.cfg, with the module of its run
    tlapm Muscle_proofs.tla                 # any *_proofs.tla, and Lemmas.tla

`PROJECT.json` lists components, runs, the mutated definitions every property is
known to reject, the source lines of every definition, findings, hazards and
theorems. Line numbers below refer to the repository.

## 1. Inventory

| Component | State it keeps | Operations | Talks to | What makes it correct |
|---|---|---|---|---|
| **JSON broadcaster** `strategy/signal_broadcaster.jl` | ZMQ context and PUB socket, `owner_lock_fd`, message count; in the kernel the lock file, flock, socket path | constructor (open, flock, remove stale, bind), `broadcast_trade`, `shutdown` | other broadcasters of any process through one path; libzmq's I/O thread; subscribers | one owner at a time; a live owner's path is its own; no lock or descriptor leaks; what is no socket kept |
| **Endpoint resolution** `execution/src/wire.rs`, `signal_broadcaster.jl` | none; the default directory in the file system | validate override, choose default, check/create/chmod the directory | the other language's copy of itself | both sides meet, in a private directory |
| **Muscle** `execution/src/main.rs`, `lib.rs` | last pulse, engine (wallet, sizer balance, step), spawned tasks; the ledger's log on disk | binary and JSON receive loops, task per signal, `process_signal`, Ctrl-C | brain and broadcaster by PUB/SUB; ledger crate | trades are those received, sized on the funds there are; each decided once; the log outlives kills; shutdown |
| **Sizing** `execution/src/kelly.rs`, `market_kelly.jl` | none | Kelly fraction, size, offline CLI | muscle | growth-optimal, fails closed |
| **Binary wire** `execution/src/binary_wire.rs`, `wire.rs`, `brain/market_types.jl` | none | pack, validate, decode pulse and readout; `readout_to_trade` | brain and muscle | same frames accepted and read alike; malformed frames trade nothing |
| **Brain loop** `brain/spike_helm.jl`, publisher `execution/src/bin/market_sim.rs` | one tick counter per part | receive, decode, features, step, record, analyse, route, publish; `finally` | everything in the brain | counters agree; frames in order; readouts join the vault; a bad frame holds nothing up |
| **Vault** `brain/vault_recorder.jl` | market and spike buffers, `tick_count`; DuckDB tables | `record_tick!`, `flush_vault!`, `close_vault!` | brain loop; DuckDB | one run's rows and spikes, once; complete when closed; flushes end |
| **Spike recorder** `brain/spike_recorder.jl` | byte buffer, pointer, count, file | `record_spikes!`, flush, close | experiment loop | no overrun, no loss, order |
| **Experiment and metrics** `brain/experiment_runner.jl`, `metrics.jl` | collector columns under one count | `record_tick!`, `finalize_metrics` | recorder, reservoir | no look-ahead, fair grade |
| **Reservoir** `brain/naut_core.jl`, `reservoir.jl`; **inhibition** `hft_inhibition.jl` | membranes, refractory counters, history ring, traces, readout weights | `step!` per lobe | brain loop | refractoriness, exact history, monotone stress map, causal learning |
| **NERO** `brain/synapse_conductor.jl` | relevance (also its scratch buffer), EMAs | `update_relevance!`, aggregation | lobes, readout trailer | its trailer is a weight simplex; no lobe silenced |
| **Features, encoder, Hawkes** `brain/feature_stream.jl`, `market_encoder.jl`, `math/market_hawkes.jl` | event and price ring, anchors | `update_features!`, `encode!` | pulse, reservoir | rings hold what they claim; no drift lost |
| **Rolling SDE / Hurst** `math/market_sde.jl`, `market_fractal.jl` | price rings | `update!` | none yet | reads the latest prices only |
| FastReflex `math/market_lsm.jl` | regression weights | off by default | features | not modelled |
| **dYdX feed** `execution/src/dydx.rs` | price cache under a lock | `poll_prices`, `get_price`, `get_orderbook`, getters | the exchange over HTTP; no binary uses it yet | no old price over a new one; polls end; quote and book agree |
| **Ghost training** `execution/src/bin/train_ghost.rs` | none | `load_ghost_trades`; rewards | the ledger's log | loads every trade the log has |
| Research helm, sonar probe, adapters, scripts, tests | none of their own | offline or entry points | | not modelled |

Behaviour that is hard here: broadcasters of several processes and libzmq's reaper
around one name in the file system; tokio tasks running in any order against one
wallet while prices move; Ctrl-C and exceptions between any two Julia statements,
with `finally` blocks that flush again; a database that outlives the process whose
counters start over, and a log a kill may tear; lossy PUB/SUB with refused frames;
overlapping HTTP polls answered out of order; two languages that decode
the same bytes and resolve the same endpoint; rings read before they are full and
after they wrapped. `PROJECT.json` lists each as a hazard at its line.

## 2. Modules

Every module states its abstraction in its header. An action is one statement,
system call or handler: what runs without a point where something else can happen
is one action, with every state change of the code in it.

**`EndpointMutex`** is the promise of the broadcaster: an endpoint with at most one
owner and one server, taken, served, retired and yielded in that order.
**`IpcOwner`** is the protocol itself, one action per system or ZMQ call:
`OpenLock`, `Flock`/`FlockBusy`, `RemoveStale`, `Bind` and their failures are the
constructor; `CloseSocket`, `Term`, `Release`, `ShutdownAgain` are `shutdown`;
`Reap` is libzmq destroying the listener and unlinking its path, `Crash` the death
of a process. Kernel state is explicit (`fdTable`, `flocks`, `lockFile`, `path`),
because the hazards live in the difference between a name and what it leads to. What a
path can hold besides a socket is `NotASocket`, which the constructor refuses, or
`DanglingLink`, which `ispath` does not see (`IsPath`).
It implements `EndpointMutex` under the mapping `OwnerNow`, `ServerNow`.

**`JsonEndpoint`** runs the Rust and the Julia resolution side by side on one
environment and one pair of default directories, a step per file-system call.

**`Muscle`** (extends **`Kelly`**) has one receive loop in frame order (`Receive*`),
a set of spawned `tasks` that run in any order (`RunTask`), and the engine under
its lock (`ProcessSignal`, atomic because `process_signal` has no await). `wire` and
`useKelly` are chosen at the start, as by the environment. After `CtrlC` main is
returning, and the workers and the loop go on; `DropRuntime` closes the runtime to new
tasks, after which a task is run by a worker or cancelled (`CancelTask`), in any order;
`Exit` needs both the workers and the blocking loop to be done. The price
of a readout is fixed in the loop, before the task runs (main.rs:76-82), and the
sizer copies the wallet's balance inside the lock (`SyncSizer`). The ledger crate is
external: a buy may lower the balance to any value, a sell may raise it. `Kill` ends
the process between two tasks and `KillInTrade` inside the ledger's append; `Restart`
begins with a new wallet, step 0 and the old log. **`GhostLog`** is that log, as lines
that hold what was written between two newlines, and `load_ghost_trades` reading it:
a line that does not parse is skipped, one that is no text, because a record was cut
within a character (`Garbled`), ends the load in an error (`LoadFails`).

**`NervousWire`** holds both decoders of a pulse, the readout decoder and
`readout_to_trade`; a float is a small integer or `NonFinite`. **`Nero`** is
`update_relevance!`, with relevance as exact fractions and the exponential as a
table. **`DydxQuote`** is what `dydx.rs` makes of one answer, exact in a unit that the
synthetic spread divides. **`FormulaChecks`** puts these and `Kelly` before bounded inputs.

**`DydxFeed`** is `poll_prices`, each poll in its own task: a request goes out
(`Send`), an answer with a price of any moment since then comes back (`Answer`) or
does not (`Fail`), and is inserted under the lock (`Insert`); a poll may be dropped at
an await (`Cancel`). A price is the version of its market, so that old and new can be
told apart.

**`VaultRecorder`** is the vault, with the statements of a flush as actions, so that an
interrupt falls between an INSERT and the emptying of its buffer; `Restart` opens the
same tables. **`BrainLoop`** is the loop of `spike_helm.jl` with its queues, and drives an
instance of `VaultRecorder`: its `RecordTick` takes the vault's steps one by one,
`Fails` ends the loop at any statement of either and `finally` begins `close_vault!`
(`CloseVault`), which may itself throw (`CleanupThrows`) or end in the closing of the
sockets (`Cleanup`). `Kill` ends the process anywhere, `Restart` begins the next run at
tick 0 on the tables that are there. The other parts are the tick counters they keep.

**`SpikeRecorder`** and **`Metrics`** are composed by **`ExperimentRun`**: spikes of a tick
first, then its row, one interrupt for both, `finally` before the grade.

**`Reservoir`** steps all lobes with a threshold raised by `HftInhibition`; noise makes
an integrating membrane any level. Learning (`Learn`) precedes the readout (`ReadOut`)
within a step, as in the code, so it uses the readout of the tick before; a rise of a
weight may be lost to rounding. **`Hawkes`** and **`Features`** are the ring, gain and
delta encoder; **`RollingWindow`** the SDE and Hurst rings, where a price is named by the
tick it came with; **`MarketMath`** feeds all of them one price stream.

The proofs about a component are in a module that extends it (section 5):
**`Protocols_proofs`** (the endpoint's owner, its two resolutions and the feed),
**`Muscle_proofs`** (with the ghost log), **`BrainLoop_proofs`** (with the vault),
**`ExperimentRun_proofs`** (with recorder and collector), **`Reservoir_proofs`**,
**`MarketMath_proofs`** (with the event ring, the encoder and the windows) and
**`FormulaChecks_proofs`** (with sizing, wire, NERO and quotes). **`Lemmas`** has what several
of them need about numbers, sums and orderings.

An operator whose comment begins with "Mutated" is a plausible wrong version of the
definition after it. No specification uses it: it is there to show that the
property it is paired with in `PROJECT.json` can fail.

## 3. Runs

| Run | What it shows | Bounds, and why they suffice |
|---|---|---|
| `ipc_owner` | exclusion, intact path, no leaks, files that are no sockets kept, counted signals served, refinement, termination | 3 broadcasters, two in one process (descriptor reuse needs one process, contention two); 2 descriptors per process, 2 inodes (a second inode is what a re-created lock file would be); 1 signal each |
| `endpoint` | both sides meet in a private directory; nothing else touched | every shape of override, every kind of leaf at both directories: the whole input space of the code's tests |
| `formulas` | decoders agree, fail closed, strongest pair and the research grade's direction, sound stakes, quote and book agree, NERO's trailers accepted with every lobe in them | 2 assets and 2 pairs (index arithmetic repeats), values at and beyond each bound, non-finite and missing ones included; NERO with its 4 lobes and matrix, 2 ticks |
| `muscle` | trades as received, within funds, accounted once, kept in the log, and signals decided, whatever Ctrl-C and kills interrupt | 3 frames: two signals with a pulse between them, or three contending signals; 3 balances; 2 runs, so that a torn line is written on, closed, and followed by a line of its own |
| `brain` | counters agree, order, readouts join the vault, a closed vault is complete, one run persisted, queue and flush served | 4 pulses, queues of 2 (so both overflow), batches of 2 (two flushes, or one and a remainder), Monte Carlo every second tick, 2 lobes, 2 runs |
| `experiment` | exact buffer, complete file, walk-forward, fair summary | 3 ticks, horizon 1, 2 lobes, a buffer of 2 events and 6 bytes |
| `reservoir` | refractoriness, exact history, monotone map, learning from the last readout | 8 ticks over a ring of 3, a refractory time of 2 and learning every 3 ticks, so that the second learning follows spikes, silences and the bound on weights; stresses around every gate |
| `market_math` | ring, drift, windows | 5 ticks, event ring of 2, window rings of 3 and 4, so every ring wraps |
| `dydx` | an old price over a new one only under overlap; polls end | 2 tasks, 2 tickers, one polled alone and after the other; 2 moves of each market (an old, a newer and a newest price) |
| `vault_restart` | **violated**: a second run on the database can add its rows | the vault alone: batch of 2, 5 ticks, 2 runs |
| `muscle_shutdown` | **violated**: Ctrl-C ends the process | 2 frames |
| `hawkes_sum` | **violated**: all events of the window are summed | 5 ticks, ring of 3 |

`CHECK_DEADLOCK FALSE` stands where the program stops or the bound on its inputs
does: a run that has ended, a process after Ctrl-C, tables of inputs.
`ipc_owner` and `dydx` check deadlock.

Prices in `Metrics` divide `Scale`, so returns are exact; they are positive, so the
guard `p0 > 0 || continue` (metrics.jl:103) is always passed.

## 4. Fairness

* `IpcOwner`: weak fairness of every constructor step after the open, of the
  reaper, of `Term` and `Release`: none waits for another broadcaster. Nothing
  makes a constructor start, a signal be sent, a shutdown be called, a process crash
  or `ZMQ.term` throw. The reaper ends because subscribers drain or disconnect.
* `Muscle`: tokio polls every spawned task or, once the runtime is being dropped, may
  cancel it instead (`WF(RunTask \/ CancelTask)`); main returns after Ctrl-C, and the drop
  ends once it can. Nothing makes frames, ZMQ errors or Ctrl-C happen.
* `BrainLoop`: the loop with the vault's flush, its `finally` with the closing of the
  vault, and the muscle's receive run on, and an INSERT that violates a key raises.
  Pulses, other exceptions, kills, restarts and lost frames are not forced.
* `DydxFeed`: a task that can go on is polled. The server need never answer or fail,
  for the client has no timeout; nobody need poll or drop a poll. `PollEnds` therefore
  allows a poll to wait for ever, on one request of its own, and for nothing else.

## 5. What is proved

Every invariant, action property and refinement that a passing run checks is a theorem,
for every value of the constants, from the assumptions the modules state on them. The four
liveness properties are not (end of this section).

**The owner of the endpoint.** `Protocols_proofs` proves, for any sets of broadcasters,
processes, descriptors and inodes and any assignment of broadcasters to processes, under
`OwnerAssumption` (descriptor, inode and marker names are distinct; nothing else):

* `Inductive`, `TypeCorrect`: the inductive invariant, and types;
* `ExclusiveOwnership`: `MutualExclusion`;
* `NoTheft`: `EndpointIntact`;
* `NothingIsLeaked`: no orphaned flock, descriptors exactly accounted for;
* `OthersFileIsKept`: what is no socket stays, unless it is a symlink that leads nowhere, which
  only a bind by the owner of the lock replaces (`OthersFileKept`; section 6);
* `CountedSignalsServed`: `CountedWhileServing`;
* `Refinement`: `IpcOwner` implements `EndpointMutex`.

*The argument.* Exclusion alone is not inductive: two broadcasters could hold flocks of
two inodes. `IndInv` adds that a descriptor is remembered exactly between open and release
(`PcFd`), that every remembered descriptor leads to the one inode the lock file's name
leads to (`FdFile`; this is why the sidecar is never unlinked), that an owner's descriptor
is what holds that inode's flock (`OwnerHoldsFlock`), that every flock belongs to an
owner, that open and remembered descriptors coincide (`DescriptorsAccounted`), and that a
listener is at the path and only while its broadcaster is live or closing
(`ListenerAtPath`; this is why the flock is only released after `ZMQ.term`). Exclusion
follows since one inode has one flock holder and a process remembers each descriptor once.
Preservation is shown per action, with lemmas for the steps that leave the lock alone
(`SteadyStep`), that give it up (`GiveUpStep`), that open, that flock, and the crash. The
refinement shows that the mapped owner and server change only as `EndpointMutex` allows.

**Where it is.** The same module proves of `JsonEndpoint`, for any names and any default
directories, under `EndpointAssumption` (the names of the outcomes and of the directories
are distinct from each other and from override values; nothing else): `TheSidesMeet` and
the action property `NothingElseIsTouched`. `EndpointInv` says of each side what it has
found at the default directory by the step it is about to take; it survives the other
side's steps because these only make a directory more private.

**The feed.** It proves of `DydxFeed`, for any sets of pollers and tickers, any lists and
any bound on the moves, under `FeedAssumption`: `FeedTypeCorrect`, and
`NoRollbackWithoutOverlap`, which states `GoesBackOnlyInOverlap`. That an insert never
goes back without an overlap is a property of one step, but it needs to know that versions
are ordered along a request: what was cached when it was sent is no newer than the market
was then, the market only moves on, the answer lies between the two, and no cached price
is ahead of its market. `FeedInv` states these orderings with the types; from it the step
of `Insert` follows, since a reply older than the cached price can then only be older than
one cached after the request went out.

**The muscle.** `Muscle_proofs` proves, for any frames, tickers, balances and sizing
parameters, any number of frames and of runs, under `MuscleAssumption`, `KellyAssumption`,
`FramesAssumption` (a frame has the shape its decoder gives it; wire.rs, lib.rs:42-46) and
`TornAssumption` (what is left of a cut record is no record): `MuscleTypeCorrect`,
`TradesAsReceived`, `TradesWithinFunds`, `SignalsAccounted` and `TheLogKeepsTrades`.

*The argument.* What was executed says nothing of a task that has yet to run, so
`MuscleInv` says of each task too that its signal is what its frame said under the last
pulse of its run before it (`SignalsAsReceived`; the pulse in hand is that of the next
frame), that a frame's signal is in one task or has one verdict, never both and never
neither (`OnePlace`), and that steps count the trades of their run (`StepsInOrder`: an
`executed` entry of an earlier run is not counted again after a restart). Funds at the
time of a decision are in the entry (`TradedWithinFunds`), which the gates of `Decision`
bound, whatever the ledger does to the wallet afterwards.

Of the log, what is loaded is in the order of the trades because what is written is:
`LogInv` says that a line that parses records one executed trade and that these come in
order (`LinesInOrder`), what a line left open can hold (`OpenLine`), and that a trade on
no line of its own is the last of a run killed over it (`CutOff`; the history
variable `cutRuns` names such runs, and all of them are over, `CutRunsOver`) or was
written on the line one such left open (`TradesKept`). The reader keeps the lines that parse with a recursive
function over the lines; what it returns is found by induction on them, from a least
counterexample.

**The brain and its vault.** `BrainLoop_proofs` proves, for any number of lobes, queue and
batch sizes, pulses and runs, under `BrainAssumption` and `VaultAssumption`:
`OneRunIsPersisted`, `CountersStayTogether`, `ReadoutsKeepOrder`, `ReadoutsJoin`,
`ClosedVaultIsComplete`; and that the loop drives its vault as `VaultRecorder` allows
(`LoopDrivesVault`), so that what holds of the vault alone (`VaultKeepsOneRun`) holds in
the brain.

*The argument.* `VaultInv` says at each statement of a flush what the buffers hold against
the tables: the k rows in the table are the first ticks of one run; the buffer either
follows them (`Unsaved`), or is in the table already between the INSERT and its emptying
(`Saved`), which is why a second INSERT throws instead of doubling rows, or begins with a
tick an earlier run has taken (`Foreign`), which is why a later run adds nothing.
`BrainInv` adds that each counter is at the number of pulses handled, less one until its
own statement of the current tick is past (`Counters`); that the queue holds pulses later
than those handled (`PulsesInOrder`); that every row, buffered or stored, and every
readout on its way is about the pulse its run accepted at its tick (`RowsJoin`,
`StreamJoins`); and which statement an interrupt cut short, for `ClosedVaultIsComplete`
(`RowsKept`, `SpikesKept`).

**A research run.** `ExperimentRun_proofs` proves, for any buffer, lobes, neurons,
duration, prices, costs and horizons, under `RecorderAssumption` and `GradingAssumption`:
`SpikesBufferedExactly`, `ClosedSpikeFile`, `GradeIsWalkForward`, `TheSummaryIsFair`; and,
as steps on the way that a reader may want by themselves, that a run refines its recorder
and its collector (`RunDrivesRecorder`, `RunDrivesCollector`) and that a run not cut
inside a row is graded (`RunIsGraded`).

*The argument.* `RecorderInv` says how much of the buffer is in the file at each statement
(`FileState`): all of it between write and reset, none of it elsewhere, and after an
interrupt either, so that a close may write it twice. `PointerExact` ties the 1-based
pointer to the number of events, which with the test before a pack bounds it.
`CollectorInv` says how long each column is at each statement of a row (`RowsAt`), which
row an interrupt may have left short (`RowsLeft`), and that the summary is the grade of
these columns (`SummaryIs`). The grade is fair to both signs because turning every score
around turns every term of its sums around; a sum is followed along its fold (`Lemmas`). A
percentile is a rank because the columns can be sorted (`SortingExists`) and as many
latencies are below the k-th of any such order as its place says (`RankOf`).

**The reservoir.** `Reservoir_proofs` proves, for any lobes, neurons, levels, refractory
time, depth and learning period, under `ReservoirAssumption` (every field of a stress is
an integer): `NeuronsRest`, `HistoryIsExact`, `StressRaisesThreshold` and the action
property `LearningFollowsReadout`. `ReservoirInv` relates the state to the log of all
spikes: a neuron that spiked k ticks ago has at least RefracT - k ticks to count and is at
the reset potential, which the threshold, never lowered below its base by inhibition,
stays above (`Counting`); row and tick agree modulo the depth (`RingInOrder`); and traces
and readout are of cells that spiked (`TracesSpiked`, `OutputSpiked`).

**The estimators.** `MarketMath_proofs` proves, for any prices, decay, thresholds and
windows, under `HawkesAssumption`, `FeaturesAssumption` and `WindowsAssumption`:
`DriftIsReported`, `WindowsAreRecent`, and `RingIsExact` for an event ring of more than
one slot (of one slot it is false, see section 6; the brain's has 100). `HawkesInv` says
which update a slot is from; `EncoderInv` that while an asset is silent its anchor is the
price it spiked at, or within that pulse's threshold of the price, from which `DriftAdds`
gets the sum of the two thresholds; `WindowInv` that a slot holds the recent tick
congruent to it, from which the seam is unique, the newest price has one slot
(`NewestInWindow`), and the returns that are of it follow (`NewestInReturns`).

**The formulas.** `FormulaChecks_proofs` proves, for any number of assets, pairs and
lobes, any integers or `NonFinite` in the fields and any depth, under `FormulaAssumption`,
`WireAssumption`, `ConductorAssumption` and `DydxAssumption`:

* `TheDecodersAgree`: both languages accept the same pulses, by writing each decoder's
  verdict out as bounds on the fields (`RustAccepts`, `JuliaAccepts`), and re-packing an
  accepted pulse changes nothing since a clamp done twice is a clamp (`ClampStable`);
* `PacketsFailClosed` and `TradesFollowTheStrongestPair`: what `readout_to_trade` picks is
  a largest score (`PrimaryIs`), and a mirrored packet has the mirrored scores in the same
  order (`MirroredScore`), so the same pick and the other side;
* `TheStakesAreSound`: the closed form of `kelly.rs` is the stationary point of the growth
  rate, or the end of [0, 1] its slope points to (`InteriorIsStationary`); the offline
  CLI, whose probability is clamped, stakes no more (`CliFullIsLess`);
* `QuotesAndBooksAgree`: the figures of a quote and of a book of any depth written out
  (`QuoteIs`);
* `TheTrailersAreSound`, under the hypothesis `ExpFalls` (the exponential of the softmax
  is a natural number that falls with its argument, as `exp(-d)` does in the model's
  units): the softmax's terms add up to its total (`SoftmaxIs`), the floor and its
  normalisation leave every lobe a positive share and the sum within 1/20 of one
  (`FlooredIs`, `Renormalised`). `NeroConstants` asks that the guard against division by
  zero be at most a hundredth of the exponential's unit; the code's is 1e-6
  (synapse_conductor.jl).

**`Lemmas`** holds what several of these need: induction over the naturals by a least
counterexample (`LeastNatural`, `SetOfAllNaturals`), remainders, sums by `FoldFunction`
(the fold is shown to be a table over the subsets of its domain, `SumIsTable`, from which
one more element adds its term), a largest element, and that a finite sequence can be
sorted.

*Only model-checked*: `SignalsDecided`, `QueueServed`, `PollEnds`, `EveryCallEnds`.
Liveness under fairness is beyond the prover.

## 6. What the models show about the code

Checked as violations:

* **Ctrl-C does not end the muscle** (`muscle_shutdown`). `main` returns and drops the
  runtime, which waits for the `spawn_blocking` receive loop, which waits for a frame
  (main.rs:70, 111). Until the drop, signals are received, spawned and traded as before;
  from then on what arrives is cancelled.
* **A second brain run on one database loses its rows** (`vault_restart`).
  `tick_count` starts at 0 while `tick_id` is the primary key of a table that is kept
  (vault_recorder.jl:41-66). `OneRunPersisted` says the same positively: the table
  holds a prefix of one single run.
* **The Hawkes sum reads the wrong slots** (`hawkes_sum`). The loop bounds itself by
  the count of events, but events are stored in the slot of their tick
  (market_hawkes.jl:174, 185).

Seen while modelling, present in the models, with no run of their own:

* A dangling symlink is not refused. "Remove a Unix socket at `path` if present; refuse
  regular files/dirs/symlinks" (signal_broadcaster.jl:262), but `ispath` (lines 126 and
  264) follows symlinks, so one whose target is gone passes for no path at all, the
  refusal of line 265 is not reached, and the bind replaces it. `OthersFileKept` says what
  holds: anything else that is no socket stays, and such a symlink goes only in a bind by
  the owner of the lock.
* The SDE surprise is of an old return once the ring has wrapped. The ring is read in
  slot order (market_sde.jl:170), and its last slots are taken for "the most recent price"
  and "the most recent observed return" (lines 48 and 83). With the default window of 128
  and lookback of 64 the 129th price is not even among those read. `WindowIsRecent` says
  when the last return is of the newest price (its slot is the last), when any is (its
  slot is within the lookback of the ring's end), and that all that is read is in the
  window, with one seam at most.
* After an interrupt between the two halves of a flush, `close_vault!` returns early on
  the empty market buffer, drops the spikes and reports a graceful close
  (vault_recorder.jl:116, 149). `ClosedVaultComplete` shows that nothing else is lost by
  a close that does not throw. The same early return keeps a flush from being doubled
  (`OneRunPersisted`).
* A readout's tick starts over with every run of the brain, as the vault's does, and
  nothing else identifies its pulse: readouts of two runs can be joined to the vault
  only by who was running (`ReadoutsJoinVault` is stated per run).
* A Ctrl-C that arrives inside `decode_market_pulse` is caught as a bad frame and the
  loop goes on (spike_helm.jl:236-241).
* The wallet and the step counter start over with each run of the muscle while the log
  goes on (lib.rs:82-94): step numbers repeat in it. A run killed in an append costs
  the log at most its last trade and the next one written (`LogKeepsTrades`); the
  reader in plot_ghost_trades.jl throws on such a line, where train_ghost.rs warns. If
  the append was cut within a character (a ticker of the JSON wire may hold any), what
  is left is not UTF-8, and train_ghost.rs loads nothing at all (`line?`, line 127).
* The quantity sized and gated by the engine is not what is traded: the ledger is given
  ticker and price and sizes by itself (lib.rs:14-16, 199-226). `TradedWithinFunds` is
  about the policy's quantity.
* With the engine's payoff ratio of 0.05 every stake that is not zero is labelled
  "aggressive": the other tiers of `risk_tier` are never staked on (`StakesSound`).
* The dYdX spread is made up: 2/1999 of the middle, whatever the market does. The levels
  of a book lie an absolute thousandth apart, so those of a coin cheaper than
  `depth`/1000 have prices of zero and below; and `"NaN"` as an `oraclePrice` parses and
  is cached (dydx.rs:106-118, 152). Overlapping polls may put an old price over a new
  one (dydx.rs:201); one poll at a time does not.
* An interrupt inside `record_tick!` leaves `n_ticks` ahead of the prices, and
  `finalize_metrics` throws (metrics.jl:77; `BoundsError` in `Metrics`), and in no other
  case (`SummaryFair`).
* An event of the spike file names the neuron within its lobe and not the lobe, so
  events of different lobes can be equal (spike_recorder.jl:47); after an interrupt
  between write and reset, the last buffer is in the file twice
  (`ClosedFileComplete` states exactly this much).
* NERO's floor of 0.01 is not kept by the normalisation after it
  (synapse_conductor.jl:124, 195): `TrailerSound` states the bound that does hold. Its
  momentum is always 0, for the array it is compared with was just copied from it
  (synapse_conductor.jl:131, 156).
* A Scalper boost on a liquidity event has effect only when the tick is also a learning
  tick, one in ten, and the lobe fired on the tick before (naut_core.jl:316, 325, 510;
  `LearnsFromLastReadout`). Liquidity that leaves never boosts: the main loop passes
  the larger of the signed delta and an excess that is not negative
  (spike_helm.jl:259). The rule only raises weights, it never lowers one.
* An event ring of one slot compares every price with itself, for the price is stored
  before it is compared (market_hawkes.jl:163-169), and never has a second event.
  `window` is a parameter without a check; the brain uses 100.
* The offline Kelly CLI clamps its probability to [0.01, 0.99], unlike the engine
  (market_kelly.jl:19); `StakesSound` shows that it never stakes more.
* The latency probe decodes an all-zero pulse, which the decoder refuses
  (sonar_probe.jl:113-116).

## 7. Not modelled

Real-valued weights, readout values, covariance, aggregation and the batch estimators
(no state that control depends on); the Monte Carlo paths, whose results are not read;
logging, JSON and file formats, artefact writing; the two TCP endpoint getters; CURVE
keys; FastReflex's regression (its second update of the features is in `Features`); the
LiquidCortex backend, the ledger and the HTTP client, packages outside the repository;
rewards and plots of ghost training, benchmarks, adapters and scripts. Within what is
modelled: that an event of the spike file does not name its lobe, and that NERO's
momentum is always 0, are in the models as they are in the code, with no property of
their own.

## 8. Plan

1. *Done, core*: `EndpointMutex`, `IpcOwner` and its proofs; `Muscle` with `Kelly`;
   `BrainLoop`; `VaultRecorder`; `ExperimentRun`; the wire and NERO under
   `FormulaChecks`; `Reservoir`; `MarketMath`; `JsonEndpoint`.
2. *Done, extension*: `BrainLoop` composed with `VaultRecorder` under kills and restarts;
   `Muscle` over `GhostLog` under kills and restarts; `DydxFeed` with its proofs,
   `DydxQuote`; learning in `Reservoir`; `DirectionScore` against `ReadoutToTrade`.
3. *Done, proofs*: every invariant, action property and refinement that a passing run
   checks. What is left to TLC is the four liveness properties.
