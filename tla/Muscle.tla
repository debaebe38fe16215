------------------------------- MODULE Muscle -------------------------------
(***************************************************************************)
(* The Rust execution engine ("muscle"): the listener loop of main.rs, the *)
(* tasks it spawns, and ExecutionEngine::process_signal of lib.rs.         *)
(*                                                                         *)
(* One blocking thread receives frames in order and spawns a task for each *)
(* signal; tokio polls the tasks in any order; each locks the engine and   *)
(* runs process_signal to its end, for there is no await inside.  Ctrl-C   *)
(* makes main return; until that has dropped the runtime, tasks go on and  *)
(* are spawned.  The drop closes the runtime to new tasks, cancels those   *)
(* it finds one by one while the workers still run others, and waits for   *)
(* the workers and for the blocking thread.  The process may be killed at  *)
(* any time, in the middle of the ledger's append too; of a run only the   *)
(* ledger's log (GhostLog) remains to the next.                            *)
(*                                                                         *)
(* The ghost wallet (crate metabolic-ledger) is external: a buy may lower  *)
(* its balance, a sell may raise it.  Quantities as in Kelly.              *)
(***************************************************************************)
EXTENDS Kelly, GhostLog, FiniteSets

CONSTANTS Payoff,         \* the sizer's expected payoff ratio b
          Threshold,      \* confidence_threshold
          MaxPosition,    \* max_position_size
          Tickers,        \* tickers a pulse has a price for (ASSET_TICKERS)
          Frames,         \* the frames the publisher may send
          Balances,       \* balances the wallet can have
          InitialBalance, \* GhostWallet::new
          MaxFrames,      \* bound on the frames received
          MaxRuns         \* bound on the runs of the process

ASSUME MuscleAssumption == /\ Payoff \in Nat \ {0}
                           /\ Threshold \in Int
                           /\ MaxPosition \in Nat
                           /\ Balances \subseteq Nat
                           /\ InitialBalance \in Balances
                           /\ MaxFrames \in Nat
                           /\ MaxRuns \in Nat \ {0}

TradeSide == {"buy", "sell", "neutral"}

\* What decodes as a signal has a side, and a pulse has a price for every ticker.
ASSUME FramesAssumption == \A f \in Frames : /\ f.kind = "readout" => f.side \in TradeSide
                                             /\ f.kind = "signal" => f.sig.side \in TradeSide
                                             /\ f.kind = "pulse" => f.prices \in [Tickers -> Int]

VARIABLES wire,      \* LIMEN_WIRE: "binary" or "json"
          useKelly,  \* use_kelly_sizing
          rx,        \* every frame received so far
          pulse,     \* last_pulse, the prices alone
          tasks,     \* spawned tasks that have not run
          listener,  \* the blocking receive loop: "running" or "stopped"
          main,      \* "waiting" for Ctrl-C, "returning" from main,
                     \* "dropping" the runtime, "gone"
          wallet,    \* ghost_wallet.balance_atp
          sizer,     \* sizer.account_balance
          step,      \* step_counter
          executed,  \* the trades handed to the ledger, in order
          log,       \* the ledger's log
          verdict,   \* what became of each received signal
          boots,     \* per run so far: the frames received before it
          cutRuns    \* history: the runs killed while they recorded a trade

config == <<wire, useKelly>>
engine == <<wallet, sizer, step, executed, log>>
vars == <<config, rx, pulse, tasks, listener, main, engine, verdict, boots, cutRuns>>

run == Len(boots)

Verdicts == {"Executed", "LowConfidence", "Neutral", "NoEdge", "PositionLimit"}

\* The signal a frame carries: a TradeSignal, or a readout as
\* readout_to_trade_signal maps it; the rest are pulses and refused frames.
CarriesSignal(frame) == frame.kind \in {"readout", "signal"}

DefaultPulse == [t \in Tickers |-> 1]

Init == /\ wire \in {"binary", "json"}
        /\ useKelly \in BOOLEAN
        /\ rx = <<>>
        /\ pulse = DefaultPulse
        /\ tasks = {}
        /\ listener = "running"
        /\ main = "waiting"
        /\ wallet = InitialBalance
        /\ sizer = InitialBalance
        /\ step = 0
        /\ executed = <<>>
        /\ log = <<>>
        /\ verdict = [id \in 1..MaxFrames |-> "none"]
        /\ boots = <<0>>
        /\ cutRuns = {}

-----------------------------------------------------------------------------
\* price_for_ticker, and the listener's guard on what it returns.
PriceForTicker(prices, ticker) == IF ticker \in Tickers THEN prices[ticker] ELSE 1
ListenerPrice(prices, ticker) ==
  LET price == PriceForTicker(prices, ticker) IN IF price <= 0 THEN 1 ELSE price

\* The binary listener fills in price and quantity itself.
SignalOf(frame, prices) ==
  IF frame.kind = "signal" THEN frame.sig
  ELSE [ticker |-> frame.ticker, side |-> frame.side, confidence |-> frame.confidence,
        price |-> ListenerPrice(prices, frame.ticker), quantity |-> 1]

\* Mutated Spawn: a runtime that is being dropped loses the signal.
SpawnOrLose(id, sig) ==
  /\ tasks' = IF main = "dropping" THEN tasks ELSE tasks \cup {[id |-> id, sig |-> sig]}
  /\ UNCHANGED verdict

\* tokio::spawn: on a runtime that is being dropped the task dies at once.
Spawn(id, sig) ==
  IF main = "dropping"
    THEN verdict' = [verdict EXCEPT ![id] = "cancelled"] /\ UNCHANGED tasks
    ELSE tasks' = tasks \cup {[id |-> id, sig |-> sig]} /\ UNCHANGED verdict

\* What a publisher of either wire sends.
Carries(kind) == kind \in IF wire = "binary" THEN {"readout", "pulse", "bad"}
                                           ELSE {"signal", "bad", "notText"}

\* The next frame of the socket; only a running loop receives.
Receive(frame) == /\ Carries(frame.kind)
                  /\ listener = "running"
                  /\ main # "gone"
                  /\ Len(rx) < MaxFrames
                  /\ rx' = Append(rx, frame)
                  /\ UNCHANGED <<config, main, engine, boots, cutRuns>>

\* A signal is spawned with the price the pulse has now.
ReceiveSignal(frame) == /\ CarriesSignal(frame)
                        /\ Receive(frame)
                        /\ Spawn(Len(rx) + 1, SignalOf(frame, pulse))
                        /\ UNCHANGED <<pulse, listener>>

\* A MarketPulse replaces the last one (binary listener only).
ReceivePulse(frame) == /\ frame.kind = "pulse"
                       /\ Receive(frame)
                       /\ pulse' = frame.prices
                       /\ UNCHANGED <<tasks, listener, verdict>>

\* A frame that does not decode, or has no known length, is logged.
ReceiveBad(frame) == /\ frame.kind = "bad"
                     /\ Receive(frame)
                     /\ UNCHANGED <<pulse, tasks, listener, verdict>>

\* The JSON loop gives up for good on a message that is not text.
ReceiveNotText(frame) == /\ frame.kind = "notText"
                         /\ Receive(frame)
                         /\ listener' = "stopped"
                         /\ UNCHANGED <<pulse, tasks, verdict>>

\* Either loop gives up on a ZMQ error.
ZmqError == /\ listener = "running"
            /\ main # "gone"
            /\ listener' = "stopped"
            /\ UNCHANGED <<config, rx, pulse, tasks, main, engine, verdict, boots, cutRuns>>

-----------------------------------------------------------------------------
\* The quantity of a signal is positive, or over the limit, at a balance.
HasQuantity(sig, balance) ==
  IF useKelly THEN PositiveSize(sig.confidence, Payoff, balance) ELSE sig.quantity > 0
OverLimit(sig, balance) ==
  IF useKelly THEN SizeExceeds(sig.confidence, Payoff, balance, sig.price, MaxPosition)
              ELSE sig.quantity > MaxPosition

PassesGate(sig) == sig.confidence >= Threshold

\* process_signal's gates, in its order, on the balance it sizes with.
Decision(sig, balance) ==
  CASE ~PassesGate(sig) -> "LowConfidence"
    [] PassesGate(sig) /\ sig.side = "neutral" -> "Neutral"
    [] PassesGate(sig) /\ sig.side # "neutral" ->
         IF ~HasQuantity(sig, balance) THEN "NoEdge"
         ELSE IF OverLimit(sig, balance) THEN "PositionLimit" ELSE "Executed"

\* Mutated SyncSizer: the balance the sizer was made with is used for ever.
SyncNever(sig) == sizer' = sizer

\* sync_sizer_balance: past the first two gates the sizer follows the wallet.
SyncSizer(sig) ==
  sizer' = IF PassesGate(sig) /\ sig.side # "neutral" THEN wallet ELSE sizer

\* External: execute_buy and execute_sell.
LedgerTrade(sig) ==
  wallet' \in {w \in Balances : IF sig.side = "buy" THEN w <= wallet ELSE w >= wallet}

\* The trade of a task: what is handed to the ledger, and recorded by it.
Trade(task) == [id |-> task.id, sig |-> task.sig, run |-> run, step |-> step', funds |-> wallet]

\* Mutated ProcessSignal: the price is read when the task runs.
ProcessAtPriceNow(task) ==
  LET now == IF rx[task.id].kind = "readout"
               THEN [task EXCEPT !.sig = SignalOf(rx[task.id], pulse)] ELSE task
  IN /\ SyncSizer(now.sig)
     /\ verdict' = [verdict EXCEPT ![task.id] = Decision(now.sig, sizer')]
     /\ IF verdict'[task.id] = "Executed"
          THEN /\ step' = step + 1
               /\ LedgerTrade(now.sig)
               /\ executed' = Append(executed, Trade(now))
               /\ log' = Write(log, task.id, TRUE)
          ELSE UNCHANGED <<step, wallet, executed, log>>

\* A task gets the engine's lock and runs process_signal.
ProcessSignal(task) ==
  /\ SyncSizer(task.sig)
  /\ verdict' = [verdict EXCEPT ![task.id] = Decision(task.sig, sizer')]
  /\ IF verdict'[task.id] = "Executed"
       THEN /\ step' = step + 1
            /\ LedgerTrade(task.sig)
            /\ executed' = Append(executed, Trade(task))
            /\ log' = Write(log, task.id, TRUE)
       ELSE UNCHANGED <<step, wallet, executed, log>>

\* Mutated RunTask: tasks wait for the receive loop to leave the runtime's thread.
RunTaskAfterLoop(id) == \E task \in tasks : /\ task.id = id
                                            /\ listener = "stopped"
                                            /\ tasks' = tasks \ {task}
                                            /\ ProcessSignal(task)
                                            /\ UNCHANGED <<config, rx, pulse, listener, main>>
                                            /\ UNCHANGED <<boots, cutRuns>>

RunTask(id) == \E task \in tasks :
                 /\ task.id = id
                 /\ tasks' = tasks \ {task}
                 /\ ProcessSignal(task)
                 /\ UNCHANGED <<config, rx, pulse, listener, main, boots, cutRuns>>

-----------------------------------------------------------------------------
\* Ctrl-C: main stops waiting and returns, while the runtime still runs ...
CtrlC == /\ main = "waiting"
         /\ main' = "returning"
         /\ UNCHANGED <<config, rx, pulse, tasks, listener, engine, verdict, boots, cutRuns>>

\* ... which is then dropped: it takes no more tasks ...
DropRuntime == /\ main = "returning"
               /\ main' = "dropping"
               /\ UNCHANGED <<config, rx, pulse, tasks, listener, engine, verdict, boots, cutRuns>>

\* ... cancels one after the other the tasks its workers do not get to ...
CancelTask(id) == \E task \in tasks :
                    /\ task.id = id
                    /\ main = "dropping"
                    /\ tasks' = tasks \ {task}
                    /\ verdict' = [verdict EXCEPT ![id] = "cancelled"]
                    /\ UNCHANGED <<config, rx, pulse, listener, main, engine, boots, cutRuns>>

\* A trade is cut while the ledger appends its record.
CutTrade(task, log2) == /\ SyncSizer(task.sig)
                        /\ Decision(task.sig, sizer') = "Executed"
                        /\ step' = step + 1
                        /\ executed' = Append(executed, Trade(task))
                        /\ log' = log2
                        /\ UNCHANGED wallet

\* The tasks not yet run come to an end.
Lost == [id \in DOMAIN verdict |->
           IF \E task \in tasks : task.id = id THEN "killed" ELSE verdict[id]]

\* Mutated Exit: the process exits without waiting for its workers.
ExitAtOnce == /\ main = "dropping"
              /\ main' = "gone"
              /\ listener' = "stopped"
              /\ tasks' = {}
              /\ \E task \in tasks : \E log2 \in CutWrites(log, task.id) :
                   /\ CutTrade(task, log2)
                   /\ verdict' = [Lost EXCEPT ![task.id] = "Executed"]
              /\ UNCHANGED <<config, rx, pulse, boots, cutRuns>>

\* ... and the drop returns, ending the process, once the workers are done and
\* the loop has ended.
Exit == /\ main = "dropping"
        /\ tasks = {}
        /\ listener = "stopped"
        /\ main' = "gone"
        /\ UNCHANGED <<config, rx, pulse, tasks, listener, engine, verdict, boots, cutRuns>>

Killed == /\ main # "gone"
          /\ main' = "gone"
          /\ listener' = "stopped"
          /\ tasks' = {}
          /\ UNCHANGED <<config, rx, pulse, boots>>

\* The process is killed between two tasks ...
Kill == /\ Killed
        /\ verdict' = Lost
        /\ UNCHANGED <<engine, cutRuns>>

\* ... or while one trades.
KillInTrade == /\ Killed
               /\ \E task \in tasks : \E log2 \in CutWrites(log, task.id) :
                    /\ CutTrade(task, log2)
                    /\ verdict' = [Lost EXCEPT ![task.id] = "Executed"]
               /\ cutRuns' = cutRuns \cup {run}

\* A new process: a new wallet, no pulse, steps from 0, and the old log.
Restart == /\ main = "gone"
           /\ run < MaxRuns
           /\ boots' = Append(boots, Len(rx))
           /\ pulse' = DefaultPulse
           /\ listener' = "running"
           /\ main' = "waiting"
           /\ wallet' = InitialBalance
           /\ sizer' = InitialBalance
           /\ step' = 0
           /\ UNCHANGED <<config, rx, tasks, executed, log, verdict, cutRuns>>

Next == \/ \E frame \in Frames : \/ ReceiveSignal(frame)
                                 \/ ReceivePulse(frame)
                                 \/ ReceiveBad(frame)
                                 \/ ReceiveNotText(frame)
        \/ ZmqError
        \/ \E id \in 1..MaxFrames : RunTask(id) \/ CancelTask(id)
        \/ CtrlC \/ DropRuntime
        \/ Exit \/ Kill \/ KillInTrade \/ Restart

Spec == Init /\ [][Next]_vars

\* tokio polls every spawned task or, once it is being dropped, cancels it; main
\* returns, and the drop ends once it can.  Nothing makes the publisher send, ZMQ
\* fail or the operator press Ctrl-C.
FairSpec == /\ Spec
            /\ \A id \in 1..MaxFrames : WF_vars(RunTask(id) \/ CancelTask(id))
            /\ WF_vars(DropRuntime)
            /\ WF_vars(Exit)

-----------------------------------------------------------------------------
\* The types of the variables: a task is of a frame that was received, and no more
\* is executed than was received.
TypeOK == /\ rx \in Seq(Frames)
          /\ Len(rx) <= MaxFrames
          /\ pulse \in [Tickers -> Int]
          /\ \A task \in tasks : task.id \in 1..Len(rx)
          /\ listener \in {"running", "stopped"}
          /\ main \in {"waiting", "returning", "dropping", "gone"}
          /\ wallet \in Balances
          /\ sizer \in Balances
          /\ step \in 0..MaxFrames
          /\ Len(executed) <= Len(rx)
          /\ Len(log) <= Len(executed)
          /\ verdict \in [1..MaxFrames -> Verdicts \cup {"none", "cancelled", "killed"}]
          /\ boots \in Seq(0..Len(rx)) /\ run \in 1..MaxRuns
          /\ cutRuns \subseteq 1..run

\* The pulse a frame was received under: the last one its run got before it.
PulseBefore(id, r) ==
  LET earlier == {i \in (boots[r] + 1)..(id - 1) : rx[i].kind = "pulse"}
  IN IF earlier = {} THEN DefaultPulse
     ELSE rx[CHOOSE i \in earlier : \A j \in earlier : j <= i].prices

\* A trade is executed exactly as its frame said when it was received, at the
\* price of the last pulse its run received before it, however the tasks were
\* scheduled (the price is taken in the receive loop, main.rs:76-86).
ExecutedAsReceived ==
  \A k \in 1..Len(executed) :
    LET trade == executed[k]
    IN /\ CarriesSignal(rx[trade.id])
       /\ trade.sig = SignalOf(rx[trade.id], PulseBefore(trade.id, trade.run))

\* Every trade passed the gates on the funds the wallet really had: confident,
\* directed, positive and within the limit, though other tasks trade between
\* its receipt and its execution (sync_sizer_balance under the lock).  Under Kelly
\* sizing its price is positive too: the floor in size_position turns any other
\* into a size over the limit (JSON signals carry such prices).
TradedWithinFunds ==
  \A k \in 1..Len(executed) :
    LET trade == executed[k]
    IN /\ PassesGate(trade.sig)
       /\ trade.sig.side \in {"buy", "sell"}
       /\ HasQuantity(trade.sig, trade.funds)
       /\ ~OverLimit(trade.sig, trade.funds)
       /\ useKelly => trade.sig.price > 0

TradesOf(r, last) == Cardinality({k \in 1..last : executed[k].run = r})

\* Every signal received is in exactly one place: waiting in one task, decided
\* once, cancelled by Ctrl-C or lost in a kill; and it was traded exactly if it
\* executed, once, under the next step number of its run: rejected, cancelled and
\* concurrent signals leave no gap in the ledger.
EverySignalAccounted ==
  /\ \A id \in 1..Len(rx) :
       CarriesSignal(rx[id]) <=>
         (verdict[id] # "none" \/ \E task \in tasks : task.id = id)
  /\ \A task \in tasks : verdict[task.id] = "none"
  /\ \A t, u \in tasks : t.id = u.id => t = u
  /\ \A id \in 1..MaxFrames : verdict[id] = "Executed" <=>
       \E k \in 1..Len(executed) : executed[k].id = id
  /\ \A j, k \in 1..Len(executed) : executed[j].id = executed[k].id => j = k
  /\ step = TradesOf(run, Len(executed))
  /\ \A k \in 1..Len(executed) : executed[k].step = TradesOf(executed[k].run, k)

\* The log that train_ghost loads, when it does, holds the executed trades, each
\* once and in order.  A trade is missing only if its run was killed while it was
\* recorded, or if it is the next one recorded, whose record ends up in the torn
\* line; so a run that ends on Ctrl-C, with trades under way, leaves all of its own.
LogKeepsTrades ==
  LET loaded == LoadGhostTrades(log)
      Last(k) == k = Len(executed) \/ executed[k + 1].run # executed[k].run
      Kept(k) == \E j \in 1..Len(loaded) : loaded[j] = executed[k].id
      CutOff(k) == Last(k) /\ executed[k].run \in cutRuns
  IN ~LoadFails(log) =>
       /\ \E place \in [1..Len(loaded) -> 1..Len(executed)] :
            /\ \A j \in 1..Len(loaded) : executed[place[j]].id = loaded[j]
            /\ \A i, j \in 1..Len(loaded) : i < j => place[i] < place[j]
       /\ \A k \in 1..Len(executed) :
            Kept(k) \/ CutOff(k) \/ (k > 1 /\ ~Kept(k - 1) /\ CutOff(k - 1))

\* Every signal received is decided, unless Ctrl-C cancels it or the process is
\* killed.
SignalsDecided ==
  \A id \in 1..MaxFrames :
    (\E task \in tasks : task.id = id)
      ~> (verdict[id] \in Verdicts
           \/ (verdict[id] \in {"cancelled", "killed"} /\ main # "waiting"))

\* main.rs:111 logs "Shutdown (Ctrl+C)": Ctrl-C ends the process.
ShutdownCompletes == main = "returning" ~> main = "gone"
=============================================================================
