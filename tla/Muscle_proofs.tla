---------------------------- MODULE Muscle_proofs ----------------------------
(***************************************************************************)
(* Proofs about the muscle, for any frames, tickers, balances and sizing   *)
(* parameters, any number of frames received and of runs of the process.   *)
(* MuscleInv relates a signal's frame, its task, its verdict and its trade *)
(* at every step; the types and the four facts the runs check of them      *)
(* follow from it.  LogInv says the same of the lines of the ghost log and *)
(* the trades of every run; what is loaded of it follows by induction on   *)
(* its lines.                                                              *)
(***************************************************************************)
EXTENDS Muscle, SequenceTheorems, Lemmas

Prices == {DefaultPulse} \cup {f.prices : f \in {g \in Frames : g.kind = "pulse"}}
Signals == {SignalOf(f, p) : f \in {g \in Frames : CarriesSignal(g)}, p \in Prices}
Tasks == [id : 1..MaxFrames, sig : Signals]
Trades == [id : 1..MaxFrames, sig : Signals, run : 1..MaxRuns, step : Nat, funds : Balances]
Ends == Verdicts \cup {"cancelled", "killed"}

MuscleTypes ==
  /\ rx \in Seq(Frames)
  /\ Len(rx) <= MaxFrames
  /\ pulse \in Prices
  /\ tasks \in SUBSET Tasks
  /\ listener \in {"running", "stopped"}
  /\ main \in {"waiting", "returning", "dropping", "gone"}
  /\ wallet \in Balances
  /\ sizer \in Balances
  /\ step \in Nat
  /\ executed \in Seq(Trades)
  /\ verdict \in [1..MaxFrames -> Ends \cup {"none"}]
  /\ boots \in Seq(0..Len(rx))
  /\ run \in 1..MaxRuns

Parts == 1..MaxFrames \cup {Torn, Garbled}
Lines == [parts : Seq(Parts), ended : BOOLEAN]
LogTypes == /\ log \in Seq(Lines)
            /\ Len(log) <= Len(executed)

\* The pulses run r got before frame id, and the prices they leave.
Earlier(id, r) == {i \in (boots[r] + 1)..(id - 1) : rx[i].kind = "pulse"}
PulseAt(id, r, prices) ==
  \/ Earlier(id, r) = {} /\ prices = DefaultPulse
  \/ \E m \in Earlier(id, r) : (\A j \in Earlier(id, r) : j <= m) /\ rx[m].prices = prices

\* A signal is what its frame said under the pulse of its run then.
AsReceived(id, r, sig) ==
  /\ id \in 1..Len(rx)
  /\ r \in 1..run
  /\ CarriesSignal(rx[id])
  /\ \E prices \in Prices : PulseAt(id, r, prices) /\ sig = SignalOf(rx[id], prices)

SignalsAsReceived ==
  /\ PulseAt(Len(rx) + 1, run, pulse)
  /\ \A task \in tasks : AsReceived(task.id, run, task.sig)
  /\ \A k \in 1..Len(executed) : AsReceived(executed[k].id, executed[k].run, executed[k].sig)

\* Where each frame's signal is.
InTask(id) == \E task \in tasks : task.id = id
Traded(id) == \E k \in 1..Len(executed) : executed[k].id = id
OnePlace ==
  /\ \A id \in 1..MaxFrames :
       IF id <= Len(rx) /\ CarriesSignal(rx[id]) THEN verdict[id] # "none" \/ InTask(id)
                                                 ELSE verdict[id] = "none"
  /\ \A task \in tasks : verdict[task.id] = "none"
  /\ \A t, u \in tasks : t.id = u.id => t = u
  /\ \A id \in 1..MaxFrames : verdict[id] = "Executed" <=> Traded(id)
  /\ \A j, k \in 1..Len(executed) : executed[j].id = executed[k].id => j = k
  /\ main = "gone" => tasks = {}

StepsInOrder ==
  /\ step = TradesOf(run, Len(executed))
  /\ \A k \in 1..Len(executed) : executed[k].step = TradesOf(executed[k].run, k)

\* The last trade of a run that was killed over it.
CutOff(k) == /\ k = Len(executed) \/ executed[k + 1].run # executed[k].run
             /\ executed[k].run \in cutRuns

\* A run that was killed over a trade is over.
CutRunsOver == cutRuns \subseteq 1..run /\ (run \in cutRuns => main = "gone")

\* A step that cancels a task.
Cancelled(task) == /\ main = "dropping"
                   /\ tasks' = tasks \ {task}
                   /\ verdict' = [verdict EXCEPT ![task.id] = "cancelled"]
                   /\ UNCHANGED <<config, rx, pulse, listener, main, engine, boots, cutRuns>>

\* Line n of the log is the record of trade k, and nothing else.
Records(n, k) == Parses(log[n]) /\ log[n].parts[1] = executed[k].id
InLog(k) == \E n \in 1..Len(log) : Records(n, k)

\* The lines are of trades, in the trades' order.
LinesInOrder ==
  /\ \A n \in 1..Len(log) : /\ Len(log[n].parts) >= 1
                            /\ Parses(log[n]) => \E k \in 1..Len(executed) : Records(n, k)
  /\ \A m, n \in 1..Len(log), j, k \in 1..Len(executed) :
       m < n /\ Records(m, j) /\ Records(n, k) => j < k

\* A line that was not ended is the last trade's, or what a cut trade before it
\* left, and the last trade is in no other line.
OpenLine ==
  Len(log) > 0 /\ ~log[Len(log)].ended =>
    /\ Len(executed) > 0 /\ CutOff(Len(executed))
    /\ \A n \in 1..(Len(log) - 1) : ~Records(n, Len(executed))
    /\ \A k \in 1..Len(executed) : Records(Len(log), k) => CutOff(k)

TradesKept ==
  \A k \in 1..Len(executed) :
    InLog(k) \/ CutOff(k) \/ (k > 1 /\ ~InLog(k - 1) /\ CutOff(k - 1))

LogInv == LinesInOrder /\ OpenLine /\ TradesKept

MuscleInv == /\ MuscleTypes
             /\ SignalsAsReceived
             /\ OnePlace
             /\ StepsInOrder
             /\ TradedWithinFunds
             /\ LogTypes
             /\ CutRunsOver

-----------------------------------------------------------------------------
LEMMA SignalTypes ==
  /\ \A f \in Frames, p \in Prices : CarriesSignal(f) => SignalOf(f, p) \in Signals
  /\ \A s \in Signals : s.side \in TradeSide
<1>1. \A f \in Frames, p \in Prices : CarriesSignal(f) => SignalOf(f, p) \in Signals
  BY DEF Signals
<1>2. ASSUME NEW s \in Signals PROVE s.side \in TradeSide
  <2>1. PICK f \in Frames, p \in Prices : CarriesSignal(f) /\ s = SignalOf(f, p)
    BY DEF Signals
  <2>2. CASE f.kind = "signal"
    BY <2>1, <2>2, FramesAssumption DEF SignalOf
  <2>3. CASE f.kind = "readout"
    BY <2>1, <2>3, FramesAssumption DEF SignalOf
  <2> QED
    BY <2>1, <2>2, <2>3 DEF CarriesSignal
<1> QED
  BY <1>1, <1>2

(* What a decision to execute says of the signal.                          *)
LEMMA DecisionFacts ==
  ASSUME NEW sig \in Signals, NEW balance
  PROVE  /\ Decision(sig, balance) \in Verdicts
         /\ Decision(sig, balance) = "Executed" =>
              /\ PassesGate(sig)
              /\ sig.side \in {"buy", "sell"}
              /\ HasQuantity(sig, balance)
              /\ ~OverLimit(sig, balance)
  BY SignalTypes DEF Decision, Verdicts, TradeSide

(* A line of the log is still a line, and there is at most one more.       *)
LEMMA WriteTypes ==
  ASSUME log \in Seq(Lines), NEW part \in Parts, NEW ended \in BOOLEAN
  PROVE  /\ Write(log, part, ended) \in Seq(Lines)
         /\ Len(Write(log, part, ended)) \in {Len(log), Len(log) + 1}
<1> DEFINE PartsSeq == Seq(Parts)
           last == Len(log)
<1>1. \A parts \in PartsSeq : Line(parts, ended) \in Lines
  BY DEF Line, Lines
<1>2. CASE last > 0 /\ ~log[last].ended
  <2>1. log[last] \in Lines
    BY <1>2, ElementOfSeq
  <2>2. Append(log[last].parts, part) \in PartsSeq
    <3>1. log[last].parts \in PartsSeq
      BY <2>1 DEF Lines
    <3> QED
      BY <3>1, AppendProperties
  <2>3. Line(Append(log[last].parts, part), ended) \in Lines
    BY <1>1, <2>2
  <2>4. PICK line \in Lines : line = Line(Append(log[last].parts, part), ended)
    BY <2>3
  <2>5. Write(log, part, ended) = [log EXCEPT ![last] = line]
    BY <1>2, <2>4 DEF Write
  <2>6. [log EXCEPT ![last] = line] \in Seq(Lines) /\ Len([log EXCEPT ![last] = line]) = Len(log)
    BY <1>2, ExceptSeq
  <2> QED
    BY <2>5, <2>6
<1>3. CASE ~(last > 0 /\ ~log[last].ended)
  <2>1. <<part>> \in PartsSeq
    OBVIOUS
  <2>2. Write(log, part, ended) = Append(log, Line(<<part>>, ended))
    BY <1>3 DEF Write
  <2>3. PICK line \in Lines : line = Line(<<part>>, ended)
    BY <1>1, <2>1
  <2> QED
    BY <2>2, <2>3, AppendProperties
<1> QED
  BY <1>2, <1>3

LEMMA MuscleNumbers ==
  ASSUME MuscleTypes
  PROVE  /\ MaxFrames \in Nat /\ MaxRuns \in Nat \ {0}
         /\ Len(rx) \in Nat /\ Len(executed) \in Nat /\ Len(boots) \in Nat /\ run \in Nat
         /\ \A i \in 1..Len(rx) : rx[i] \in Frames
         /\ \A k \in 1..Len(executed) : /\ executed[k] \in Trades
                                        /\ executed[k].id \in 1..MaxFrames
                                        /\ executed[k].run \in 1..MaxRuns
         /\ \A r \in 1..run : boots[r] \in 0..Len(rx)
         /\ \A task \in tasks : task.id \in 1..MaxFrames /\ task.sig \in Signals
<1>1. \A i \in 1..Len(rx) : rx[i] \in Frames
  BY ElementOfSeq DEF MuscleTypes
<1>2. \A k \in 1..Len(executed) : executed[k] \in Trades
  BY ElementOfSeq DEF MuscleTypes
<1>3. \A r \in 1..run : boots[r] \in 0..Len(rx)
  BY ElementOfSeq DEF MuscleTypes, run
<1>4. \A task \in tasks : task.id \in 1..MaxFrames /\ task.sig \in Signals
  BY DEF MuscleTypes, Tasks
<1>5. \A k \in 1..Len(executed) : executed[k].id \in 1..MaxFrames /\ executed[k].run \in 1..MaxRuns
  BY <1>2 DEF Trades
<1>6. Len(rx) \in Nat /\ Len(executed) \in Nat /\ Len(boots) \in Nat
  BY DEF MuscleTypes
<1> QED
  BY <1>1, <1>2, <1>3, <1>4, <1>5, <1>6, MuscleAssumption DEF run

LEMMA InitMuscle == Init => MuscleInv
<1> SUFFICES ASSUME Init PROVE MuscleInv
  OBVIOUS
<1> USE MuscleAssumption DEF Init
<1>0. /\ Len(rx) = 0 /\ Len(executed) = 0 /\ run = 1 /\ boots[1] = 0 /\ tasks = {}
  BY DEF run
<1>1. MuscleTypes
  <2>1. rx \in Seq(Frames) /\ executed \in Seq(Trades)
    OBVIOUS
  <2>2. boots \in Seq(0..Len(rx))
    BY <1>0
  <2>3. pulse \in Prices
    BY DEF Prices
  <2>4. verdict \in [1..MaxFrames -> Ends \cup {"none"}]
    OBVIOUS
  <2> QED
    BY <1>0, <2>1, <2>2, <2>3, <2>4 DEF MuscleTypes
<1>2. SignalsAsReceived
  <2>1. Earlier(1, 1) = {}
    BY <1>0 DEF Earlier
  <2> QED
    BY <1>0, <2>1 DEF SignalsAsReceived, PulseAt
<1>3. OnePlace
  <2>1. \A id \in 1..MaxFrames : verdict[id] = "none" /\ ~Traded(id)
    BY <1>0 DEF Traded
  <2> QED
    BY <1>0, <2>1 DEF OnePlace
<1>4. StepsInOrder
  <2>1. {k \in 1..0 : executed[k].run = 1} = {}
    OBVIOUS
  <2> QED
    BY <1>0, <2>1, FS_EmptySet DEF StepsInOrder, TradesOf
<1>5. TradedWithinFunds
  BY <1>0 DEF TradedWithinFunds
<1>6. LogTypes
  BY <1>0 DEF LogTypes
<1>7. CutRunsOver
  BY <1>0 DEF CutRunsOver
<1> QED
  BY <1>1, <1>2, <1>3, <1>4, <1>5, <1>6, <1>7 DEF MuscleInv

LEMMA LostFacts ==
  ASSUME MuscleTypes
  PROVE  /\ Lost \in [1..MaxFrames -> Ends \cup {"none"}]
         /\ \A id \in 1..MaxFrames : Lost[id] = IF InTask(id) THEN "killed" ELSE verdict[id]
  BY DEF MuscleTypes, Lost, InTask, Ends

(* A frame received joins the frames and changes nothing else of the past. *)
LEMMA ReceiveFacts ==
  ASSUME MuscleTypes, NEW f \in Frames, Receive(f)
  PROVE  /\ rx' \in Seq(Frames)
         /\ Len(rx') = Len(rx) + 1
         /\ Len(rx') <= MaxFrames
         /\ \A i \in 1..Len(rx) : rx'[i] = rx[i]
         /\ rx'[Len(rx) + 1] = f
         /\ Len(rx) + 1 \in 1..MaxFrames
         /\ boots' \in Seq(0..Len(rx'))
         /\ run' = run
<1>1. /\ rx' \in Seq(Frames) /\ Len(rx') = Len(rx) + 1 /\ Len(rx') <= MaxFrames
      /\ \A i \in 1..Len(rx) : rx'[i] = rx[i]
      /\ rx'[Len(rx) + 1] = f
      /\ Len(rx) + 1 \in 1..MaxFrames
  BY MuscleNumbers, AppendProperties DEF Receive, MuscleTypes
<1>2. boots' \in Seq(0..Len(rx')) /\ run' = run
  <2>1. 0..Len(rx) \subseteq 0..Len(rx')
    BY <1>1, MuscleNumbers
  <2>2. boots \in Seq(0..Len(rx')) /\ boots' = boots
    BY <2>1, SeqMonotonic DEF MuscleTypes, Receive
  <2> QED
    BY <2>2 DEF run
<1> QED
  BY <1>1, <1>2

\* A step of the listener or of main alone.
Idle == /\ UNCHANGED <<config, rx, pulse, tasks, engine, verdict, boots, cutRuns>>
        /\ listener' \in {listener, "stopped"}
        /\ \/ main' = main
           \/ main # "gone" /\ main' \in {"returning", "dropping"}
           \/ tasks = {} /\ main' = "gone"

LEMMA NextStep ==
  ASSUME [Next]_vars
  PROVE  \/ \E f \in Frames : ReceiveSignal(f)
         \/ \E f \in Frames : /\ Receive(f) /\ ~CarriesSignal(f)
                              /\ pulse' = IF f.kind = "pulse" THEN f.prices ELSE pulse
                              /\ listener' \in {listener, "stopped"}
                              /\ UNCHANGED <<tasks, verdict>>
         \/ \E task \in tasks : RunTask(task.id) /\ ProcessSignal(task)
         \/ \E task \in tasks : Cancelled(task)
         \/ Kill
         \/ KillInTrade
         \/ Restart
         \/ Idle
<1>1. ASSUME NEW f \in Frames, ReceivePulse(f) \/ ReceiveBad(f) \/ ReceiveNotText(f)
      PROVE  /\ Receive(f) /\ ~CarriesSignal(f)
             /\ pulse' = IF f.kind = "pulse" THEN f.prices ELSE pulse
             /\ listener' \in {listener, "stopped"}
             /\ UNCHANGED <<tasks, verdict>>
  BY <1>1 DEF ReceivePulse, ReceiveBad, ReceiveNotText, CarriesSignal
<1>2. ASSUME NEW id \in 1..MaxFrames, RunTask(id)
      PROVE  \E task \in tasks : RunTask(task.id) /\ ProcessSignal(task)
  BY <1>2 DEF RunTask
<1>3. CASE ZmqError \/ CtrlC \/ DropRuntime \/ Exit \/ UNCHANGED vars
  BY <1>3 DEF ZmqError, CtrlC, DropRuntime, Exit, vars, Idle
<1>4. ASSUME NEW id \in 1..MaxFrames, CancelTask(id) PROVE \E task \in tasks : Cancelled(task)
  BY <1>4 DEF CancelTask, Cancelled
<1> QED
  BY <1>1, <1>2, <1>3, <1>4 DEF Next

(* The engine's part of a task, its trade recorded or not.                 *)
LEMMA ProcessFacts ==
  ASSUME MuscleTypes, LogTypes, NEW task \in tasks, ProcessSignal(task)
  PROVE  /\ sizer' \in {sizer, wallet}
         /\ verdict' = [verdict EXCEPT ![task.id] = Decision(task.sig, sizer')]
         /\ Decision(task.sig, sizer') \in Verdicts
         /\ IF Decision(task.sig, sizer') = "Executed"
              THEN /\ step' = step + 1
                   /\ wallet' \in Balances
                   /\ executed' = Append(executed, Trade(task))
                   /\ log' \in Seq(Lines) /\ Len(log') <= Len(log) + 1
              ELSE UNCHANGED <<step, wallet, executed, log>>
<1>1. verdict' = [verdict EXCEPT ![task.id] = Decision(task.sig, sizer')]
  BY DEF ProcessSignal
<1>2. task.id \in 1..MaxFrames /\ task.sig \in Signals
  BY MuscleNumbers
<1>3. verdict'[task.id] = Decision(task.sig, sizer')
  BY <1>1, <1>2 DEF MuscleTypes
<1>4. Decision(task.sig, sizer') \in Verdicts
  BY <1>2, DecisionFacts
<1>5. sizer' \in {sizer, wallet}
  BY DEF ProcessSignal, SyncSizer
<1>6. CASE Decision(task.sig, sizer') = "Executed"
  <2>1. log' = Write(log, task.id, TRUE) /\ log \in Seq(Lines)
    BY <1>3, <1>6 DEF ProcessSignal, LogTypes
  <2>2. task.id \in Parts /\ TRUE \in BOOLEAN /\ Len(log) \in Nat
    BY <1>2, <2>1 DEF Parts
  <2>3. log' \in Seq(Lines) /\ Len(log') \in {Len(log), Len(log) + 1}
    BY <2>1, <2>2, WriteTypes
  <2>4. Len(log') <= Len(log) + 1
    BY <2>2, <2>3
  <2>5. wallet' \in Balances
    BY <1>3, <1>6 DEF ProcessSignal, LedgerTrade
  <2>6. step' = step + 1 /\ executed' = Append(executed, Trade(task))
    BY <1>3, <1>6 DEF ProcessSignal
  <2> QED
    BY <1>1, <1>4, <1>5, <1>6, <2>3, <2>4, <2>5, <2>6
<1>7. CASE Decision(task.sig, sizer') # "Executed"
  BY <1>1, <1>3, <1>4, <1>5, <1>7 DEF ProcessSignal
<1> QED
  BY <1>6, <1>7

(* A trade cut by a kill is handed to the ledger all the same.             *)
LEMMA KillInTradeFacts ==
  ASSUME MuscleTypes, LogTypes, KillInTrade
  PROVE  \E task \in tasks :
           /\ SyncSizer(task.sig) /\ sizer' \in {sizer, wallet}
           /\ Decision(task.sig, sizer') = "Executed"
           /\ step' = step + 1
           /\ executed' = Append(executed, Trade(task))
           /\ verdict' = [Lost EXCEPT ![task.id] = "Executed"]
           /\ log' \in Seq(Lines) /\ Len(log') <= Len(log) + 1
<1>1. PICK task \in tasks :
        /\ SyncSizer(task.sig)
        /\ Decision(task.sig, sizer') = "Executed"
        /\ step' = step + 1
        /\ executed' = Append(executed, Trade(task))
        /\ verdict' = [Lost EXCEPT ![task.id] = "Executed"]
        /\ log' \in CutWrites(log, task.id)
  BY DEF KillInTrade, CutTrade
<1>2. sizer' \in {sizer, wallet}
  BY <1>1 DEF SyncSizer
<1>3. task.id \in 1..MaxFrames /\ log \in Seq(Lines) /\ Len(log) \in Nat
  BY MuscleNumbers DEF LogTypes
<1>4. log' \in Seq(Lines) /\ Len(log') <= Len(log) + 1
  <2>1. \A part \in {task.id, Torn, Garbled} : /\ Write(log, part, FALSE) \in Seq(Lines)
                                      /\ Len(Write(log, part, FALSE)) \in {Len(log), Len(log) + 1}
    <3>1. \A part \in {task.id, Torn, Garbled} : part \in Parts /\ FALSE \in BOOLEAN
      BY <1>3 DEF Parts
    <3> QED
      BY <1>3, <3>1, WriteTypes
  <2>2. \/ log' = log
        \/ \E part \in {task.id, Torn, Garbled} : log' = Write(log, part, FALSE)
    BY <1>1 DEF CutWrites
  <2>3. CASE log' = log
    BY <1>3, <2>3
  <2>4. CASE \E part \in {task.id, Torn, Garbled} : log' = Write(log, part, FALSE)
    <3>1. log' \in Seq(Lines) /\ Len(log') \in {Len(log), Len(log) + 1}
      BY <2>1, <2>4
    <3> QED
      BY <1>3, <3>1
  <2> QED
    BY <2>2, <2>3, <2>4
<1> QED
  BY <1>1, <1>2, <1>4

LEMMA TradeTypes ==
  ASSUME MuscleTypes, NEW task \in tasks, step' = step + 1, executed' = Append(executed, Trade(task))
  PROVE  /\ Trade(task) \in Trades
         /\ Trade(task).id = task.id /\ Trade(task).sig = task.sig /\ Trade(task).run = run
         /\ Trade(task).step = step + 1 /\ Trade(task).funds = wallet
         /\ executed' \in Seq(Trades)
         /\ Len(executed') = Len(executed) + 1
         /\ \A k \in 1..Len(executed) : executed'[k] = executed[k]
         /\ executed'[Len(executed) + 1] = Trade(task)
<1>1. step' \in Nat
  BY DEF MuscleTypes
<1>2. Trade(task) \in Trades
  BY <1>1, MuscleNumbers DEF Trade, Trades, MuscleTypes
<1>3. PICK trade \in Trades : trade = Trade(task)
  BY <1>2
<1>4. /\ executed' \in Seq(Trades) /\ Len(executed') = Len(executed) + 1
      /\ \A k \in 1..Len(executed) : executed'[k] = executed[k]
      /\ executed'[Len(executed) + 1] = trade
  BY <1>3, AppendProperties DEF MuscleTypes
<1>5. /\ Trade(task).id = task.id /\ Trade(task).sig = task.sig /\ Trade(task).run = run
      /\ Trade(task).step = step + 1 /\ Trade(task).funds = wallet
  BY DEF Trade
<1> QED
  BY <1>2, <1>3, <1>4, <1>5

LEMMA TypeMuscle ==
  ASSUME MuscleTypes, LogTypes, [Next]_vars
  PROVE  MuscleTypes' /\ LogTypes'
<1> USE MuscleNumbers
<1>1. ASSUME NEW f \in Frames, ReceiveSignal(f) PROVE MuscleTypes' /\ LogTypes'
  <2>1. Receive(f) /\ CarriesSignal(f) /\ UNCHANGED <<pulse, listener>>
    BY <1>1 DEF ReceiveSignal
  <2>2. SignalOf(f, pulse) \in Signals
    BY <2>1, SignalTypes DEF MuscleTypes
  <2>3. tasks' \in SUBSET Tasks /\ verdict' \in [1..MaxFrames -> Ends \cup {"none"}]
    <3>1. CASE main # "dropping"
      <4>1. tasks' = tasks \cup {[id |-> Len(rx) + 1, sig |-> SignalOf(f, pulse)]} /\ verdict' = verdict
        BY <1>1, <3>1 DEF ReceiveSignal, Spawn
      <4>2. [id |-> Len(rx) + 1, sig |-> SignalOf(f, pulse)] \in Tasks
        BY <2>1, <2>2, ReceiveFacts DEF Tasks
      <4> QED
        BY <4>1, <4>2 DEF MuscleTypes
    <3>2. CASE main = "dropping"
      BY <1>1, <3>2 DEF ReceiveSignal, Spawn, MuscleTypes, Ends
    <3> QED
      BY <3>1, <3>2
  <2>4. UNCHANGED <<main, wallet, sizer, step, executed, log>>
    BY <2>1 DEF Receive, engine
  <2>5. /\ rx' \in Seq(Frames) /\ Len(rx') <= MaxFrames /\ boots' \in Seq(0..Len(rx')) /\ run' = run
    BY <2>1, ReceiveFacts
  <2>6. LogTypes'
    BY <2>4 DEF LogTypes
  <2> QED
    BY <2>1, <2>3, <2>4, <2>5, <2>6 DEF MuscleTypes
<1>2. ASSUME NEW f \in Frames, Receive(f), ~CarriesSignal(f),
             pulse' = IF f.kind = "pulse" THEN f.prices ELSE pulse,
             listener' \in {listener, "stopped"}, UNCHANGED <<tasks, verdict>>
      PROVE  MuscleTypes' /\ LogTypes'
  <2>1. pulse' \in Prices
    BY <1>2 DEF MuscleTypes, Prices
  <2>2. UNCHANGED <<main, wallet, sizer, step, executed, log>>
    BY <1>2 DEF Receive, engine
  <2>3. /\ rx' \in Seq(Frames) /\ Len(rx') <= MaxFrames /\ boots' \in Seq(0..Len(rx')) /\ run' = run
    BY <1>2, ReceiveFacts
  <2>4. LogTypes'
    BY <2>2 DEF LogTypes
  <2> QED
    BY <1>2, <2>1, <2>2, <2>3, <2>4 DEF MuscleTypes
<1>3. ASSUME NEW task \in tasks, RunTask(task.id), ProcessSignal(task)
      PROVE  MuscleTypes' /\ LogTypes'
  <2>1. UNCHANGED <<config, rx, pulse, listener, main, boots>> /\ tasks' \in SUBSET Tasks /\ run' = run
    BY <1>3 DEF RunTask, MuscleTypes, run
  <2>2. sizer' \in Balances
    BY <1>3, ProcessFacts DEF MuscleTypes
  <2>3. verdict' \in [1..MaxFrames -> Ends \cup {"none"}]
    BY <1>3, ProcessFacts DEF MuscleTypes, Ends
  <2>4. wallet' \in Balances /\ step' \in Nat
    BY <1>3, ProcessFacts DEF MuscleTypes
  <2>5. executed' \in Seq(Trades) /\ LogTypes'
    <3>1. CASE Decision(task.sig, sizer') = "Executed"
      <4>1. executed' \in Seq(Trades) /\ Len(executed') = Len(executed) + 1
        BY <1>3, <3>1, ProcessFacts, TradeTypes
      <4>2. log' \in Seq(Lines) /\ Len(log') <= Len(log) + 1
        BY <1>3, <3>1, ProcessFacts
      <4>3. Len(log') \in Nat /\ Len(log) \in Nat /\ Len(log) <= Len(executed)
        BY <4>2 DEF LogTypes
      <4> QED
        BY <4>1, <4>2, <4>3 DEF LogTypes
    <3>2. CASE Decision(task.sig, sizer') # "Executed"
      BY <1>3, <3>2, ProcessFacts DEF MuscleTypes, LogTypes
    <3> QED
      BY <3>1, <3>2
  <2> QED
    BY <2>1, <2>2, <2>3, <2>4, <2>5 DEF MuscleTypes
<1>8. ASSUME NEW task \in tasks, Cancelled(task) PROVE MuscleTypes' /\ LogTypes'
  <2>1. UNCHANGED <<rx, pulse, listener, main, wallet, sizer, step, executed, log, boots>>
        /\ tasks' \in SUBSET Tasks
    BY <1>8 DEF Cancelled, MuscleTypes, engine
  <2>2. verdict' \in [1..MaxFrames -> Ends \cup {"none"}]
    BY <1>8 DEF Cancelled, MuscleTypes, Ends
  <2> QED
    BY <2>1, <2>2 DEF MuscleTypes, LogTypes, run
<1>4. CASE Kill
  <2>1. UNCHANGED <<rx, pulse, wallet, sizer, step, executed, log, boots>> /\ tasks' = {}
    BY <1>4 DEF Kill, Killed, engine
  <2>2. /\ listener' \in {"running", "stopped"} /\ main' \in {"waiting", "returning", "dropping", "gone"}
        /\ run' = run
    BY <1>4 DEF Kill, Killed, MuscleTypes, run
  <2>3. verdict' \in [1..MaxFrames -> Ends \cup {"none"}]
    BY <1>4, LostFacts DEF Kill, Killed
  <2> QED
    BY <2>1, <2>2, <2>3 DEF MuscleTypes, LogTypes
<1>5. CASE KillInTrade
  <2>1. UNCHANGED <<rx, pulse, wallet, boots>> /\ tasks' = {} /\ main' = "gone" /\ listener' = "stopped"
    BY <1>5 DEF KillInTrade, Killed, CutTrade
  <2>2. PICK task \in tasks :
          /\ sizer' \in {sizer, wallet}
          /\ step' = step + 1
          /\ executed' = Append(executed, Trade(task))
          /\ verdict' = [Lost EXCEPT ![task.id] = "Executed"]
          /\ log' \in Seq(Lines) /\ Len(log') <= Len(log) + 1
    BY <1>5, KillInTradeFacts
  <2>3. executed' \in Seq(Trades) /\ Len(executed') = Len(executed) + 1
    BY <2>2, TradeTypes
  <2>4. verdict' \in [1..MaxFrames -> Ends \cup {"none"}]
    <3>1. Lost \in [1..MaxFrames -> Ends \cup {"none"}]
      BY LostFacts
    <3>2. "Executed" \in Ends
      BY DEF Ends, Verdicts
    <3> QED
      BY <2>2, <3>1, <3>2
  <2>5. LogTypes'
    <3>1. Len(log') \in Nat /\ Len(log) \in Nat /\ Len(log) <= Len(executed)
      BY <2>2 DEF LogTypes
    <3> QED
      BY <2>2, <2>3, <3>1 DEF LogTypes
  <2>6. step' \in Nat /\ sizer' \in Balances /\ run' = run
    BY <2>1, <2>2 DEF MuscleTypes, run
  <2> QED
    BY <2>1, <2>3, <2>4, <2>5, <2>6 DEF MuscleTypes
<1>6. CASE Restart
  <2>1. /\ UNCHANGED <<rx, tasks, executed, log, verdict>>
        /\ pulse' \in Prices /\ listener' = "running" /\ main' = "waiting"
        /\ wallet' \in Balances /\ sizer' \in Balances /\ step' = 0
    BY <1>6, MuscleAssumption DEF Restart, Prices
  <2>2. boots' \in Seq(0..Len(rx')) /\ run' \in 1..MaxRuns
    <3>1. Len(rx) \in 0..Len(rx) /\ boots' = Append(boots, Len(rx)) /\ run < MaxRuns
      BY <1>6 DEF Restart
    <3>2. boots' \in Seq(0..Len(rx)) /\ Len(boots') = Len(boots) + 1
      BY <3>1, AppendProperties DEF MuscleTypes
    <3> QED
      BY <2>1, <3>1, <3>2 DEF run
  <2> QED
    BY <2>1, <2>2 DEF MuscleTypes, LogTypes
<1>7. CASE Idle
  BY <1>7 DEF Idle, MuscleTypes, LogTypes, engine, run
<1> QED
  BY <1>1, <1>2, <1>3, <1>4, <1>5, <1>6, <1>7, <1>8, NextStep

(* The frames and the runs so far are never taken back.                    *)
LEMMA HistoryGrows ==
  ASSUME MuscleTypes, MuscleTypes', [Next]_vars
  PROVE  /\ Len(rx) <= Len(rx') /\ \A i \in 1..Len(rx) : rx'[i] = rx[i]
         /\ run <= run' /\ \A r \in 1..run : boots'[r] = boots[r]
         /\ Len(rx') \in Nat /\ run' \in Nat
<1> USE MuscleNumbers
<1>1. ASSUME NEW f \in Frames, Receive(f)
      PROVE  /\ Len(rx) <= Len(rx') /\ \A i \in 1..Len(rx) : rx'[i] = rx[i]
             /\ run <= run' /\ \A r \in 1..run : boots'[r] = boots[r]
  <2>1. UNCHANGED boots
    BY <1>1 DEF Receive
  <2> QED
    BY <1>1, <2>1, ReceiveFacts
<1>2. CASE Restart
  <2>1. boots' = Append(boots, Len(rx)) /\ rx' = rx /\ Len(rx) \in 0..Len(rx)
    BY <1>2 DEF Restart
  <2>2. Len(boots') = Len(boots) + 1 /\ \A r \in 1..Len(boots) : boots'[r] = boots[r]
    BY <2>1, AppendProperties DEF MuscleTypes
  <2> QED
    BY <2>1, <2>2 DEF run
<1>3. CASE UNCHANGED <<rx, boots>>
  BY <1>3 DEF run
<1>4. \/ \E f \in Frames : Receive(f)
      \/ Restart
      \/ UNCHANGED <<rx, boots>>
  BY NextStep DEF ReceiveSignal, RunTask, Cancelled, Idle, Kill, KillInTrade, Killed
<1>5. Len(rx') \in Nat /\ run' \in Nat
  BY DEF MuscleTypes
<1> QED
  BY <1>1, <1>2, <1>3, <1>4, <1>5

(* So what was the pulse before a frame stays it.                          *)
LEMMA PulseKept ==
  ASSUME MuscleTypes, MuscleTypes', [Next]_vars,
         NEW id \in 1..Len(rx) + 1, NEW r \in 1..run, NEW p, PulseAt(id, r, p)
  PROVE  PulseAt(id, r, p)'
<1>1. Earlier(id, r) = Earlier(id, r)' /\ \A i \in Earlier(id, r) : i \in 1..Len(rx)
  <2>1. boots[r] \in Nat /\ boots'[r] = boots[r] /\ id \in Nat /\ id - 1 <= Len(rx)
    BY HistoryGrows, MuscleNumbers
  <2>2. \A i \in (boots[r] + 1)..(id - 1) : i \in 1..Len(rx) /\ rx'[i] = rx[i]
    BY <2>1, HistoryGrows, MuscleNumbers
  <2> QED
    BY <2>1, <2>2 DEF Earlier
<1>2. \A i \in Earlier(id, r) : rx'[i] = rx[i]
  BY <1>1, HistoryGrows
<1>3. CASE Earlier(id, r) = {} /\ p = DefaultPulse
  BY <1>1, <1>3 DEF PulseAt
<1>4. CASE \E m \in Earlier(id, r) : (\A j \in Earlier(id, r) : j <= m) /\ rx[m].prices = p
  <2>1. PICK m \in Earlier(id, r) : (\A j \in Earlier(id, r) : j <= m) /\ rx[m].prices = p
    BY <1>4
  <2>2. m \in Earlier(id, r)' /\ (\A j \in Earlier(id, r)' : j <= m) /\ rx'[m].prices = p
    BY <1>1, <1>2, <2>1
  <2> QED
    BY <2>2 DEF PulseAt
<1> QED
  BY <1>3, <1>4 DEF PulseAt

LEMMA AsReceivedKept ==
  ASSUME MuscleTypes, MuscleTypes', [Next]_vars, NEW id, NEW r, NEW sig, AsReceived(id, r, sig)
  PROVE  AsReceived(id, r, sig)'
<1>1. id \in 1..Len(rx) /\ r \in 1..run /\ CarriesSignal(rx[id])
  BY DEF AsReceived
<1>2. PICK p \in Prices : PulseAt(id, r, p) /\ sig = SignalOf(rx[id], p)
  BY DEF AsReceived
<1>3. id \in 1..Len(rx') /\ r \in 1..run' /\ rx'[id] = rx[id]
  BY <1>1, HistoryGrows, MuscleNumbers
<1>4. PulseAt(id, r, p)'
  <2>1. id \in 1..Len(rx) + 1
    BY <1>1, MuscleNumbers
  <2> QED
    BY <1>1, <1>2, <2>1, PulseKept
<1> QED
  BY <1>1, <1>2, <1>3, <1>4 DEF AsReceived

LEMMA StepAsReceived ==
  ASSUME MuscleInv, MuscleTypes', [Next]_vars
  PROVE  SignalsAsReceived'
<1> USE MuscleNumbers DEF MuscleInv
<1>1. PICK n \in Nat : n = Len(rx) + 1
  OBVIOUS
<1>2. PICK r \in 1..MaxRuns : r = run
  BY DEF MuscleTypes
<1>3. PulseAt(n, r, pulse)
  BY <1>1, <1>2 DEF SignalsAsReceived
<1>4. PulseAt(Len(rx) + 1, run, pulse)'
  <2>1. ASSUME NEW f \in Frames, Receive(f),
               pulse' = IF f.kind = "pulse" THEN f.prices ELSE pulse
        PROVE  PulseAt(Len(rx) + 1, run, pulse)'
    <3>1. Len(rx') = n /\ rx'[n] = f /\ run' = r /\ n \in Nat
      BY <1>1, <1>2, <2>1, ReceiveFacts
    <3>2. \A i \in Earlier(n + 1, r)' : i \in 1..n /\ boots'[r] < i
      BY <1>1, <1>2, <2>1, <3>1, HistoryGrows DEF Earlier
    <3>3. boots'[r] < n /\ boots'[r] \in Nat
      BY <1>1, <1>2, HistoryGrows
    <3>4. CASE f.kind = "pulse"
      <4>1. n \in Earlier(n + 1, r)' /\ rx'[n].prices = pulse'
        BY <2>1, <3>1, <3>3, <3>4 DEF Earlier
      <4>2. \A j \in Earlier(n + 1, r)' : j <= n
        BY <3>1, <3>2
      <4>3. PICK prices : prices = pulse'
        OBVIOUS
      <4>4. PulseAt(n + 1, r, prices)'
        BY <4>1, <4>2, <4>3 DEF PulseAt
      <4> QED
        BY <3>1, <4>3, <4>4 DEF PulseAt, Earlier
    <3>5. CASE f.kind # "pulse"
      <4>1. PICK prices : prices = pulse /\ prices = pulse'
        BY <2>1, <3>5
      <4>2. PulseAt(n, r, prices)'
        <5>1. PulseAt(n, r, prices)
          BY <1>3, <4>1
        <5>2. n \in 1..Len(rx) + 1 /\ r \in 1..run
          BY <1>1, <1>2
        <5> QED
          BY <5>1, <5>2, PulseKept
      <4>3. Earlier(n + 1, r)' = Earlier(n, r)'
        BY <3>1, <3>3, <3>5 DEF Earlier
      <4>4. PulseAt(n + 1, r, prices)'
        BY <4>2, <4>3 DEF PulseAt
      <4> QED
        BY <3>1, <4>1, <4>4 DEF PulseAt, Earlier
    <3> QED
      BY <3>4, <3>5
  <2>2. CASE UNCHANGED <<rx, pulse, boots>>
    BY <2>2 DEF SignalsAsReceived, PulseAt, Earlier, run
  <2>3. CASE Restart
    <3>1. boots' = Append(boots, Len(rx)) /\ rx' = rx /\ pulse' = DefaultPulse /\ Len(rx) \in 0..Len(rx)
      BY <2>3 DEF Restart
    <3>2. run' = run + 1 /\ boots'[run'] = Len(rx')
      BY <3>1, AppendProperties DEF MuscleTypes, run
    <3>3. {i \in (boots'[run'] + 1)..((Len(rx') + 1) - 1) : rx'[i].kind = "pulse"} = {}
      BY <3>1, <3>2
    <3> QED
      BY <3>1, <3>3 DEF PulseAt, Earlier
  <2>4. \/ \E f \in Frames : Receive(f) /\ pulse' = IF f.kind = "pulse" THEN f.prices ELSE pulse
        \/ UNCHANGED <<rx, pulse, boots>>
        \/ Restart
    BY NextStep DEF ReceiveSignal, CarriesSignal, RunTask, Cancelled, Idle, Kill, KillInTrade, Killed
  <2> QED
    BY <2>1, <2>2, <2>3, <2>4
<1>5. ASSUME NEW task \in tasks' PROVE AsReceived(task.id, run, task.sig)'
  <2>1. CASE task \in tasks /\ run' = run
    <3>1. AsReceived(task.id, r, task.sig)
      BY <1>2, <2>1 DEF SignalsAsReceived
    <3>2. AsReceived(task.id, r, task.sig)'
      BY <3>1, AsReceivedKept
    <3> QED
      BY <1>2, <2>1, <3>2 DEF AsReceived, PulseAt, Earlier
  <2>2. ASSUME NEW f \in Frames, ReceiveSignal(f), task \notin tasks
        PROVE  AsReceived(task.id, run, task.sig)'
    <3>1. task.id = n /\ task.sig = SignalOf(f, pulse)
      BY <1>1, <1>5, <2>2 DEF ReceiveSignal, Spawn
    <3>2. Receive(f) /\ CarriesSignal(f) /\ pulse' = pulse
      BY <2>2 DEF ReceiveSignal
    <3>3. Len(rx') = n /\ rx'[n] = f /\ run' = r /\ n \in 1..Len(rx')
      BY <1>1, <1>2, <3>2, ReceiveFacts
    <3>4. PICK p \in Prices : p = pulse
      BY DEF MuscleTypes
    <3>5. PulseAt(n, r, p)'
      <4>1. PulseAt(n, r, p) /\ n \in 1..Len(rx) + 1 /\ r \in 1..run
        BY <1>1, <1>2, <1>3, <3>4
      <4> QED
        BY <4>1, PulseKept
    <3>6. AsReceived(n, r, task.sig)'
      BY <1>2, <3>1, <3>2, <3>3, <3>4, <3>5 DEF AsReceived
    <3> QED
      BY <3>1, <3>3, <3>6 DEF AsReceived, PulseAt, Earlier
  <2>3. \/ task \in tasks /\ run' = run
        \/ \E f \in Frames : ReceiveSignal(f) /\ task \notin tasks
    <3>1. CASE Restart
      BY <1>5, <3>1 DEF Restart, OnePlace
    <3>2. CASE \E f \in Frames : ReceiveSignal(f)
      BY <3>2, ReceiveFacts DEF ReceiveSignal
    <3> QED
      BY <1>5, <3>1, <3>2, NextStep DEF RunTask, Cancelled, Idle, Kill, KillInTrade, Killed, Receive, run
  <2> QED
    BY <2>1, <2>2, <2>3
<1>6. ASSUME NEW k \in 1..Len(executed')
      PROVE  AsReceived(executed[k].id, executed[k].run, executed[k].sig)'
  <2>1. CASE k \in 1..Len(executed) /\ executed'[k] = executed[k]
    <3>1. PICK trade \in Trades : trade = executed[k]
      BY <2>1
    <3>2. AsReceived(trade.id, trade.run, trade.sig)
      BY <2>1, <3>1 DEF SignalsAsReceived
    <3>3. AsReceived(trade.id, trade.run, trade.sig)'
      BY <3>2, AsReceivedKept
    <3> QED
      BY <2>1, <3>1, <3>3 DEF AsReceived, PulseAt, Earlier
  <2>2. ASSUME NEW task \in tasks, executed'[k].id = task.id, executed'[k].sig = task.sig,
               executed'[k].run = run
        PROVE  AsReceived(executed[k].id, executed[k].run, executed[k].sig)'
    <3>1. AsReceived(task.id, r, task.sig)
      BY <1>2 DEF SignalsAsReceived
    <3>2. AsReceived(task.id, r, task.sig)'
      BY <3>1, AsReceivedKept
    <3> QED
      BY <1>2, <2>2, <3>2 DEF AsReceived, PulseAt, Earlier
  <2>3. \/ k \in 1..Len(executed) /\ executed'[k] = executed[k]
        \/ \E task \in tasks : /\ executed'[k].id = task.id /\ executed'[k].sig = task.sig
                               /\ executed'[k].run = run
    <3>1. ASSUME NEW task \in tasks, step' = step + 1, executed' = Append(executed, Trade(task))
          PROVE  \/ k \in 1..Len(executed) /\ executed'[k] = executed[k]
                 \/ /\ executed'[k].id = task.id /\ executed'[k].sig = task.sig
                    /\ executed'[k].run = run
      BY <1>6, <3>1, TradeTypes
    <3>2. CASE UNCHANGED executed
      BY <1>6, <3>2
    <3>3. \/ UNCHANGED executed
          \/ \E task \in tasks : step' = step + 1 /\ executed' = Append(executed, Trade(task))
      BY NextStep, ProcessFacts, KillInTradeFacts
      DEF ReceiveSignal, Cancelled, Idle, Kill, Killed, Receive, Restart, engine
    <3> QED
      BY <3>1, <3>2, <3>3
  <2> QED
    BY <2>1, <2>2, <2>3
<1> QED
  BY <1>4, <1>5, <1>6 DEF SignalsAsReceived

(* A trade handed to the ledger is the only new one, and the first of its  *)
(* signal.                                                                 *)
LEMMA TradedNext ==
  ASSUME MuscleInv, NEW task \in tasks, step' = step + 1, executed' = Append(executed, Trade(task))
  PROVE  /\ \A id \in 1..MaxFrames : Traded(id)' <=> Traded(id) \/ id = task.id
         /\ \A j, k \in 1..Len(executed') : executed'[j].id = executed'[k].id => j = k
         /\ ~Traded(task.id)
<1> USE MuscleNumbers DEF MuscleInv
<1>1. /\ Len(executed') = Len(executed) + 1
      /\ \A k \in 1..Len(executed) : executed'[k] = executed[k]
      /\ executed'[Len(executed) + 1].id = task.id
  BY TradeTypes
<1>2. ~Traded(task.id)
  <2>1. verdict[task.id] = "none" /\ task.id \in 1..MaxFrames
    BY DEF OnePlace
  <2> QED
    BY <2>1 DEF OnePlace
<1>3. \A k \in 1..Len(executed') : k \in 1..Len(executed) \/ k = Len(executed) + 1
  BY <1>1
<1>4. \A k \in 1..Len(executed) : executed[k].id # task.id
  BY <1>2 DEF Traded
<1>5. \A j, k \in 1..Len(executed') : executed'[j].id = executed'[k].id => j = k
  <2>1. ASSUME NEW j \in 1..Len(executed'), NEW k \in 1..Len(executed'), executed'[j].id = executed'[k].id
        PROVE  j = k
    <3>1. CASE j \in 1..Len(executed) /\ k \in 1..Len(executed)
      BY <1>1, <2>1, <3>1 DEF OnePlace
    <3>2. CASE j = Len(executed) + 1 /\ k \in 1..Len(executed)
      BY <1>1, <1>4, <2>1, <3>2
    <3>3. CASE k = Len(executed) + 1 /\ j \in 1..Len(executed)
      BY <1>1, <1>4, <2>1, <3>3
    <3> QED
      BY <1>3, <3>1, <3>2, <3>3
  <2> QED
    BY <2>1
<1>6. ASSUME NEW id \in 1..MaxFrames PROVE Traded(id)' <=> Traded(id) \/ id = task.id
  <2>1. ASSUME Traded(id)' PROVE Traded(id) \/ id = task.id
    BY <1>1, <1>3, <2>1 DEF Traded
  <2>2. ASSUME Traded(id) PROVE Traded(id)'
    <3>1. PICK k \in 1..Len(executed) : executed[k].id = id
      BY <2>2 DEF Traded
    <3>2. k \in 1..Len(executed') /\ executed'[k].id = id
      BY <1>1, <3>1
    <3> QED
      BY <3>2 DEF Traded
  <2>3. ASSUME id = task.id PROVE Traded(id)'
    <3>1. Len(executed) + 1 \in 1..Len(executed')
      BY <1>1
    <3> QED
      BY <1>1, <2>3, <3>1 DEF Traded
  <2> QED
    BY <2>1, <2>2, <2>3
<1> QED
  BY <1>2, <1>5, <1>6

LEMMA StepOnePlace ==
  ASSUME MuscleInv, [Next]_vars
  PROVE  OnePlace'
<1> USE MuscleNumbers DEF MuscleInv
<1>1. ASSUME NEW f \in Frames, ReceiveSignal(f) PROVE OnePlace'
  <2>1. Receive(f) /\ CarriesSignal(f) /\ UNCHANGED <<main, executed>>
    BY <1>1 DEF ReceiveSignal, Receive, engine
  <2>2. PICK n \in 1..MaxFrames : n = Len(rx) + 1
    BY <2>1, ReceiveFacts
  <2>3. /\ Len(rx') = n /\ rx'[n] = f /\ \A i \in 1..Len(rx) : rx'[i] = rx[i]
    BY <2>1, <2>2, ReceiveFacts
  <2>4. verdict[n] = "none" /\ ~InTask(n) /\ ~Traded(n)
    <3>1. verdict[n] = "none"
      BY <2>2 DEF OnePlace
    <3>2. \A task \in tasks : task.id \in 1..Len(rx)
      BY DEF SignalsAsReceived, AsReceived
    <3> QED
      BY <2>2, <3>1, <3>2 DEF InTask, OnePlace
  <2>5. \A id \in 1..MaxFrames : Traded(id)' = Traded(id)
    BY <2>1 DEF Traded
  <2>6. \A id \in 1..MaxFrames : id # n =>
          ((id <= Len(rx') /\ CarriesSignal(rx'[id])) <=> (id <= Len(rx) /\ CarriesSignal(rx[id])))
    BY <2>2, <2>3
  <2>7. CASE main # "dropping"
    <3>1. tasks' = tasks \cup {[id |-> n, sig |-> SignalOf(f, pulse)]} /\ verdict' = verdict
      BY <1>1, <2>2, <2>7 DEF ReceiveSignal, Spawn
    <3>2. \A id \in 1..MaxFrames : InTask(id)' <=> InTask(id) \/ id = n
      <4>1. PICK new : new.id = n /\ tasks' = tasks \cup {new}
        BY <3>1
      <4> QED
        BY <4>1 DEF InTask
    <3>3. \A t, u \in tasks' : t.id = u.id => t = u
      BY <2>4, <3>1 DEF InTask, OnePlace
    <3>4. \A task \in tasks' : verdict'[task.id] = "none"
      BY <2>4, <3>1 DEF OnePlace
    <3>5. \A id \in 1..MaxFrames :
            IF id <= Len(rx') /\ CarriesSignal(rx'[id])
              THEN verdict'[id] # "none" \/ InTask(id)' ELSE verdict'[id] = "none"
      BY <2>1, <2>2, <2>3, <2>4, <2>6, <3>1, <3>2 DEF OnePlace
    <3>6. main # "gone"
      BY <2>1 DEF Receive
    <3> QED
      BY <2>1, <2>5, <3>1, <3>3, <3>4, <3>5, <3>6 DEF OnePlace
  <2>8. CASE main = "dropping"
    <3>1. tasks' = tasks /\ verdict' = [verdict EXCEPT ![n] = "cancelled"]
      BY <1>1, <2>2, <2>8 DEF ReceiveSignal, Spawn, OnePlace
    <3>2. \A id \in 1..MaxFrames : verdict'[id] = IF id = n THEN "cancelled" ELSE verdict[id]
      BY <3>1 DEF MuscleTypes
    <3>3. \A id \in 1..MaxFrames :
            IF id <= Len(rx') /\ CarriesSignal(rx'[id])
              THEN verdict'[id] # "none" \/ InTask(id)' ELSE verdict'[id] = "none"
      BY <2>1, <2>2, <2>3, <2>4, <2>6, <3>1, <3>2 DEF OnePlace, InTask
    <3>4. \A id \in 1..MaxFrames : verdict'[id] = "Executed" <=> Traded(id)'
      BY <2>4, <2>5, <3>2 DEF OnePlace
    <3>5. \A task \in tasks' : verdict'[task.id] = "none"
      BY <2>4, <3>1, <3>2 DEF OnePlace, InTask
    <3> QED
      BY <2>1, <2>8, <3>1, <3>3, <3>4, <3>5 DEF OnePlace
  <2> QED
    BY <2>7, <2>8
<1>2. ASSUME NEW f \in Frames, Receive(f), ~CarriesSignal(f), UNCHANGED <<tasks, verdict>>
      PROVE  OnePlace'
  <2>1. UNCHANGED <<main, executed>>
    BY <1>2 DEF Receive, engine
  <2>2. \A id \in 1..MaxFrames : InTask(id)' = InTask(id) /\ Traded(id)' = Traded(id)
    BY <1>2, <2>1 DEF InTask, Traded
  <2>3. \A id \in 1..MaxFrames :
          (id <= Len(rx') /\ CarriesSignal(rx'[id])) <=> (id <= Len(rx) /\ CarriesSignal(rx[id]))
    BY <1>2, ReceiveFacts
  <2> QED
    BY <1>2, <2>1, <2>2, <2>3 DEF OnePlace
<1>3. ASSUME NEW task \in tasks, RunTask(task.id), ProcessSignal(task) PROVE OnePlace'
  <2>1. UNCHANGED <<rx, main>> /\ tasks' = tasks \ {task}
    BY <1>3 DEF RunTask, OnePlace
  <2>2. task.id \in 1..MaxFrames /\ verdict[task.id] = "none" /\ ~Traded(task.id)
        /\ task.id <= Len(rx) /\ CarriesSignal(rx[task.id])
    BY DEF OnePlace, SignalsAsReceived, AsReceived
  <2>3. /\ verdict'[task.id] = Decision(task.sig, sizer') /\ verdict'[task.id] \in Verdicts
        /\ \A id \in 1..MaxFrames : id # task.id => verdict'[id] = verdict[id]
    BY <1>3, <2>2, ProcessFacts DEF MuscleTypes
  <2>4. \A id \in 1..MaxFrames : InTask(id)' <=> InTask(id) /\ id # task.id
    BY <2>1 DEF InTask, OnePlace
  <2>5. "none" \notin Verdicts
    BY DEF Verdicts
  <2>6. /\ \A id \in 1..MaxFrames : verdict'[id] = "Executed" <=> Traded(id)'
        /\ \A j, k \in 1..Len(executed') : executed'[j].id = executed'[k].id => j = k
    <3>1. CASE Decision(task.sig, sizer') = "Executed"
      <4>1. step' = step + 1 /\ executed' = Append(executed, Trade(task))
        BY <1>3, <3>1, ProcessFacts
      <4>2. \A id \in 1..MaxFrames : Traded(id)' <=> Traded(id) \/ id = task.id
        BY <4>1, TradedNext
      <4>3. \A j, k \in 1..Len(executed') : executed'[j].id = executed'[k].id => j = k
        BY <4>1, TradedNext
      <4> QED
        BY <2>2, <2>3, <3>1, <4>2, <4>3 DEF OnePlace
    <3>2. CASE Decision(task.sig, sizer') # "Executed"
      <4>1. executed' = executed
        BY <1>3, <3>2, ProcessFacts
      <4>2. \A id \in 1..MaxFrames : Traded(id)' = Traded(id)
        BY <4>1 DEF Traded
      <4> QED
        BY <2>2, <2>3, <3>2, <4>1, <4>2 DEF OnePlace
    <3> QED
      BY <3>1, <3>2
  <2>7. \A id \in 1..MaxFrames :
          IF id <= Len(rx') /\ CarriesSignal(rx'[id])
            THEN verdict'[id] # "none" \/ InTask(id)' ELSE verdict'[id] = "none"
    BY <2>1, <2>2, <2>3, <2>4, <2>5 DEF OnePlace
  <2>8. \A t \in tasks' : verdict'[t.id] = "none"
    BY <2>1, <2>3 DEF OnePlace
  <2> QED
    BY <2>1, <2>6, <2>7, <2>8 DEF OnePlace
<1>4. ASSUME Kill PROVE OnePlace'
  <2>0. verdict' = Lost /\ tasks' = {} /\ UNCHANGED <<rx, executed>>
    BY <1>4 DEF Kill, Killed, engine
  <2>1. \A id \in 1..MaxFrames : verdict'[id] = IF InTask(id) THEN "killed" ELSE verdict[id]
    BY <2>0, LostFacts
  <2>2. \A id \in 1..MaxFrames : ~InTask(id)' /\ Traded(id)' = Traded(id)
    BY <2>0 DEF InTask, Traded
  <2>3. \A id \in 1..MaxFrames : InTask(id) =>
          verdict[id] = "none" /\ ~Traded(id) /\ id <= Len(rx) /\ CarriesSignal(rx[id])
    BY DEF InTask, OnePlace, SignalsAsReceived, AsReceived
  <2>4. \A id \in 1..MaxFrames :
          IF id <= Len(rx') /\ CarriesSignal(rx'[id])
            THEN verdict'[id] # "none" \/ InTask(id)' ELSE verdict'[id] = "none"
    BY <2>0, <2>1, <2>3 DEF OnePlace
  <2>5. \A id \in 1..MaxFrames : verdict'[id] = "Executed" <=> Traded(id)'
    BY <2>1, <2>2, <2>3 DEF OnePlace
  <2> QED
    BY <2>0, <2>4, <2>5 DEF OnePlace
<1>10. ASSUME NEW task \in tasks, Cancelled(task) PROVE OnePlace'
  <2>0. /\ tasks' = tasks \ {task} /\ verdict' = [verdict EXCEPT ![task.id] = "cancelled"]
        /\ UNCHANGED <<rx, executed, main>> /\ main # "gone"
    BY <1>10 DEF Cancelled, engine
  <2>1. task.id \in 1..MaxFrames /\ verdict[task.id] = "none" /\ ~Traded(task.id)
        /\ task.id <= Len(rx) /\ CarriesSignal(rx[task.id])
    BY DEF OnePlace, SignalsAsReceived, AsReceived
  <2>2. \A id \in 1..MaxFrames : verdict'[id] = IF id = task.id THEN "cancelled" ELSE verdict[id]
    BY <2>0 DEF MuscleTypes
  <2>3. \A id \in 1..MaxFrames : /\ InTask(id)' <=> InTask(id) /\ id # task.id
                                 /\ Traded(id)' = Traded(id)
    BY <2>0 DEF InTask, OnePlace, Traded
  <2>4. \A id \in 1..MaxFrames :
          IF id <= Len(rx') /\ CarriesSignal(rx'[id])
            THEN verdict'[id] # "none" \/ InTask(id)' ELSE verdict'[id] = "none"
    BY <2>0, <2>1, <2>2, <2>3 DEF OnePlace
  <2>5. \A id \in 1..MaxFrames : verdict'[id] = "Executed" <=> Traded(id)'
    BY <2>1, <2>2, <2>3 DEF OnePlace
  <2>6. \A t \in tasks' : t.id # task.id /\ verdict'[t.id] = "none"
    BY <2>0, <2>2 DEF OnePlace
  <2> QED
    BY <2>0, <2>4, <2>5, <2>6 DEF OnePlace
<1>5. CASE KillInTrade
  <2>1. UNCHANGED rx /\ tasks' = {}
    BY <1>5 DEF KillInTrade, Killed
  <2>2. PICK task \in tasks : /\ step' = step + 1 /\ executed' = Append(executed, Trade(task))
                              /\ verdict' = [Lost EXCEPT ![task.id] = "Executed"]
    BY <1>5, KillInTradeFacts
  <2>3. task.id \in 1..MaxFrames
    OBVIOUS
  <2>4. \A id \in 1..MaxFrames :
          verdict'[id] = IF id = task.id THEN "Executed" ELSE IF InTask(id) THEN "killed" ELSE verdict[id]
    BY <2>2, <2>3, LostFacts
  <2>5. \A id \in 1..MaxFrames : InTask(id) =>
          verdict[id] = "none" /\ ~Traded(id) /\ id <= Len(rx) /\ CarriesSignal(rx[id])
    BY DEF InTask, OnePlace, SignalsAsReceived, AsReceived
  <2>6. InTask(task.id)
    BY DEF InTask
  <2>7. \A id \in 1..MaxFrames : Traded(id)' <=> Traded(id) \/ id = task.id
    BY <2>2, TradedNext
  <2>8. \A j, k \in 1..Len(executed') : executed'[j].id = executed'[k].id => j = k
    BY <2>2, TradedNext
  <2>9. \A id \in 1..MaxFrames :
          IF id <= Len(rx') /\ CarriesSignal(rx'[id])
            THEN verdict'[id] # "none" \/ InTask(id)' ELSE verdict'[id] = "none"
    BY <2>1, <2>3, <2>4, <2>5, <2>6 DEF OnePlace
  <2>10. \A id \in 1..MaxFrames : verdict'[id] = "Executed" <=> Traded(id)'
    BY <2>4, <2>5, <2>7 DEF OnePlace
  <2> QED
    BY <2>1, <2>8, <2>9, <2>10 DEF OnePlace
<1>6. CASE Restart \/ Idle
  <2>1. /\ UNCHANGED <<rx, tasks, executed, verdict>>
        /\ main' = "gone" => tasks = {}
    BY <1>6 DEF Restart, Idle, engine, OnePlace
  <2> QED
    BY <2>1 DEF OnePlace, InTask, Traded
<1> QED
  BY <1>1, <1>2, <1>3, <1>4, <1>5, <1>6, <1>10, NextStep

(* Counting the places of a run among n trades, and among one more.        *)
Count(e, r, last) == Cardinality({j \in 1..last : e[j].run = r})

LEMMA CountFinite ==
  ASSUME NEW k \in Nat, NEW e, NEW r
  PROVE  IsFiniteSet({j \in 1..k : e[j].run = r}) /\ Count(e, r, k) \in Nat
<1>1. IsFiniteSet(1..k)
  BY FS_Interval
<1>2. {j \in 1..k : e[j].run = r} \in SUBSET (1..k)
  OBVIOUS
<1>3. IsFiniteSet({j \in 1..k : e[j].run = r})
  BY <1>1, <1>2, FS_Subset
<1> QED
  BY <1>3, FS_CardinalityType DEF Count

LEMMA CountKept ==
  ASSUME NEW n \in Nat, NEW k \in 0..n, NEW e, NEW f, NEW r, \A j \in 1..n : f[j] = e[j]
  PROVE  Count(f, r, k) = Count(e, r, k) /\ Count(e, r, k) \in Nat
<1>1. \A j \in 1..k : f[j] = e[j]
  OBVIOUS
<1>2. {j \in 1..k : f[j].run = r} = {j \in 1..k : e[j].run = r}
  BY <1>1
<1>3. Count(f, r, k) = Count(e, r, k)
  BY <1>2 DEF Count
<1>4. k \in Nat
  OBVIOUS
<1>5. Count(e, r, k) \in Nat
  BY <1>4, CountFinite
<1> QED
  BY <1>3, <1>5

LEMMA CountNext ==
  ASSUME NEW n \in Nat, NEW e, NEW f, NEW r, \A j \in 1..n : f[j] = e[j]
  PROVE  Count(f, r, n + 1) = Count(e, r, n) + (IF f[n + 1].run = r THEN 1 ELSE 0)
<1>1. Count(e, r, n) \in Nat /\ IsFiniteSet({j \in 1..n : e[j].run = r})
  BY CountFinite
<1>2. PICK before : before = {j \in 1..n : e[j].run = r}
  OBVIOUS
<1>3. PICK after : after = {j \in 1..(n + 1) : f[j].run = r}
  OBVIOUS
<1>4. IsFiniteSet(before) /\ Cardinality(before) \in Nat /\ n + 1 \notin before
  <2>1. n + 1 \notin 1..n
    OBVIOUS
  <2> QED
    BY <1>1, <1>2, <2>1 DEF Count
<1>5. Cardinality(after) = Cardinality(before) + (IF f[n + 1].run = r THEN 1 ELSE 0)
  <2>1. CASE f[n + 1].run = r
    <3>1. after = before \cup {n + 1}
      BY <1>2, <1>3, <2>1
    <3> QED
      BY <1>4, <2>1, <3>1, FS_AddElement
  <2>2. CASE f[n + 1].run # r
    <3>1. after = before
      BY <1>2, <1>3, <2>2
    <3> QED
      BY <1>4, <2>2, <3>1
  <2> QED
    BY <2>1, <2>2
<1> QED
  BY <1>2, <1>3, <1>5, Zenon DEF Count

(* A new trade counts one more for its run from then on, and nothing before. *)
LEMMA TradesGrow ==
  ASSUME MuscleTypes, NEW task \in tasks, step' = step + 1, executed' = Append(executed, Trade(task)),
         NEW r \in 1..MaxRuns, NEW n \in Nat, n = Len(executed)
  PROVE  /\ \A k \in 0..n : TradesOf(r, k)' = TradesOf(r, k) /\ TradesOf(r, k) \in Nat
         /\ TradesOf(r, n + 1)' = TradesOf(r, n) + (IF r = run THEN 1 ELSE 0)
<1>1. /\ \A k \in 1..n : executed'[k] = executed[k]
      /\ executed'[n + 1].run = run
  BY TradeTypes
<1>2. \A k : TradesOf(r, k) = Count(executed, r, k)
  BY Zenon DEF TradesOf, Count
<1>3. \A k : TradesOf(r, k)' = Count(executed', r, k)
  BY Zenon DEF TradesOf, Count
<1>4. PICK e, f : e = executed /\ f = executed'
  OBVIOUS
<1>5. \A k \in 1..n : f[k] = e[k]
  BY <1>1, <1>4
<1>6. Count(f, r, n + 1) = Count(e, r, n) + (IF f[n + 1].run = r THEN 1 ELSE 0)
  BY <1>5, CountNext
<1>7. ASSUME NEW k \in 0..n PROVE Count(f, r, k) = Count(e, r, k) /\ Count(e, r, k) \in Nat
  BY <1>5, CountKept
<1> QED
  BY <1>1, <1>2, <1>3, <1>4, <1>6, <1>7

LEMMA StepStepsInOrder ==
  ASSUME MuscleInv, MuscleTypes', [Next]_vars
  PROVE  StepsInOrder'
<1> USE MuscleNumbers DEF MuscleInv
<1>1. PICK n \in Nat : n = Len(executed)
  OBVIOUS
<1>2. PICK r \in 1..MaxRuns : r = run
  BY DEF MuscleTypes
<1>3. ASSUME NEW task \in tasks, step' = step + 1, executed' = Append(executed, Trade(task)), boots' = boots
      PROVE  StepsInOrder'
  <2>1. /\ Len(executed') = n + 1 /\ executed'[n + 1].run = r /\ executed'[n + 1].step = step + 1
        /\ \A k \in 1..n : executed'[k] = executed[k]
    BY <1>1, <1>2, <1>3, TradeTypes
  <2>2. TradesOf(r, n + 1)' = TradesOf(r, n) + 1
    BY <1>1, <1>2, <1>3, TradesGrow
  <2>3. step = TradesOf(r, n)
    BY <1>1, <1>2 DEF StepsInOrder, TradesOf
  <2>4. step' = TradesOf(run, Len(executed))'
    BY <1>2, <1>3, <2>1, <2>2, <2>3 DEF TradesOf, run
  <2>5. ASSUME NEW k \in 1..Len(executed') PROVE executed'[k].step = TradesOf(executed[k].run, k)'
    <3>1. CASE k \in 1..n
      <4>1. PICK s \in 1..MaxRuns : s = executed[k].run
        BY <1>1, <3>1
      <4>2. executed[k].step = TradesOf(s, k)
        BY <1>1, <3>1, <4>1 DEF StepsInOrder, TradesOf
      <4>3. k \in 0..n
        BY <3>1
      <4>4. TradesOf(s, k)' = TradesOf(s, k)
        BY <1>1, <1>3, <4>3, TradesGrow
      <4> QED
        BY <2>1, <3>1, <4>1, <4>2, <4>4 DEF TradesOf
    <3>2. CASE k = n + 1
      BY <2>1, <2>2, <2>3, <3>2 DEF TradesOf
    <3> QED
      BY <2>1, <3>1, <3>2
  <2> QED
    BY <2>4, <2>5 DEF StepsInOrder
<1>4. CASE UNCHANGED <<step, executed, boots>>
  BY <1>4 DEF StepsInOrder, TradesOf, run
<1>5. CASE Restart
  <2>1. executed' = executed /\ step' = 0 /\ run' = run + 1
    BY <1>5, AppendProperties DEF Restart, MuscleTypes, run
  <2>2. \A k \in 1..n : executed[k].run # run + 1
    <3>1. \A k \in 1..n : executed[k].run \in 1..run
      BY <1>1 DEF SignalsAsReceived, AsReceived
    <3> QED
      BY <3>1
  <2>3. {k \in 1..n : executed'[k].run = run'} = {}
    BY <2>1, <2>2
  <2>4. step' = TradesOf(run, Len(executed))'
    BY <1>1, <2>1, <2>3, FS_EmptySet DEF TradesOf
  <2>5. \A k \in 1..Len(executed') : executed'[k].step = TradesOf(executed[k].run, k)'
    BY <2>1 DEF StepsInOrder, TradesOf
  <2> QED
    BY <2>4, <2>5 DEF StepsInOrder
<1>6. \/ \E task \in tasks : step' = step + 1 /\ executed' = Append(executed, Trade(task)) /\ boots' = boots
      \/ UNCHANGED <<step, executed, boots>>
      \/ Restart
  <2>1. ASSUME NEW task \in tasks, RunTask(task.id), ProcessSignal(task)
        PROVE  \/ step' = step + 1 /\ executed' = Append(executed, Trade(task)) /\ boots' = boots
               \/ UNCHANGED <<step, executed, boots>>
    BY <2>1, ProcessFacts DEF RunTask
  <2>2. ASSUME KillInTrade
        PROVE  \E task \in tasks : /\ step' = step + 1 /\ executed' = Append(executed, Trade(task))
                                   /\ boots' = boots
    <3>1. boots' = boots
      BY <2>2 DEF KillInTrade, Killed
    <3> QED
      BY <2>2, <3>1, KillInTradeFacts
  <2> QED
    BY <2>1, <2>2, NextStep DEF ReceiveSignal, Receive, Cancelled, Idle, Kill, Killed, engine
<1> QED
  BY <1>3, <1>4, <1>5, <1>6

(* The wallet the sizer follows is the one the trade is made from.         *)
LEMMA StepWithinFunds ==
  ASSUME MuscleInv, [Next]_vars
  PROVE  TradedWithinFunds'
<1> USE MuscleNumbers DEF MuscleInv
<1>1. useKelly' = useKelly
  BY NextStep DEF ReceiveSignal, Receive, RunTask, Cancelled, Idle, Kill, KillInTrade, Killed, Restart, config
<1>2. ASSUME NEW task \in tasks, SyncSizer(task.sig), Decision(task.sig, sizer') = "Executed",
             step' = step + 1, executed' = Append(executed, Trade(task))
      PROVE  TradedWithinFunds'
  <2>1. /\ PassesGate(task.sig) /\ task.sig.side \in {"buy", "sell"}
        /\ HasQuantity(task.sig, sizer') /\ ~OverLimit(task.sig, sizer')
    BY <1>2, DecisionFacts
  <2>2. sizer' = wallet
    BY <1>2, <2>1 DEF SyncSizer
  <2>3. PICK sig \in Signals, funds \in Balances : sig = task.sig /\ funds = wallet
    BY DEF MuscleTypes
  <2>4. /\ PassesGate(sig) /\ sig.side \in {"buy", "sell"}
        /\ HasQuantity(sig, funds) /\ ~OverLimit(sig, funds)
    BY <2>1, <2>2, <2>3
  <2>5. useKelly => sig.price > 0
    BY <2>4 DEF HasQuantity, OverLimit, SizeExceeds
  <2>6. /\ Len(executed') = Len(executed) + 1
        /\ \A k \in 1..Len(executed) : executed'[k] = executed[k]
        /\ executed'[Len(executed) + 1].sig = sig /\ executed'[Len(executed) + 1].funds = funds
    BY <1>2, <2>3, TradeTypes
  <2>7. ASSUME NEW k \in 1..Len(executed')
        PROVE  /\ PassesGate(executed'[k].sig) /\ executed'[k].sig.side \in {"buy", "sell"}
               /\ HasQuantity(executed[k].sig, executed[k].funds)'
               /\ ~OverLimit(executed[k].sig, executed[k].funds)'
               /\ useKelly' => executed'[k].sig.price > 0
    <3>1. CASE k \in 1..Len(executed)
      <4>1. executed'[k] = executed[k]
        BY <2>6, <3>1
      <4> QED
        BY <1>1, <3>1, <4>1 DEF TradedWithinFunds, HasQuantity, OverLimit
    <3>2. CASE k = Len(executed) + 1
      BY <1>1, <2>4, <2>5, <2>6, <3>2 DEF HasQuantity, OverLimit
    <3> QED
      BY <2>6, <3>1, <3>2
  <2> QED
    BY <2>7 DEF TradedWithinFunds, PassesGate
<1>3. CASE UNCHANGED executed
  BY <1>1, <1>3 DEF TradedWithinFunds, PassesGate, HasQuantity, OverLimit
<1>4. ASSUME NEW task \in tasks, ProcessSignal(task)
      PROVE  \/ UNCHANGED executed
             \/ /\ SyncSizer(task.sig) /\ Decision(task.sig, sizer') = "Executed"
                /\ step' = step + 1 /\ executed' = Append(executed, Trade(task))
  BY <1>4, ProcessFacts DEF ProcessSignal
<1>5. \/ UNCHANGED executed
      \/ \E task \in tasks : /\ SyncSizer(task.sig) /\ Decision(task.sig, sizer') = "Executed"
                             /\ step' = step + 1 /\ executed' = Append(executed, Trade(task))
  BY <1>4, NextStep, KillInTradeFacts
  DEF ReceiveSignal, Receive, Cancelled, Idle, Kill, Killed, Restart, engine
<1> QED
  BY <1>2, <1>3, <1>5

LEMMA StepCutRuns ==
  ASSUME MuscleInv, [Next]_vars
  PROVE  CutRunsOver'
<1> USE MuscleNumbers DEF MuscleInv
<1>1. CASE Restart
  <2>1. boots' = Append(boots, Len(rx)) /\ cutRuns' = cutRuns /\ boots \in Seq(0..Len(rx))
        /\ Len(rx) \in 0..Len(rx)
    BY <1>1 DEF Restart, MuscleTypes
  <2>2. run' = run + 1
    BY <2>1, AppendProperties DEF run
  <2> QED
    BY <2>1, <2>2 DEF CutRunsOver
<1>2. CASE KillInTrade
  <2>1. run' = run /\ cutRuns' = cutRuns \cup {run} /\ main' = "gone" /\ run \in 1..run
    BY <1>2 DEF KillInTrade, Killed, run, MuscleTypes
  <2> QED
    BY <2>1 DEF CutRunsOver
<1>3. ASSUME UNCHANGED <<boots, cutRuns>>, main = "gone" => main' = "gone" PROVE CutRunsOver'
  BY <1>3 DEF CutRunsOver, run
<1>4. ASSUME NEW f \in Frames, Receive(f) PROVE UNCHANGED <<boots, cutRuns, main>>
  BY <1>4 DEF Receive
<1> QED
  BY <1>1, <1>2, <1>3, <1>4, NextStep DEF ReceiveSignal, RunTask, Cancelled, Idle, Kill, Killed

LEMMA StepMuscle == MuscleInv /\ [Next]_vars => MuscleInv'
<1> SUFFICES ASSUME MuscleInv, [Next]_vars PROVE MuscleInv'
  OBVIOUS
<1>1. MuscleTypes' /\ LogTypes'
  BY TypeMuscle DEF MuscleInv
<1> QED
  BY <1>1, StepAsReceived, StepOnePlace, StepStepsInOrder, StepWithinFunds, StepCutRuns DEF MuscleInv

LEMMA MuscleInvariant == Spec => []MuscleInv
<1> QED
  BY InitMuscle, StepMuscle, PTL DEF Spec

-----------------------------------------------------------------------------
(* No two trades are of the same frame: no more of them than frames.       *)
LEMMA NoMoreTradesThanFrames ==
  ASSUME MuscleInv
  PROVE  Len(executed) <= Len(rx)
<1>1. PICK n \in Nat, m \in Nat : n = Len(executed) /\ m = Len(rx)
  BY MuscleNumbers DEF MuscleInv
<1> DEFINE f == [k \in 1..n |-> executed[k].id]
<1>2. \A k \in 1..n : executed[k].id \in 1..m
  BY <1>1 DEF SignalsAsReceived, AsReceived, MuscleInv
<1>3. f \in [1..n -> 1..m]
  BY <1>2
<1>4. \A j, k \in 1..n : f[j] = f[k] => j = k
  BY <1>1 DEF OnePlace, MuscleInv
<1>5. f \in Injection(1..n, 1..m)
  BY <1>3, <1>4 DEF Injection, IsInjective
<1>6. IsFiniteSet(1..n) /\ Cardinality(1..n) = n
  BY FS_Interval
<1>7. IsFiniteSet(1..m) /\ Cardinality(1..m) = m
  BY FS_Interval
<1>8. Cardinality(1..n) <= Cardinality(1..m)
  BY <1>5, <1>7, FS_Injection
<1> QED
  BY <1>1, <1>6, <1>7, <1>8

(* The pulse a frame was received under is the one PulseBefore names.      *)
LEMMA PulseIsBefore ==
  ASSUME MuscleTypes, NEW id \in 1..Len(rx), NEW r \in 1..run, NEW p, PulseAt(id, r, p)
  PROVE  PulseBefore(id, r) = p
<1>1. CASE Earlier(id, r) = {}
  BY <1>1 DEF PulseAt, PulseBefore, Earlier
<1>2. CASE Earlier(id, r) # {}
  <2>1. PICK m \in Earlier(id, r) : (\A j \in Earlier(id, r) : j <= m) /\ rx[m].prices = p
    BY <1>2 DEF PulseAt
  <2>2. \A i \in Earlier(id, r) : i \in Int
    BY MuscleNumbers DEF Earlier
  <2>3. PICK l : l = CHOOSE i \in Earlier(id, r) : \A j \in Earlier(id, r) : j <= i
    OBVIOUS
  <2>4. l \in Earlier(id, r) /\ \A j \in Earlier(id, r) : j <= l
    BY <2>1, <2>3
  <2>5. l = m
    BY <2>1, <2>2, <2>4
  <2>6. PulseBefore(id, r) = rx[l].prices
    BY <1>2, <2>3 DEF PulseBefore, Earlier
  <2> QED
    BY <2>1, <2>5, <2>6
<1> QED
  BY <1>1, <1>2

(* The muscle's variables keep their types in every run: a task is of a    *)
(* frame received, no more is executed than was received, no more is       *)
(* logged than was executed (main.rs, lib.rs).                             *)
THEOREM MuscleTypeCorrect == Spec => []TypeOK
<1>1. ASSUME MuscleInv PROVE TypeOK
  <2> USE MuscleNumbers DEF MuscleInv
  <2>1. pulse \in [Tickers -> Int]
    <3>1. DefaultPulse \in [Tickers -> Int]
      BY DEF DefaultPulse
    <3> QED
      BY <1>1, <3>1, FramesAssumption DEF MuscleTypes, Prices
  <2>2. \A task \in tasks : task.id \in 1..Len(rx)
    BY <1>1 DEF SignalsAsReceived, AsReceived
  <2>3. Len(executed) <= Len(rx) /\ Len(rx) <= MaxFrames
    BY <1>1, NoMoreTradesThanFrames DEF MuscleTypes
  <2>4. step \in 0..MaxFrames
    <3>1. PICK n \in Nat : n = Len(executed)
      BY <1>1
    <3>2. {k \in 1..n : executed[k].run = run} \in SUBSET (1..n)
      OBVIOUS
    <3>3. IsFiniteSet(1..n) /\ Cardinality(1..n) = n
      BY FS_Interval
    <3>4. Cardinality({k \in 1..n : executed[k].run = run}) <= n
      BY <3>2, <3>3, FS_Subset
    <3>5. step = Cardinality({k \in 1..n : executed[k].run = run})
      BY <1>1, <3>1 DEF StepsInOrder, TradesOf
    <3>6. step \in Nat /\ Len(rx) \in Nat /\ MaxFrames \in Nat
      BY <1>1 DEF MuscleTypes
    <3>7. step <= n /\ n <= Len(rx) /\ Len(rx) <= MaxFrames
      BY <2>3, <3>1, <3>4, <3>5
    <3> HIDE DEF MuscleInv
    <3> QED
      BY <3>6, <3>7
  <2>5. Len(log) <= Len(executed)
    BY <1>1 DEF LogTypes
  <2> QED
    BY <1>1, <2>1, <2>2, <2>3, <2>4, <2>5 DEF TypeOK, MuscleTypes, Ends, MuscleInv, CutRunsOver
<1> QED
  BY <1>1, MuscleInvariant, PTL

(* A trade is executed as its frame said under the last pulse its run got  *)
(* before it, in whatever order the tasks ran (main.rs:76-86).             *)
THEOREM TradesAsReceived == Spec => []ExecutedAsReceived
<1>1. ASSUME MuscleInv PROVE ExecutedAsReceived
  <2>1. ASSUME NEW k \in 1..Len(executed)
        PROVE  /\ CarriesSignal(rx[executed[k].id])
               /\ executed[k].sig =
                    SignalOf(rx[executed[k].id], PulseBefore(executed[k].id, executed[k].run))
    <3>1. PICK id, r, sig : id = executed[k].id /\ r = executed[k].run /\ sig = executed[k].sig
      OBVIOUS
    <3>2. AsReceived(id, r, sig)
      BY <1>1, <3>1 DEF MuscleInv, SignalsAsReceived
    <3>3. PICK p \in Prices : PulseAt(id, r, p) /\ sig = SignalOf(rx[id], p)
      BY <3>2 DEF AsReceived
    <3>4. PulseBefore(id, r) = p
      BY <1>1, <3>2, <3>3, PulseIsBefore DEF AsReceived, MuscleInv
    <3> QED
      BY <3>1, <3>2, <3>3, <3>4 DEF AsReceived
  <2> QED
    BY <2>1 DEF ExecutedAsReceived
<1> QED
  BY <1>1, MuscleInvariant, PTL

(* Every trade passed every gate on the funds the wallet had when it was   *)
(* made (sync_sizer_balance before the sizing, under one lock).            *)
THEOREM TradesWithinFunds == Spec => []TradedWithinFunds
<1>1. MuscleInv => TradedWithinFunds
  BY DEF MuscleInv
<1> QED
  BY <1>1, MuscleInvariant, PTL

(* Every signal received is in one place, and traded once and under the    *)
(* next step number of its run exactly if it executed.                     *)
THEOREM SignalsAccounted == Spec => []EverySignalAccounted
<1>1. ASSUME MuscleInv PROVE EverySignalAccounted
  <2> USE MuscleNumbers DEF MuscleInv
  <2>1. \A id \in 1..Len(rx) :
          CarriesSignal(rx[id]) <=> (verdict[id] # "none" \/ \E task \in tasks : task.id = id)
    <3>1. ASSUME NEW id \in 1..Len(rx)
          PROVE  CarriesSignal(rx[id]) <=> (verdict[id] # "none" \/ InTask(id))
      <4>1. id \in 1..MaxFrames /\ id <= Len(rx)
        BY <1>1 DEF MuscleTypes
      <4>2. InTask(id) => CarriesSignal(rx[id])
        BY <1>1 DEF InTask, SignalsAsReceived, AsReceived
      <4> QED
        BY <1>1, <4>1, <4>2 DEF OnePlace
    <3> QED
      BY <3>1 DEF InTask
  <2>2. \A id \in 1..MaxFrames : verdict[id] = "Executed" <=>
          \E k \in 1..Len(executed) : executed[k].id = id
    BY <1>1 DEF OnePlace, Traded
  <2> QED
    BY <1>1, <2>1, <2>2 DEF EverySignalAccounted, OnePlace, StepsInOrder
<1> QED
  BY <1>1, MuscleInvariant, PTL

-----------------------------------------------------------------------------
(* The ledger's log.  An append goes on in a line that was not ended, or    *)
(* begins one.                                                              *)
LEMMA WriteIs ==
  ASSUME log \in Seq(Lines), NEW part \in Parts, NEW ended \in BOOLEAN,
         NEW next, next = Write(log, part, ended)
  PROVE  /\ Len(log) \in Nat /\ Len(next) \in Nat /\ Len(next) > 0
         /\ \A n \in 1..Len(next) : n < Len(next) => n \in 1..Len(log) /\ next[n] = log[n]
         /\ ended => next[Len(next)].ended
         /\ \/ /\ Len(log) > 0 /\ ~log[Len(log)].ended /\ Len(next) = Len(log)
               /\ next[Len(next)].parts = Append(log[Len(log)].parts, part)
            \/ /\ ~(Len(log) > 0 /\ ~log[Len(log)].ended) /\ Len(next) = Len(log) + 1
               /\ next[Len(next)].parts = <<part>>
<1> DEFINE last == Len(log)
<1>1. last \in Nat
  OBVIOUS
<1>2. ASSUME NEW parts PROVE Line(parts, ended).parts = parts /\ (ended => Line(parts, ended).ended)
  BY DEF Line
<1>3. CASE last > 0 /\ ~log[last].ended
  <2>1. PICK line : line = Line(Append(log[last].parts, part), ended)
    OBVIOUS
  <2>2. next = [log EXCEPT ![last] = line]
    BY <1>3, <2>1 DEF Write
  <2>3. /\ Len(next) = last /\ next[last] = line
        /\ \A n \in 1..last : n # last => next[n] = log[n]
    BY <1>1, <1>3, <2>2
  <2>4. line.parts = Append(log[last].parts, part) /\ (ended => line.ended)
    BY <1>2, <2>1
  <2> QED
    BY <1>1, <1>3, <2>3, <2>4
<1>4. CASE ~(last > 0 /\ ~log[last].ended)
  <2>1. PICK line : line = Line(<<part>>, ended)
    OBVIOUS
  <2>2. next = Append(log, line)
    BY <1>4, <2>1 DEF Write
  <2>3. /\ Len(next) = last + 1 /\ next[last + 1] = line
        /\ \A n \in 1..last : next[n] = log[n]
    BY <1>1, <2>2
  <2>4. line.parts = <<part>> /\ (ended => line.ended)
    BY <1>2, <2>1
  <2> QED
    BY <1>1, <1>4, <2>3, <2>4
<1> QED
  BY <1>3, <1>4

LEMMA NumberOfParts ==
  ASSUME NEW line, NEW size \in Nat, Len(line.parts) = size
  PROVE  /\ size >= 2 => ~Parses(line)
         /\ size = 1 => Len(line.parts) >= 1
  BY DEF Parses

(* After an append only the new record's line may newly parse, and only a   *)
(* line that was not ended may cease to.                                    *)
LEMMA LinesNext ==
  ASSUME LogTypes, LinesInOrder, NEW id \in 1..MaxFrames, NEW part \in {id, Torn, Garbled},
         NEW ended \in BOOLEAN, log' = Write(log, part, ended)
  PROVE  /\ Len(log') \in Nat /\ Len(log') > 0 /\ (ended => log'[Len(log')].ended)
         /\ \A n \in 1..Len(log') : Len(log'[n].parts) >= 1
         /\ \A n \in 1..Len(log') : Parses(log'[n]) =>
              \/ n < Len(log') /\ n \in 1..Len(log) /\ log'[n] = log[n]
              \/ n = Len(log') /\ n = Len(log) + 1 /\ log'[n].parts[1] = id
         /\ \A n \in 1..Len(log) : n < Len(log) \/ log[n].ended =>
              n \in 1..Len(log') /\ log'[n] = log[n]
         /\ Len(log) > 0 /\ ~log[Len(log)].ended => Len(log') = Len(log)
         /\ part = id /\ (Len(log) = 0 \/ log[Len(log)].ended) =>
              Parses(log'[Len(log')]) /\ log'[Len(log')].parts[1] = id
<1>1. log \in Seq(Lines) /\ part \in Parts
  BY DEF LogTypes, Parts
<1>2. PICK next : next = log'
  OBVIOUS
<1>3. /\ Len(log) \in Nat /\ Len(next) \in Nat /\ Len(next) > 0
      /\ \A n \in 1..Len(next) : n < Len(next) => n \in 1..Len(log) /\ next[n] = log[n]
      /\ ended => next[Len(next)].ended
      /\ \/ /\ Len(log) > 0 /\ ~log[Len(log)].ended /\ Len(next) = Len(log)
            /\ next[Len(next)].parts = Append(log[Len(log)].parts, part)
         \/ /\ ~(Len(log) > 0 /\ ~log[Len(log)].ended) /\ Len(next) = Len(log) + 1
            /\ next[Len(next)].parts = <<part>>
  BY <1>1, <1>2, WriteIs
<1>4. \A n \in 1..Len(log) : Len(log[n].parts) \in Nat /\ Len(log[n].parts) >= 1
  <2> SUFFICES ASSUME NEW n \in 1..Len(log)
               PROVE  Len(log[n].parts) \in Nat /\ Len(log[n].parts) >= 1
    OBVIOUS
  <2>1. log[n] \in Lines
    BY <1>1, ElementOfSeq
  <2>2. PICK parts \in Seq(Parts) : parts = log[n].parts
    BY <2>1 DEF Lines
  <2>3. Len(parts) \in Nat
    BY <2>2
  <2>4. Len(log[n].parts) >= 1
    BY Zenon DEF LinesInOrder
  <2> QED
    BY <2>2, <2>3, <2>4
<1>5. CASE /\ Len(log) > 0 /\ ~log[Len(log)].ended /\ Len(next) = Len(log)
           /\ next[Len(next)].parts = Append(log[Len(log)].parts, part)
  <2>1. Len(log) \in 1..Len(log)
    BY <1>3, <1>5
  <2>2. log[Len(log)].parts \in Seq(Parts)
    <3>1. log[Len(log)] \in Lines
      BY <1>1, <2>1, ElementOfSeq
    <3> QED
      BY <3>1 DEF Lines
  <2>3. Len(next[Len(next)].parts) >= 2 /\ Len(next[Len(next)].parts) \in Nat
    BY <1>1, <1>4, <1>5, <2>1, <2>2
  <2>4. ~Parses(next[Len(next)])
    BY <2>3, NumberOfParts
  <2> QED
    BY <1>2, <1>3, <1>4, <1>5, <2>3, <2>4
<1>6. CASE /\ ~(Len(log) > 0 /\ ~log[Len(log)].ended) /\ Len(next) = Len(log) + 1
           /\ next[Len(next)].parts = <<part>>
  <2>1. Len(next[Len(next)].parts) = 1 /\ next[Len(next)].parts[1] = part
    BY <1>6
  <2>2. Parses(next[Len(next)]) <=> part \notin {Torn, Garbled}
    BY <2>1 DEF Parses
  <2>3. id \notin {Torn, Garbled}
    BY TornAssumption, MuscleAssumption
  <2>4. \A n \in 1..Len(next) : Len(next[n].parts) >= 1
    <3> SUFFICES ASSUME NEW n \in 1..Len(next) PROVE Len(next[n].parts) >= 1
      OBVIOUS
    <3>1. CASE n = Len(next)
      BY <2>1, <3>1, NumberOfParts
    <3>2. CASE n # Len(next)
      BY <1>3, <1>4, <3>2
    <3> QED
      BY <3>1, <3>2
  <2>5. \A n \in 1..Len(next) : Parses(next[n]) =>
          \/ n < Len(next) /\ n \in 1..Len(log) /\ next[n] = log[n]
          \/ n = Len(next) /\ n = Len(log) + 1 /\ next[n].parts[1] = id
    BY <1>3, <1>6, <2>1, <2>2
  <2>6. \A n \in 1..Len(log) : n \in 1..Len(next) /\ next[n] = log[n]
    BY <1>3, <1>6
  <2> QED
    BY <1>2, <1>3, <2>1, <2>2, <2>3, <2>4, <2>5, <2>6
<1> QED
  BY <1>3, <1>5, <1>6

(* What a trade does to the ends of the runs before it.                     *)
LEMMA CutOffNext ==
  ASSUME MuscleInv, NEW task \in tasks, step' = step + 1, executed' = Append(executed, Trade(task)),
         boots' = boots, cutRuns \subseteq cutRuns'
  PROVE  /\ Len(executed) \in Nat /\ Len(executed') = Len(executed) + 1
         /\ \A k \in 1..Len(executed) : executed'[k] = executed[k] /\ executed[k].id # task.id
         /\ executed'[Len(executed) + 1].id = task.id
         /\ \A k \in 1..Len(executed) : CutOff(k) => CutOff(k)'
         /\ run \in cutRuns' => \A k : k = Len(executed) + 1 => CutOff(k)'
<1> USE MuscleNumbers DEF MuscleInv
<1>1. /\ Len(executed') = Len(executed) + 1
      /\ \A k \in 1..Len(executed) : executed'[k] = executed[k]
      /\ executed'[Len(executed) + 1].id = task.id
      /\ executed'[Len(executed) + 1].run = run
  BY TradeTypes
<1>2. \A k \in 1..Len(executed) : executed[k].id # task.id
  BY TradedNext DEF Traded
<1>3. run \notin cutRuns
  BY DEF OnePlace, CutRunsOver
<1>4. run' = run /\ Len(executed) \in Nat
  BY DEF run
<1>5. ASSUME NEW k \in 1..Len(executed), CutOff(k) PROVE CutOff(k)'
  <2>1. executed[k].run # run /\ executed[k].run \in cutRuns'
    BY <1>3, <1>5 DEF CutOff
  <2>2. executed'[k + 1].run # executed'[k].run
    <3>1. CASE k = Len(executed)
      BY <1>1, <2>1, <3>1
    <3>2. CASE k # Len(executed)
      <4>1. k + 1 \in 1..Len(executed) /\ executed[k + 1].run # executed[k].run
        BY <1>5, <3>2 DEF CutOff
      <4> QED
        BY <1>1, <4>1
    <3> QED
      BY <3>1, <3>2
  <2> QED
    BY <1>1, <1>4, <2>1, <2>2 DEF CutOff
<1>6. run \in cutRuns' => \A k : k = Len(executed) + 1 => CutOff(k)'
  BY <1>1 DEF CutOff
<1> QED
  BY <1>1, <1>2, <1>3, <1>4, <1>5, <1>6

(* A trade and its record, whole or cut.                                    *)
LEMMA LogTraded ==
  ASSUME MuscleInv, LogInv, NEW task \in tasks, step' = step + 1,
         executed' = Append(executed, Trade(task)), boots' = boots, cutRuns \subseteq cutRuns',
         NEW part \in {task.id, Torn, Garbled}, NEW ended \in BOOLEAN, log' = Write(log, part, ended),
         (ended /\ part = task.id) \/ run \in cutRuns'
  PROVE  LogInv'
<1> USE DEF LogInv
<1>1. PICK n0 \in Nat : n0 = Len(executed)
  BY MuscleNumbers DEF MuscleInv
<1>2. /\ Len(executed') = n0 + 1
      /\ \A k \in 1..n0 : executed'[k] = executed[k] /\ executed[k].id # task.id
      /\ executed'[n0 + 1].id = task.id
      /\ \A k \in 1..n0 : CutOff(k) => CutOff(k)'
      /\ run \in cutRuns' => \A k : k = n0 + 1 => CutOff(k)'
  BY <1>1, CutOffNext
<1>3. task.id \in 1..MaxFrames
  BY MuscleNumbers DEF MuscleInv
<1>4. PICK len \in Nat : len = Len(log)
  BY DEF MuscleInv, LogTypes
<1>5. PICK len2 \in Nat : len2 = Len(log') /\ len2 > 0
  BY <1>3, LinesNext DEF MuscleInv
<1>6. /\ ended => log'[len2].ended
      /\ \A n \in 1..len2 : Len(log'[n].parts) >= 1
      /\ \A n \in 1..len2 : Parses(log'[n]) =>
           \/ n < len2 /\ n \in 1..len /\ log'[n] = log[n]
           \/ n = len2 /\ n = len + 1 /\ log'[n].parts[1] = task.id
      /\ \A n \in 1..len : n < len \/ log[n].ended => n \in 1..len2 /\ log'[n] = log[n]
      /\ len > 0 /\ ~log[len].ended => len2 = len
      /\ part = task.id /\ (len = 0 \/ log[len].ended) =>
           Parses(log'[len2]) /\ log'[len2].parts[1] = task.id
  BY <1>3, <1>4, <1>5, LinesNext DEF MuscleInv
\* A record in the new log is an old one of an old trade, or the new trade's.
<1>7. ASSUME NEW n \in 1..len2, NEW k \in 1..(n0 + 1), Records(n, k)'
      PROVE  \/ n < len2 /\ n \in 1..len /\ k \in 1..n0 /\ Records(n, k)
             \/ n = len2 /\ n = len + 1 /\ k = n0 + 1
  <2>1. Parses(log'[n]) /\ log'[n].parts[1] = executed'[k].id
    BY <1>7 DEF Records
  <2>2. CASE n < len2 /\ n \in 1..len /\ log'[n] = log[n]
    <3>1. PICK j \in 1..n0 : log[n].parts[1] = executed[j].id
      BY <1>1, <1>4, <2>1, <2>2 DEF LinesInOrder, Records
    <3>2. k # n0 + 1
      BY <1>2, <2>1, <2>2, <3>1
    <3>3. k \in 1..n0
      BY <3>2
    <3> QED
      BY <1>2, <2>1, <2>2, <3>3 DEF Records
  <2>3. CASE n = len2 /\ n = len + 1 /\ log'[n].parts[1] = task.id
    <3>1. ~(k \in 1..n0)
      BY <1>2, <2>1, <2>3
    <3>2. k = n0 + 1
      BY <3>1
    <3> QED
      BY <2>3, <3>2
  <2> QED
    BY <1>6, <2>1, <2>2, <2>3
\* An old record stays, unless its line was not ended.
<1>8. ASSUME NEW n \in 1..len, NEW k \in 1..n0, Records(n, k), n < len \/ log[n].ended
      PROVE  n \in 1..len2 /\ Records(n, k)'
  BY <1>2, <1>6, <1>8 DEF Records
<1>9. LinesInOrder'
  <2>1. ASSUME NEW n \in 1..len2, Parses(log'[n])
        PROVE  \E k \in 1..(n0 + 1) : Records(n, k)'
    <3>1. CASE n < len2 /\ n \in 1..len /\ log'[n] = log[n]
      <4>1. PICK k \in 1..n0 : Records(n, k)
        BY <1>1, <1>4, <2>1, <3>1 DEF LinesInOrder
      <4>2. Records(n, k)'
        BY <1>2, <2>1, <3>1, <4>1 DEF Records
      <4>3. k \in 1..(n0 + 1)
        OBVIOUS
      <4> QED
        BY <4>2, <4>3
    <3>2. CASE n = len2 /\ n = len + 1 /\ log'[n].parts[1] = task.id
      <4>1. PICK k \in 1..(n0 + 1) : k = n0 + 1
        OBVIOUS
      <4>2. Records(n, k)'
        BY <1>2, <2>1, <3>2, <4>1 DEF Records
      <4> QED
        BY <4>2
    <3> QED
      BY <1>6, <2>1, <3>1, <3>2
  <2>2. ASSUME NEW m \in 1..len2, NEW n \in 1..len2, NEW j \in 1..(n0 + 1), NEW k \in 1..(n0 + 1),
               m < n, Records(m, j)', Records(n, k)'
        PROVE  j < k
    <3>1. m \in 1..len /\ j \in 1..n0 /\ Records(m, j)
      BY <1>7, <2>2
    <3>2. CASE n \in 1..len /\ k \in 1..n0 /\ Records(n, k)
      BY <1>1, <1>4, <2>2, <3>1, <3>2 DEF LinesInOrder
    <3>3. CASE k = n0 + 1
      BY <3>1, <3>3
    <3> QED
      BY <1>7, <2>2, <3>2, <3>3
  <2> QED
    BY <1>2, <1>5, <1>6, <2>1, <2>2 DEF LinesInOrder
<1>10. OpenLine'
  <2> SUFFICES ASSUME ~log'[len2].ended
               PROVE  /\ \A k : k = n0 + 1 => CutOff(k)'
                      /\ \A n \in 1..(len2 - 1) : \A k : k = n0 + 1 => ~Records(n, k)'
                      /\ \A k \in 1..(n0 + 1) : \A n : n = len2 /\ Records(n, k)' => CutOff(k)'
    BY <1>2, <1>5 DEF OpenLine
  <2>1. \A k : k = n0 + 1 => CutOff(k)'
    BY <1>2, <1>6
  <2>2. ASSUME NEW n \in 1..(len2 - 1), NEW k, k = n0 + 1 PROVE ~Records(n, k)'
    <3>1. n \in 1..len2 /\ k \in 1..(n0 + 1) /\ n # len2 /\ ~(k \in 1..n0)
      BY <2>2
    <3> QED
      BY <1>7, <3>1
  <2>3. ASSUME NEW k \in 1..(n0 + 1), NEW n, n = len2, Records(n, k)' PROVE CutOff(k)'
    <3>1. n \in 1..len2 /\ ~(n < len2)
      BY <1>5, <2>3
    <3>2. k = n0 + 1
      BY <1>7, <2>3, <3>1
    <3> QED
      BY <2>1, <3>2
  <2> QED
    BY <2>1, <2>2, <2>3
<1>11. ASSUME NEW k \in 1..n0, ~InLog(k) PROVE ~InLog(k)'
  <2> SUFFICES ASSUME NEW n \in 1..len2, Records(n, k)' PROVE FALSE
    BY <1>5 DEF InLog
  <2>1. k \in 1..(n0 + 1) /\ k # n0 + 1
    OBVIOUS
  <2>2. n \in 1..len /\ Records(n, k)
    BY <1>7, <2>1
  <2> QED
    BY <1>4, <1>11, <2>2 DEF InLog
<1>12. TradesKept'
  <2> SUFFICES ASSUME NEW k \in 1..(n0 + 1)
               PROVE  \/ InLog(k)' \/ CutOff(k)'
                      \/ k > 1 /\ \A j : j = k - 1 => ~InLog(j)' /\ CutOff(j)'
    BY <1>2 DEF TradesKept
  <2>1. CASE k \in 1..n0
    <3>1. CASE InLog(k)
      <4>1. PICK n \in 1..len : Records(n, k)
        BY <1>4, <3>1 DEF InLog
      <4>2. CASE n < len \/ log[n].ended
        <5>1. n \in 1..len2 /\ Records(n, k)'
          BY <1>8, <2>1, <4>1, <4>2
        <5> QED
          BY <1>5, <5>1 DEF InLog
      <4>3. CASE ~(n < len \/ log[n].ended)
        <5>1. n = len /\ len > 0 /\ ~log[len].ended
          BY <4>3
        <5>2. CutOff(k)
          BY <1>1, <1>4, <2>1, <4>1, <5>1 DEF OpenLine
        <5> QED
          BY <1>2, <2>1, <5>2
      <4> QED
        BY <4>2, <4>3
    <3>2. CASE CutOff(k)
      BY <1>2, <2>1, <3>2
    <3>3. CASE k > 1 /\ ~InLog(k - 1) /\ CutOff(k - 1)
      <4>1. PICK j \in 1..n0 : j = k - 1
        BY <2>1, <3>3
      <4>2. ~InLog(j)' /\ CutOff(j)'
        BY <1>2, <1>11, <3>3, <4>1
      <4> QED
        BY <3>3, <4>1, <4>2
    <3> QED
      BY <1>1, <2>1, <3>1, <3>2, <3>3 DEF TradesKept
  <2>2. CASE k = n0 + 1
    <3>1. CASE run \in cutRuns'
      BY <1>2, <2>2, <3>1
    <3>2. CASE part = task.id /\ (len = 0 \/ log[len].ended)
      <4>1. len2 \in 1..len2
        BY <1>5
      <4>2. \A n : n = len2 => Records(n, k)'
        BY <1>2, <1>6, <2>2, <3>2 DEF Records
      <4> QED
        BY <1>5, <4>1, <4>2 DEF InLog
    <3>3. CASE len > 0 /\ ~log[len].ended
      <4>1. /\ n0 > 0 /\ CutOff(n0) /\ \A n \in 1..(len - 1) : ~Records(n, n0)
        BY <1>1, <1>4, <3>3 DEF OpenLine
      <4>2. PICK j \in 1..n0 : j = n0
        BY <4>1
      <4>3. CutOff(j)'
        BY <1>2, <4>1, <4>2
      <4>4. ~InLog(j)'
        <5> SUFFICES ASSUME NEW n \in 1..len2, Records(n, j)' PROVE FALSE
          BY <1>5 DEF InLog
        <5>1. j \in 1..(n0 + 1) /\ j # n0 + 1
          BY <4>2
        <5>2. n < len2 /\ n \in 1..len /\ Records(n, j)
          BY <1>7, <5>1
        <5>3. n = len
          BY <4>1, <4>2, <5>2
        <5> QED
          BY <1>6, <3>3, <5>2, <5>3
      <4> QED
        BY <2>2, <4>1, <4>2, <4>3, <4>4
    <3> QED
      BY <3>1, <3>2, <3>3
  <2> QED
    BY <2>1, <2>2
<1> QED
  BY <1>9, <1>10, <1>12

(* A trade that leaves nothing in the log.                                  *)
LEMMA LogLost ==
  ASSUME MuscleInv, LogInv, NEW task \in tasks, step' = step + 1,
         executed' = Append(executed, Trade(task)), boots' = boots, cutRuns \subseteq cutRuns', log' = log, run \in cutRuns'
  PROVE  LogInv'
<1> USE DEF LogInv
<1>1. PICK n0 \in Nat : n0 = Len(executed)
  BY MuscleNumbers DEF MuscleInv
<1>2. /\ Len(executed') = n0 + 1
      /\ \A k \in 1..n0 : executed'[k] = executed[k] /\ executed[k].id # task.id
      /\ executed'[n0 + 1].id = task.id
      /\ \A k \in 1..n0 : CutOff(k) => CutOff(k)'
      /\ \A k : k = n0 + 1 => CutOff(k)'
  BY <1>1, CutOffNext
<1>3. PICK len \in Nat : len = Len(log)
  BY DEF MuscleInv, LogTypes
<1>4. ASSUME NEW n \in 1..len, NEW k \in 1..n0 PROVE Records(n, k)' <=> Records(n, k)
  BY <1>2 DEF Records
<1>5. ASSUME NEW n \in 1..len, NEW k, k = n0 + 1 PROVE ~Records(n, k)'
  <2> SUFFICES ASSUME Records(n, k)' PROVE FALSE
    OBVIOUS
  <2>1. Parses(log[n]) /\ log[n].parts[1] = task.id
    BY <1>2, <1>5 DEF Records
  <2>2. PICK j \in 1..n0 : log[n].parts[1] = executed[j].id
    BY <1>1, <1>3, <2>1 DEF LinesInOrder, Records
  <2> QED
    BY <1>2, <2>1, <2>2
<1>6. ASSUME NEW k \in 1..(n0 + 1) PROVE k \in 1..n0 \/ k = n0 + 1
  OBVIOUS
<1>7. ASSUME NEW n \in 1..len, NEW k \in 1..(n0 + 1), Records(n, k)'
      PROVE  k \in 1..n0 /\ Records(n, k)
  BY <1>4, <1>5, <1>6, <1>7
<1>8. LinesInOrder'
  <2>1. ASSUME NEW n \in 1..len, Parses(log[n]) PROVE \E k \in 1..(n0 + 1) : Records(n, k)'
    <3>1. PICK k \in 1..n0 : Records(n, k)
      BY <1>1, <1>3, <2>1 DEF LinesInOrder
    <3>2. k \in 1..(n0 + 1)
      OBVIOUS
    <3> QED
      BY <1>4, <3>1, <3>2
  <2>2. ASSUME NEW m \in 1..len, NEW n \in 1..len, NEW j \in 1..(n0 + 1), NEW k \in 1..(n0 + 1),
               m < n, Records(m, j)', Records(n, k)'
        PROVE  j < k
    BY <1>1, <1>3, <1>7, <2>2 DEF LinesInOrder
  <2>3. \A n \in 1..len : Len(log[n].parts) >= 1
    BY <1>3 DEF LinesInOrder
  <2> QED
    BY <1>2, <1>3, <2>1, <2>2, <2>3 DEF LinesInOrder
<1>9. OpenLine'
  <2> SUFFICES ASSUME len > 0, ~log[len].ended
               PROVE  /\ \A n \in 1..(len - 1) : \A k : k = n0 + 1 => ~Records(n, k)'
                      /\ \A k \in 1..(n0 + 1) : \A n : n = len /\ Records(n, k)' => CutOff(k)'
    BY <1>2, <1>3 DEF OpenLine
  <2>1. ASSUME NEW k \in 1..(n0 + 1), NEW n, n = len, Records(n, k)' PROVE CutOff(k)'
    <3>1. n \in 1..len
      BY <2>1
    <3>2. k \in 1..n0 /\ Records(n, k)
      BY <1>7, <2>1, <3>1
    <3>3. CutOff(k)
      BY <1>1, <1>3, <2>1, <3>2 DEF OpenLine
    <3> QED
      BY <1>2, <3>2, <3>3
  <2> QED
    BY <1>5, <2>1
<1>10. ASSUME NEW k \in 1..n0 PROVE InLog(k)' <=> InLog(k)
  BY <1>3, <1>4 DEF InLog
<1>11. TradesKept'
  <2> SUFFICES ASSUME NEW k \in 1..(n0 + 1)
               PROVE  \/ InLog(k)' \/ CutOff(k)'
                      \/ k > 1 /\ \A j : j = k - 1 => ~InLog(j)' /\ CutOff(j)'
    BY <1>2 DEF TradesKept
  <2>1. CASE k \in 1..n0
    <3>1. CASE k > 1 /\ ~InLog(k - 1) /\ CutOff(k - 1)
      <4>1. PICK j \in 1..n0 : j = k - 1
        BY <2>1, <3>1
      <4> QED
        BY <1>2, <1>10, <3>1, <4>1
    <3> QED
      BY <1>1, <1>2, <1>10, <2>1, <3>1 DEF TradesKept
  <2> QED
    BY <1>2, <1>6, <2>1
<1> QED
  BY <1>8, <1>9, <1>11

(* A step without a trade: a run that was cut stays cut.                    *)
LEMMA LogKept ==
  ASSUME MuscleInv, LogInv, UNCHANGED <<executed, log>>,
         cutRuns \subseteq cutRuns'
  PROVE  LogInv'
<1> USE DEF LogInv
<1>1. \A k \in 1..Len(executed) : CutOff(k) => CutOff(k)'
  BY DEF CutOff
<1>2. PICK n0 \in Nat, len \in Nat : n0 = Len(executed) /\ len = Len(log)
  BY MuscleNumbers DEF MuscleInv, LogTypes
<1>3. (\A n, k : Records(n, k)' <=> Records(n, k)) /\ (\A k : InLog(k)' <=> InLog(k))
  BY DEF Records, InLog
<1>4. LinesInOrder'
  BY <1>3 DEF LinesInOrder
<1>5. OpenLine'
  <2> SUFFICES ASSUME len > 0, ~log[len].ended
               PROVE  /\ n0 > 0 /\ \A k : k = n0 => CutOff(k)'
                      /\ \A n \in 1..(len - 1) : ~Records(n, n0)
                      /\ \A k \in 1..n0 : Records(len, k) => CutOff(k)'
    BY <1>2, <1>3 DEF OpenLine
  <2> QED
    BY <1>1, <1>2 DEF OpenLine
<1>6. TradesKept'
  <2> SUFFICES ASSUME NEW k \in 1..n0
               PROVE  \/ InLog(k) \/ CutOff(k)'
                      \/ k > 1 /\ \A j : j = k - 1 => ~InLog(j) /\ CutOff(j)'
    BY <1>2, <1>3 DEF TradesKept
  <2>1. CASE k > 1 /\ ~InLog(k - 1) /\ CutOff(k - 1)
    <3>1. PICK j \in 1..n0 : j = k - 1
      BY <2>1
    <3> QED
      BY <1>1, <1>2, <2>1, <3>1
  <2> QED
    BY <1>1, <1>2, <2>1 DEF TradesKept
<1> QED
  BY <1>4, <1>5, <1>6

LEMMA StepLog == MuscleInv /\ LogInv /\ [Next]_vars => LogInv'
<1> SUFFICES ASSUME MuscleInv, LogInv, [Next]_vars PROVE LogInv'
  OBVIOUS
<1>1. ASSUME NEW task \in tasks, RunTask(task.id), ProcessSignal(task) PROVE LogInv'
  <2>1. UNCHANGED <<boots, cutRuns>>
    BY <1>1 DEF RunTask
  <2>2. CASE verdict'[task.id] = "Executed"
    <3>1. /\ step' = step + 1 /\ executed' = Append(executed, Trade(task))
          /\ log' = Write(log, task.id, TRUE)
      BY <1>1, <2>2 DEF ProcessSignal
    <3> QED
      BY <2>1, <3>1, LogTraded
  <2>3. CASE verdict'[task.id] # "Executed"
    <3>1. UNCHANGED <<executed, log>>
      BY <1>1, <2>3 DEF ProcessSignal
    <3> QED
      BY <2>1, <3>1, LogKept
  <2> QED
    BY <2>2, <2>3
<1>2. CASE KillInTrade
  <2>1. PICK task \in tasks : /\ step' = step + 1 /\ executed' = Append(executed, Trade(task))
                              /\ log' \in CutWrites(log, task.id)
    BY <1>2 DEF KillInTrade, CutTrade
  <2>2. boots' = boots /\ cutRuns' = cutRuns \cup {run}
    BY <1>2 DEF KillInTrade, Killed
  <2>3. CASE log' = log
    BY <2>1, <2>2, <2>3, LogLost
  <2>4. ASSUME NEW part \in {task.id, Torn, Garbled}, log' = Write(log, part, FALSE) PROVE LogInv'
    BY <2>1, <2>2, <2>4, LogTraded
  <2> QED
    BY <2>1, <2>3, <2>4 DEF CutWrites
<1>3. CASE Restart
  <2>1. UNCHANGED <<executed, log, cutRuns>>
    BY <1>3 DEF Restart
  <2> QED
    BY <2>1, LogKept
<1>4. ASSUME UNCHANGED <<engine, cutRuns>> PROVE LogInv'
  BY <1>4, LogKept DEF engine
<1>5. ASSUME NEW f \in Frames, Receive(f) PROVE UNCHANGED <<engine, cutRuns>>
  BY <1>5 DEF Receive
<1>6. ASSUME Kill \/ Idle \/ \E task \in tasks : Cancelled(task) PROVE UNCHANGED <<engine, cutRuns>>
  BY <1>6 DEF Kill, Killed, Idle, Cancelled
<1> QED
  BY <1>1, <1>2, <1>3, <1>4, <1>5, <1>6, NextStep DEF ReceiveSignal

LEMMA InitLog == Init => LogInv
<1> SUFFICES ASSUME Init PROVE LogInv
  OBVIOUS
<1>1. Len(executed) = 0 /\ Len(log) = 0
  BY DEF Init
<1>2. (\A k : ~(k \in 1..Len(executed))) /\ \A n : ~(n \in 1..Len(log))
  BY <1>1
<1> QED
  BY <1>1, <1>2 DEF LogInv, LinesInOrder, OpenLine, TradesKept

LEMMA LogInvariant == Spec => [](MuscleInv /\ LogInv)
<1> QED
  BY InitMuscle, InitLog, StepMuscle, StepLog, PTL DEF Spec

-----------------------------------------------------------------------------
(* The loop over a log's lines, as a table of what is loaded so far.        *)
IsLoading(t, lines, last) ==
  t = [k \in 0..last |-> IF k = 0 THEN <<>>
                         ELSE IF Parses(lines[k]) THEN Append(t[k - 1], lines[k].parts[1])
                         ELSE t[k - 1]]
Loading(lines) == CHOOSE t : IsLoading(t, lines, Len(lines))

LEMMA LoadIsLoading ==
  ASSUME NEW lines PROVE LoadGhostTrades(lines) = Loading(lines)[Len(lines)]
  BY DEF LoadGhostTrades, Loading, IsLoading

LEMMA LoadingExists ==
  ASSUME NEW lines, NEW last \in Nat
  PROVE  \E t : IsLoading(t, lines, last)
<1> DEFINE S == {n \in Nat : \E t : IsLoading(t, lines, n)}
<1>1. 0 \in S
  <2> DEFINE t == [k \in 0..0 |-> <<>>]
  <2>1. IsLoading(t, lines, 0)
    BY DEF IsLoading
  <2> QED
    BY <2>1
<1>2. ASSUME NEW n \in Nat, n \in S PROVE n + 1 \in S
  <2>1. PICK t : IsLoading(t, lines, n)
    BY <1>2
  <2>2. \A k \in 0..n : t[k] = IF k = 0 THEN <<>>
                               ELSE IF Parses(lines[k]) THEN Append(t[k - 1], lines[k].parts[1])
                               ELSE t[k - 1]
    BY <2>1 DEF IsLoading
  <2> DEFINE next == IF Parses(lines[n + 1]) THEN Append(t[n], lines[n + 1].parts[1]) ELSE t[n]
             u == [k \in 0..(n + 1) |-> IF k = n + 1 THEN next ELSE t[k]]
  <2>3. ASSUME NEW k \in 0..(n + 1)
        PROVE  u[k] = IF k = 0 THEN <<>>
                      ELSE IF Parses(lines[k]) THEN Append(u[k - 1], lines[k].parts[1])
                      ELSE u[k - 1]
    <3>1. CASE k = n + 1
      <4>1. u[k] = next /\ u[k - 1] = t[n] /\ k # 0
        BY <3>1
      <4> QED
        BY <3>1, <4>1
    <3>2. CASE k = 0
      BY <2>2, <3>2
    <3>3. CASE k # n + 1 /\ k # 0
      <4>1. k \in 0..n /\ u[k] = t[k] /\ u[k - 1] = t[k - 1]
        BY <3>3
      <4> QED
        BY <2>2, <3>3, <4>1
    <3> QED
      BY <3>1, <3>2, <3>3
  <2>4. u = [k \in 0..(n + 1) |-> u[k]]
    OBVIOUS
  <2> HIDE DEF u
  <2>5. IsLoading(u, lines, n + 1)
    BY <2>3, <2>4 DEF IsLoading
  <2> QED
    BY <2>5
<1> HIDE DEF S
<1>3. last \in S
  BY <1>1, <1>2, SetOfAllNaturals
<1> QED
  BY <1>3 DEF S

\* The first k lines are loaded: of each that parses its record, in order.
Places(R, lines, loaded, k, size, at) ==
  /\ loaded \in Seq(R) /\ size = Len(loaded) /\ at \in [1..size -> 1..k]
  /\ \A j \in 1..size : Parses(lines[at[j]]) /\ loaded[j] = lines[at[j]].parts[1]
  /\ \A i, j \in 1..size : i < j => at[i] < at[j]
  /\ \A n \in 1..k : Parses(lines[n]) => \E j \in 1..size : at[j] = n

(* What is loaded are the lines that parse, in their order.                 *)
LEMMA LoadedIs ==
  ASSUME NEW R, NEW lines, NEW last \in Nat, last = Len(lines),
         \A n \in 1..last : lines[n].parts \in Seq(R)
  PROVE  \E size \in Nat : \E at : Places(R, lines, LoadGhostTrades(lines), last, size, at)
<1>1. PICK t : t = Loading(lines)
  OBVIOUS
<1>2. IsLoading(t, lines, last)
  BY <1>1, LoadingExists DEF Loading
<1>3. \A k \in 0..last : t[k] = IF k = 0 THEN <<>>
                                ELSE IF Parses(lines[k]) THEN Append(t[k - 1], lines[k].parts[1])
                                ELSE t[k - 1]
  BY <1>2 DEF IsLoading
<1> DEFINE S == {k \in Nat : k <= last => \E size \in Nat : \E at : Places(R, lines, t[k], k, size, at)}
<1>4. 0 \in S
  <2>1. t[0] = <<>>
    BY <1>3
  <2> DEFINE at == [j \in 1..0 |-> 0]
  <2>2. Places(R, lines, t[0], 0, 0, at)
    BY <2>1 DEF Places
  <2> QED
    BY <2>2
<1>5. ASSUME NEW k \in Nat, k \in S PROVE k + 1 \in S
  <2> SUFFICES ASSUME k + 1 <= last
               PROVE  \E size \in Nat : \E at : Places(R, lines, t[k + 1], k + 1, size, at)
    OBVIOUS
  <2>1. k <= last /\ k + 1 \in 1..last /\ k + 1 \in 0..last /\ k + 1 # 0 /\ (k + 1) - 1 = k
    OBVIOUS
  <2>2a. PICK size \in Nat : \E at : Places(R, lines, t[k], k, size, at)
    BY <1>5, <2>1
  <2>2. PICK at : Places(R, lines, t[k], k, size, at)
    BY <2>2a
  <2>3. t[k + 1] = IF Parses(lines[k + 1]) THEN Append(t[k], lines[k + 1].parts[1]) ELSE t[k]
    BY <1>3, <2>1
  <2>4. CASE ~Parses(lines[k + 1])
    <3>1. t[k + 1] = t[k]
      BY <2>3, <2>4
    <3>2. \A n \in 1..(k + 1) : n \in 1..k \/ n = k + 1
      OBVIOUS
    <3>3. at \in [1..size -> 1..(k + 1)]
      BY <2>2 DEF Places
    <3>4. Places(R, lines, t[k + 1], k + 1, size, at)
      BY <2>2, <2>4, <3>1, <3>2, <3>3 DEF Places
    <3> QED
      BY <3>4
  <2>5. CASE Parses(lines[k + 1])
    <3>1. lines[k + 1].parts[1] \in R
      <4>1. PICK parts \in Seq(R) : parts = lines[k + 1].parts
        BY <2>1
      <4>2. Len(parts) = 1 /\ 1 \in 1..Len(parts)
        BY <2>5, <4>1 DEF Parses
      <4>3. parts[1] \in R
        BY <4>2, ElementOfSeq
      <4> QED
        BY <4>1, <4>3
    <3>2. PICK r \in R : r = lines[k + 1].parts[1]
      BY <3>1
    <3>3. t[k + 1] = Append(t[k], r)
      BY <2>3, <2>5, <3>2
    <3>4. /\ t[k + 1] \in Seq(R) /\ Len(t[k + 1]) = size + 1 /\ t[k + 1][size + 1] = r
          /\ \A j \in 1..size : t[k + 1][j] = t[k][j]
      BY <2>2, <3>3, AppendProperties DEF Places
    <3> DEFINE at2 == [j \in 1..(size + 1) |-> IF j = size + 1 THEN k + 1 ELSE at[j]]
    <3>5. \A j \in 1..size : at[j] \in 1..k
      BY <2>2 DEF Places
    <3>6. /\ at2 \in [1..(size + 1) -> 1..(k + 1)] /\ at2[size + 1] = k + 1
          /\ \A j \in 1..size : at2[j] = at[j]
      BY <3>5
    <3> HIDE DEF at2
    <3>7. \A j \in 1..(size + 1) : j \in 1..size \/ j = size + 1
      OBVIOUS
    <3>8. \A j \in 1..(size + 1) : Parses(lines[at2[j]]) /\ t[k + 1][j] = lines[at2[j]].parts[1]
      BY <2>2, <2>5, <3>2, <3>4, <3>6, <3>7 DEF Places
    <3>9. \A i, j \in 1..(size + 1) : i < j => at2[i] < at2[j]
      <4> SUFFICES ASSUME NEW i \in 1..(size + 1), NEW j \in 1..(size + 1), i < j
                   PROVE  at2[i] < at2[j]
        OBVIOUS
      <4>1. i \in 1..size
        OBVIOUS
      <4>2. CASE j \in 1..size
        BY <2>2, <3>6, <4>1, <4>2 DEF Places
      <4>3. CASE j = size + 1
        BY <3>5, <3>6, <4>1, <4>3
      <4> QED
        BY <3>7, <4>2, <4>3
    <3>10. \A n \in 1..(k + 1) : Parses(lines[n]) => \E j \in 1..(size + 1) : at2[j] = n
      <4> SUFFICES ASSUME NEW n \in 1..(k + 1), Parses(lines[n])
                   PROVE  \E j \in 1..(size + 1) : at2[j] = n
        OBVIOUS
      <4>1. CASE n = k + 1
        <5>1. size + 1 \in 1..(size + 1)
          OBVIOUS
        <5> QED
          BY <3>6, <4>1, <5>1
      <4>2. CASE n \in 1..k
        <5>1. PICK j \in 1..size : at[j] = n
          BY <2>2, <4>2 DEF Places
        <5>2. j \in 1..(size + 1) /\ at2[j] = n
          BY <3>6, <5>1
        <5> QED
          BY <5>2
      <4> QED
        BY <4>1, <4>2
    <3>11. Places(R, lines, t[k + 1], k + 1, size + 1, at2)
      BY <3>4, <3>6, <3>8, <3>9, <3>10 DEF Places
    <3>12. size + 1 \in Nat
      OBVIOUS
    <3> QED
      BY <3>11, <3>12
  <2> QED
    BY <2>4, <2>5
<1> HIDE DEF S
<1>6. last \in S
  BY <1>4, <1>5, SetOfAllNaturals
<1>7a. PICK size \in Nat : \E at : Places(R, lines, t[last], last, size, at)
  BY <1>6 DEF S
<1>7. PICK at : Places(R, lines, t[last], last, size, at)
  BY <1>7a
<1>8. LoadGhostTrades(lines) = t[last]
  BY <1>1, LoadIsLoading
<1> QED
  BY <1>7, <1>8

(* The log that train_ghost loads (load_ghost_trades, train_ghost.rs:121)   *)
(* holds the trades of every run, each once and in order, but for the one   *)
(* a run was killed over and the next one after it.                         *)
THEOREM TheLogKeepsTrades == Spec => []LogKeepsTrades
<1>1. ASSUME MuscleInv, LogInv PROVE LogKeepsTrades
  <2> USE <1>1
  <2>1. PICK n0 \in Nat, len \in Nat : n0 = Len(executed) /\ len = Len(log)
    BY MuscleNumbers DEF MuscleInv, LogTypes
  <2>2. ASSUME NEW n \in 1..len PROVE log[n].parts \in Seq(Parts)
    <3>1. log[n] \in Lines
      BY <2>1, ElementOfSeq DEF MuscleInv, LogTypes
    <3> QED
      BY <3>1 DEF Lines
  <2>3. PICK loaded : loaded = LoadGhostTrades(log)
    OBVIOUS
  <2>4a. PICK size \in Nat : \E at : Places(Parts, log, loaded, len, size, at)
    BY <2>1, <2>2, <2>3, LoadedIs
  <2>4. PICK at : Places(Parts, log, loaded, len, size, at)
    BY <2>4a
  <2>5. /\ at \in [1..size -> 1..len] /\ size = Len(loaded)
        /\ \A j \in 1..size : Parses(log[at[j]]) /\ loaded[j] = log[at[j]].parts[1]
        /\ \A i, j \in 1..size : i < j => at[i] < at[j]
        /\ \A n \in 1..len : Parses(log[n]) => \E j \in 1..size : at[j] = n
    BY <2>4 DEF Places
  <2>6. \A j \in 1..size : /\ at[j] \in 1..len
                           /\ \A k : executed[k].id = loaded[j] <=> Records(at[j], k)
    BY <2>5 DEF Records
  <2> DEFINE place == [j \in 1..size |-> CHOOSE k \in 1..n0 : executed[k].id = loaded[j]]
  <2>7. ASSUME NEW j \in 1..size PROVE \E k \in 1..n0 : executed[k].id = loaded[j]
    BY <2>1, <2>5, <2>6 DEF LogInv, LinesInOrder
  <2>8. /\ place \in [1..size -> 1..n0]
        /\ \A j \in 1..size : place[j] \in 1..n0 /\ executed[place[j]].id = loaded[j]
    BY <2>7
  <2> HIDE DEF place
  <2>9. \A i, j \in 1..size : i < j => place[i] < place[j]
    <3> SUFFICES ASSUME NEW i \in 1..size, NEW j \in 1..size, i < j PROVE place[i] < place[j]
      OBVIOUS
    <3>1. at[i] < at[j] /\ at[i] \in 1..len /\ at[j] \in 1..len
      BY <2>5, <2>6
    <3>2. place[i] \in 1..n0 /\ place[j] \in 1..n0
      BY <2>8
    <3>3. Records(at[i], place[i]) /\ Records(at[j], place[j])
      BY <2>6, <2>8
    <3> QED
      BY <2>1, <3>1, <3>2, <3>3 DEF LogInv, LinesInOrder
  <2>10. ASSUME NEW k PROVE InLog(k) <=> \E j \in 1..size : loaded[j] = executed[k].id
    <3>1. ASSUME NEW n \in 1..len, Records(n, k)
          PROVE  \E j \in 1..size : loaded[j] = executed[k].id
      <4>1. PICK j \in 1..size : at[j] = n
        BY <2>5, <3>1 DEF Records
      <4> QED
        BY <2>6, <3>1, <4>1
    <3>2. ASSUME NEW j \in 1..size, loaded[j] = executed[k].id PROVE InLog(k)
      <4>1. at[j] \in 1..len /\ Records(at[j], k)
        BY <2>6, <3>2
      <4> QED
        BY <2>1, <4>1 DEF InLog
    <3> QED
      BY <2>1, <3>1, <3>2 DEF InLog
  <2>11. \A k \in 1..n0 : InLog(k) \/ CutOff(k) \/ (k > 1 /\ ~InLog(k - 1) /\ CutOff(k - 1))
    BY <2>1 DEF LogInv, TradesKept
  <2>12. \E to \in [1..size -> 1..n0] : /\ \A j \in 1..size : executed[to[j]].id = loaded[j]
                                        /\ \A i, j \in 1..size : i < j => to[i] < to[j]
    BY <2>8, <2>9
  <2> DEFINE Kept(k) == \E j \in 1..size : loaded[j] = executed[k].id
  <2>13. ASSUME NEW k \in 1..n0 PROVE Kept(k) \/ CutOff(k) \/ (k > 1 /\ ~Kept(k - 1) /\ CutOff(k - 1))
    BY <2>10, <2>11
  <2>14. /\ \E to \in [1..Len(loaded) -> 1..Len(executed)] :
              /\ \A j \in 1..Len(loaded) : executed[to[j]].id = loaded[j]
              /\ \A i, j \in 1..Len(loaded) : i < j => to[i] < to[j]
         /\ \A k \in 1..Len(executed) :
              LET kept(i) == \E j \in 1..Len(loaded) : loaded[j] = executed[i].id
              IN kept(k) \/ CutOff(k) \/ (k > 1 /\ ~kept(k - 1) /\ CutOff(k - 1))
    BY <2>1, <2>5, <2>12, <2>13
  <2> QED
    BY <2>3, <2>14, Zenon DEF LogKeepsTrades, CutOff
<1> QED
  BY <1>1, LogInvariant, PTL
===============================================================================
