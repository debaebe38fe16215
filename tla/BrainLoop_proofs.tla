--------------------------- MODULE BrainLoop_proofs ---------------------------
(***************************************************************************)
(* Proofs about the brain's loop and its vault, for any number of lobes,   *)
(* queue and batch sizes, pulses and runs.  VaultInv says what the buffers *)
(* hold against the tables at each statement of a flush; it holds of the   *)
(* vault alone, and so of the loop, which drives the vault only as         *)
(* VaultRecorder allows.  BrainInv adds the loop's counters and which      *)
(* pulse each tick stands for.                                             *)
(***************************************************************************)
EXTENDS BrainLoop, SequenceTheorems, TLAPS

Ticks == 1..MaxPulses
Runs == 1..MaxRuns
Pulses == 1..MaxPulses

NoRow == [run |-> 0]
Rows == [run : Runs, pulse : Pulses]
Buffered == [tick : Ticks, pulse : Pulses]

FlushPcs == {"flush", "insertMarket", "emptyMarket", "insertSpikes", "emptySpikes"}

VaultTypeOK ==
  /\ vaultPc \in {"idle", "counted", "pushed", "closed", "dead"} \cup FlushPcs
  /\ closing \in BOOLEAN
  /\ run \in Runs
  /\ vaultTick \in 0..MaxPulses
  /\ marketBuffer \in Seq(Buffered)
  /\ spikeBuffer \in Seq(Ticks)
  /\ marketEvents \in [Ticks -> Rows \cup {NoRow}]
  /\ spikeEvents \in [Runs \X Ticks -> Nat]
  /\ spiked \in SUBSET (Runs \X Ticks)

\* Where the statements of a flush find the buffers.
VaultPcs ==
  /\ closing => vaultPc \in FlushPcs \cup {"closed", "dead"}
  /\ vaultPc = "closed" => closing
  /\ vaultPc \in {"pushed", "insertMarket", "emptyMarket"} => marketBuffer # <<>>
  /\ vaultPc \in {"insertSpikes", "emptySpikes"} => marketBuffer = <<>>
  /\ vaultPc \in {"counted", "pushed"} => vaultTick > 0

Running == ~closing /\ vaultPc # "dead"

\* The rows pushed by a run in its loop.
Pushed == IF vaultPc = "counted" THEN vaultTick - 1 ELSE vaultTick

\* The tables hold the first k ticks of run r and no other, with their spikes.
RowsOf(k, r) ==
  \A t \in Ticks : IF t <= k THEN marketEvents[t].run = r ELSE marketEvents[t] = NoRow
SpikesOf(k, r) ==
  \A rt \in Runs \X Ticks :
    spikeEvents[rt] > 0 => spikeEvents[rt] = 1 /\ rt[1] = r /\ rt[2] <= k

BufferFrom(k) == \A i \in 1..Len(marketBuffer) : marketBuffer[i].tick = k + i
SpikesUpTo(k) == \A i \in 1..Len(spikeBuffer) : spikeBuffer[i] <= k

\* The tables are an earlier run's: the p rows of this one begin with tick 1, which is taken.
Foreign(p) == /\ BufferFrom(0)
              /\ Len(marketBuffer) = p
              /\ vaultPc \notin {"emptyMarket", "insertSpikes", "emptySpikes"}

\* The buffer holds what follows the k rows in the table ...
Unsaved(k, p) == /\ BufferFrom(k)
                 /\ k + Len(marketBuffer) = p
                 /\ vaultPc # "emptyMarket"
                 /\ SpikesUpTo(p)

\* ... or, from an INSERT to the emptying of the buffer and for ever if an
\* interrupt falls between the two, rows that are in the table.
Saved(k, p) == /\ k = p
               /\ marketBuffer # <<>>
               /\ \A i \in 1..Len(marketBuffer) : marketBuffer[i].tick <= k
               /\ Running => vaultPc = "emptyMarket"
               /\ vaultPc \notin {"insertSpikes", "emptySpikes"}
               /\ SpikesUpTo(k)

\* The buffered spikes are in no table, or they are and no flush will reach them.
SpikesFresh ==
  \/ \A i \in 1..Len(spikeBuffer) : spikeEvents[<<run, spikeBuffer[i]>>] = 0
  \/ vaultPc = "emptySpikes"
  \/ marketBuffer = <<>> /\ ~Running /\ vaultPc \in {"flush", "closed", "dead"}

\* k rows of run r are in the table, and p rows were pushed by this run.
Shape(k, r, p) ==
  /\ RowsOf(k, r)
  /\ SpikesOf(k, r)
  /\ \/ r < run /\ k > 0 /\ Foreign(p)
     \/ r = run /\ Unsaved(k, p)
     \/ r = run /\ Saved(k, p)
  /\ Running => p = Pushed
  /\ p \in 0..vaultTick

VaultShape == \E k \in 0..MaxPulses, r \in Runs, p \in 0..MaxPulses : Shape(k, r, p)

VaultInv == VaultTypeOK /\ VaultPcs /\ SpikesFresh /\ VaultShape

-----------------------------------------------------------------------------
\* The loop and the muscle.
Handled == accepted[run]
Stream == received \o outbox
Messages == [run : Runs, tick : Nat, pulse : 0..MaxPulses]

LoopTypeOK ==
  /\ sent \in 0..MaxPulses
  /\ invalid \in SUBSET (1..sent)
  /\ inbox \in Seq(Pulses)
  /\ pc \in Statements \cup {"finally", "ended", "thrown", "killed"}
  /\ current \in 0..MaxPulses
  /\ lobe \in Lobe
  /\ tick \in Nat /\ features \in Nat /\ neroTick \in Nat /\ mcTick \in Nat
  /\ lobeTick \in [Lobe -> Nat]
  /\ accepted \in [Runs -> Seq(Pulses)]
  /\ outbox \in Seq(Messages)
  /\ received \in Seq(Messages)

\* Which statements of the vault each statement of the loop may run in.
LoopAndVault ==
  /\ pc \in Statements => ~closing /\ vaultPc \notin {"closed", "dead"}
  /\ pc \in Statements \ {"record"} => vaultPc = "idle"
  /\ pc = "finally" => closing /\ vaultPc # "dead"
  /\ pc = "ended" => vaultPc = "closed"
  /\ pc \in {"thrown", "killed"} => vaultPc = "dead"

\* Each counter has seen the pulse in hand once its own statement is past.
Less(late) == IF pc \in late THEN Len(Handled) - 1 ELSE Len(Handled)
Counters ==
  pc \in Statements =>
    /\ tick = Len(Handled)
    /\ features = Less({"features"})
    /\ \A l \in Lobe :
         lobeTick[l] = IF l < lobe THEN Less({"features"}) ELSE Less({"features", "step"})
    /\ vaultTick = IF pc = "record" /\ vaultPc # "idle" THEN Len(Handled)
                   ELSE Less({"features", "step", "record"})
    /\ neroTick = Less(Statements \ {"recv", "publish"})
    /\ mcTick = IF McPaths THEN Less(Statements \ {"recv", "route", "publish"}) \div McEvery
                ELSE 0
    /\ pc # "recv" => Len(Handled) > 0 /\ current = Handled[Len(Handled)]

\* The pulses on the wire are those after the ones handled.
PulsesInOrder ==
  /\ \A i \in 1..Len(Handled) : Handled[i] <= sent /\ Handled[i] \notin invalid
  /\ \A i, j \in 1..Len(Handled) : i < j => Handled[i] < Handled[j]
  /\ \A i \in 1..Len(inbox) : inbox[i] <= sent
  /\ \A i, j \in 1..Len(inbox) : i < j => inbox[i] < inbox[j]
  /\ \A i \in 1..Len(Handled), j \in 1..Len(inbox) : Handled[i] < inbox[j]
  /\ ~Up => inbox = <<>>

\* Fewer are handled than were sent, and none by a run to come.
HandledBound ==
  /\ Len(Handled) + Len(inbox) <= sent
  /\ \A r \in Runs : Len(accepted[r]) <= sent
  /\ \A r \in Runs : r > run => accepted[r] = <<>>
  /\ vaultTick <= Len(Handled)

\* Tick t of run r was about pulse p, wherever it is written.
Joins(r, t, p) == t \in 1..Len(accepted[r]) /\ accepted[r][t] = p
RowsJoin ==
  /\ \A t \in Ticks : marketEvents[t] # NoRow =>
       Joins(marketEvents[t].run, t, marketEvents[t].pulse)
  /\ \A i \in 1..Len(marketBuffer) : Joins(run, marketBuffer[i].tick, marketBuffer[i].pulse)
StreamJoins ==
  \A k \in 1..Len(Stream) :
    Stream[k].run <= run /\ Joins(Stream[k].run, Stream[k].tick, Stream[k].pulse)

\* The stream of readouts rises, up to the pulse in hand.
StreamInOrder ==
  /\ \A j, k \in 1..Len(Stream) : j < k => Before(Stream[j], Stream[k])
  /\ pc \in Statements \ {"recv"} =>
       \A k \in 1..Len(Stream) : Stream[k].run = run => Stream[k].tick < Len(Handled)

\* Until the process dies, a row pushed by this run is buffered or in the table, ...
Interrupted == IF closing THEN cut ELSE vaultPc
Kept(t) == \/ \E i \in 1..Len(marketBuffer) : marketBuffer[i].tick = t
           \/ marketEvents[t].run = run
RowsKept ==
  vaultPc # "dead" =>
    /\ \A t \in 1..vaultTick : Kept(t) \/ (t = vaultTick /\ Interrupted = "counted")
    /\ vaultPc = "closed" => marketBuffer = <<>>

\* ... and so are the spikes; those left after the rows went in wait for an INSERT
\* of their own, which only an interrupt right before it takes from them.
SpikesStored == \A i \in 1..Len(spikeBuffer) : spikeEvents[<<run, spikeBuffer[i]>>] > 0
SpikesKept ==
  /\ \A rt \in spiked : rt[1] <= run
  /\ vaultPc # "dead" =>
       /\ \A rt \in spiked : rt[1] = run =>
            (\E i \in 1..Len(spikeBuffer) : spikeBuffer[i] = rt[2]) \/ spikeEvents[rt] > 0
       /\ vaultPc = "emptySpikes" => SpikesStored
       /\ marketBuffer = <<>> /\ spikeBuffer # <<>> =>
            \/ vaultPc \in {"insertSpikes", "emptySpikes"}
            \/ closing /\ (cut = "insertSpikes" \/ SpikesStored)

-----------------------------------------------------------------------------
LEMMA VaultFacts == /\ BatchSize \in Nat \ {0} /\ MaxPulses \in Nat /\ MaxRuns \in Nat \ {0}
                    /\ Vault!Ticks = Ticks /\ Vault!Runs = Runs /\ Vault!NoRow = NoRow
                    /\ NoRow \notin Rows
  BY VaultAssumption
  DEF Vault!VaultConstants, Vault!Ticks, Vault!Runs, Vault!NoRow, Ticks, Runs, NoRow, Rows

(* A new vault: empty tables and buffers. *)
LEMMA InitVault == Vault!Init => VaultInv
<1> SUFFICES ASSUME Vault!Init PROVE VaultInv
  OBVIOUS
<1> USE VaultFacts DEF Vault!Init, Ticks, Runs
<1>1. VaultTypeOK
  <2>1. marketEvents = [t \in Ticks |-> NoRow] /\ spikeEvents = [rt \in Runs \X Ticks |-> 0]
    BY Zenon
  <2>2. /\ marketEvents \in [Ticks -> Rows \cup {NoRow}]
        /\ spikeEvents \in [Runs \X Ticks -> Nat]
    BY <2>1
  <2>3. 1 \in Runs /\ 0 \in 0..MaxPulses /\ spiked \in SUBSET (Runs \X Ticks)
    OBVIOUS
  <2>4. marketBuffer \in Seq(Buffered) /\ spikeBuffer \in Seq(Ticks)
    OBVIOUS
  <2> QED
    BY <2>2, <2>3, <2>4, Zenon DEF VaultTypeOK
<1>2. VaultPcs /\ SpikesFresh
  BY DEF VaultPcs, SpikesFresh
<1>3. Shape(0, 1, 0)
  BY DEF Shape, RowsOf, SpikesOf, Unsaved, BufferFrom, SpikesUpTo, Running, Pushed
<1> QED
  BY <1>1, <1>2, <1>3 DEF VaultInv, VaultShape

LEMMA BufferedRow ==
  ASSUME VaultTypeOK, NEW i \in 1..Len(marketBuffer)
  PROVE  /\ marketBuffer[i] \in Buffered
         /\ marketBuffer[i].tick \in Ticks
         /\ marketBuffer[i].pulse \in Pulses
<1>1. marketBuffer[i] \in Buffered
  BY ElementOfSeq DEF VaultTypeOK
<1> QED
  BY <1>1 DEF Buffered

LEMMA VaultNumbers ==
  ASSUME VaultTypeOK
  PROVE  /\ Len(marketBuffer) \in Nat /\ Len(spikeBuffer) \in Nat
         /\ marketBuffer # <<>> <=> Len(marketBuffer) > 0
         /\ vaultTick \in Nat /\ vaultTick <= MaxPulses
         /\ run \in Nat /\ run > 0 /\ run <= MaxRuns
         /\ \A i \in 1..Len(marketBuffer) : marketBuffer[i].tick \in Ticks
         /\ \A i \in 1..Len(spikeBuffer) : spikeBuffer[i] \in Ticks
         /\ \A q \in Runs, t \in Ticks : spikeEvents[<<q, t>>] \in Nat
<1>1. \A i \in 1..Len(marketBuffer) : marketBuffer[i].tick \in Ticks
  BY BufferedRow
<1>2. \A i \in 1..Len(spikeBuffer) : spikeBuffer[i] \in Ticks
  BY ElementOfSeq DEF VaultTypeOK
<1>3. \A q \in Runs, t \in Ticks : spikeEvents[<<q, t>>] \in Nat
  BY DEF VaultTypeOK
<1> QED
  BY <1>1, <1>2, <1>3, VaultFacts DEF VaultTypeOK, Runs

(* The rows an INSERT writes are those of the buffer. *)
LEMMA InsertedRows ==
  ASSUME VaultTypeOK, Vault!InsertMarket, NEW t \in Ticks
  PROVE  IF \E i \in 1..Len(marketBuffer) : marketBuffer[i].tick = t
           THEN \E i \in 1..Len(marketBuffer) :
                  /\ marketBuffer[i].tick = t
                  /\ marketEvents'[t] = [run |-> run, pulse |-> marketBuffer[i].pulse]
           ELSE marketEvents'[t] = marketEvents[t]
<1> DEFINE rows == {marketBuffer[k] : k \in 1..Len(marketBuffer)}
           row == CHOOSE x \in rows : x.tick = t
<1>1. marketEvents'[t] = IF \E x \in rows : x.tick = t
                           THEN [run |-> run, pulse |-> row.pulse] ELSE marketEvents[t]
  BY VaultFacts DEF Vault!InsertMarket
<1>2. CASE \E x \in rows : x.tick = t
  <2>1. row \in rows /\ row.tick = t
    BY <1>2
  <2>2. PICK i \in 1..Len(marketBuffer) : row = marketBuffer[i]
    BY <2>1
  <2> HIDE DEF row, rows
  <2> QED
    BY <1>1, <1>2, <2>1, <2>2
<1>3. CASE ~ \E x \in rows : x.tick = t
  BY <1>1, <1>3
<1> QED
  BY <1>2, <1>3

(* The types and the places of a flush, at every step of the vault. *)
LEMMA TypeVault ==
  ASSUME VaultTypeOK, VaultPcs, [Vault!Next]_vault
  PROVE  VaultTypeOK' /\ VaultPcs'
<1> USE VaultFacts DEF VaultTypeOK, VaultPcs, FlushPcs, Vault!buffers, Vault!tables
<1>1. CASE Vault!CountTick
  BY <1>1 DEF Vault!CountTick
<1>2. ASSUME NEW pulse \in Pulses, Vault!PushMarket(pulse) PROVE VaultTypeOK' /\ VaultPcs'
  <2>1. [tick |-> vaultTick, pulse |-> pulse] \in Buffered
    BY <1>2 DEF Vault!PushMarket, Buffered, Ticks
  <2>2. marketBuffer' \in Seq(Buffered) /\ marketBuffer' # <<>>
    BY <1>2, <2>1, AppendProperties DEF Vault!PushMarket
  <2>3. VaultPcs'
    BY <1>2, <2>2 DEF Vault!PushMarket
  <2> QED
    BY <1>2, <2>2, <2>3 DEF Vault!PushMarket
<1>3. CASE Vault!RecordSpikes
  <2>1. vaultTick \in Ticks /\ run \in Runs
    BY <1>3 DEF Vault!RecordSpikes, Ticks
  <2>2. spikeBuffer' \in Seq(Ticks)
    <3>1. Append(spikeBuffer, vaultTick) \in Seq(Ticks)
      BY <2>1, AppendProperties
    <3>2. spikeBuffer' \in {spikeBuffer, Append(spikeBuffer, vaultTick)}
      BY <1>3 DEF Vault!RecordSpikes
    <3> QED
      BY <3>1, <3>2
  <2>3. spiked' \in SUBSET (Runs \X Ticks)
    BY <1>3, <2>1 DEF Vault!RecordSpikes
  <2> QED
    BY <1>3, <2>2, <2>3 DEF Vault!RecordSpikes
<1>4. CASE Vault!BeginFlush
  BY <1>4 DEF Vault!BeginFlush, Vault!FlushReturns
<1>5. CASE Vault!InsertMarket
  <2>1. DOMAIN marketEvents' = Ticks
    BY <1>5 DEF Vault!InsertMarket
  <2>2. ASSUME NEW t \in Ticks PROVE marketEvents'[t] \in Rows \cup {NoRow}
    <3>1. \/ \E pulse \in Pulses : marketEvents'[t] = [run |-> run, pulse |-> pulse]
          \/ marketEvents'[t] = marketEvents[t]
      BY <1>5, BufferedRow, InsertedRows, Zenon
    <3>2. run \in Runs /\ marketEvents[t] \in Rows \cup {NoRow}
      OBVIOUS
    <3>3. \A pulse \in Pulses : [run |-> run, pulse |-> pulse] \in Rows
      BY <3>2 DEF Rows
    <3> QED
      BY <3>1, <3>2, <3>3, Zenon
  <2>3. marketEvents' \in [Ticks -> Rows \cup {NoRow}]
    <3>1. marketEvents' = [t \in Ticks |-> marketEvents'[t]]
      BY <1>5, <2>1 DEF Vault!InsertMarket
    <3> QED
      BY <2>2, <3>1
  <2> QED
    BY <1>5, <2>3 DEF Vault!InsertMarket
<1>6. CASE Vault!EmptyMarket
  BY <1>6 DEF Vault!EmptyMarket, Vault!FlushReturns
<1>7. CASE Vault!InsertSpikes
  BY <1>7 DEF Vault!InsertSpikes
<1>8. CASE Vault!EmptySpikes
  BY <1>8 DEF Vault!EmptySpikes, Vault!FlushReturns
<1>9. CASE Vault!Fails
  BY <1>9 DEF Vault!Fails, Vault!Raise
<1>10. CASE Vault!Crash
  BY <1>10 DEF Vault!Crash
<1>11. CASE Vault!Restart
  <2>1. run' \in Runs
    BY <1>11 DEF Vault!Restart, Runs
  <2>2. marketBuffer' \in Seq(Buffered) /\ spikeBuffer' \in Seq(Ticks)
    BY <1>11 DEF Vault!Restart, Vault!Open
  <2>3. closing' = FALSE /\ vaultTick' = 0 /\ vaultPc' = "idle"
    BY <1>11 DEF Vault!Restart, Vault!Open
  <2>4. VaultTypeOK'
    <3>1. UNCHANGED <<marketEvents, spikeEvents, spiked>>
      BY <1>11 DEF Vault!Restart
    <3>2. vaultTick' \in 0..MaxPulses
      BY <2>3
    <3> QED
      BY <2>1, <2>2, <2>3, <3>1, <3>2
  <2>5. VaultPcs'
    BY <2>3
  <2> QED
    BY <2>4, <2>5
<1>12. CASE UNCHANGED vault
  BY <1>12 DEF vault
<1> QED
  BY <1>1, <1>2, <1>3, <1>4, <1>5, <1>6, <1>7, <1>8, <1>9, <1>10, <1>11, <1>12
  DEF Vault!Next, Vault!Flush, Pulses

(* Recording a tick: what is buffered goes on where the table ends.        *)
LEMMA RecordShape ==
  ASSUME VaultInv, VaultTypeOK', VaultPcs',
         \/ Vault!CountTick
         \/ \E pulse \in Pulses : Vault!PushMarket(pulse)
         \/ Vault!RecordSpikes
  PROVE  SpikesFresh' /\ VaultShape'
<1> USE VaultFacts DEF VaultInv
<1>1. PICK k \in 0..MaxPulses, r \in Runs, p \in 0..MaxPulses : Shape(k, r, p)
  BY DEF VaultShape
<1>2. /\ vaultPc \in {"idle", "counted", "pushed"} /\ ~closing /\ closing' = closing
      /\ UNCHANGED <<run, marketEvents, spikeEvents>>
  BY DEF Vault!CountTick, Vault!PushMarket, Vault!RecordSpikes, VaultPcs, FlushPcs, Vault!tables
<1>3. RowsOf(k, r)' /\ SpikesOf(k, r)'
  BY <1>1, <1>2 DEF Shape, RowsOf, SpikesOf
<1>4. ~Saved(k, p) /\ p = Pushed /\ r \in 1..run
  BY <1>1, <1>2 DEF Shape, Saved, Running, Runs, VaultTypeOK
<1>5. \A i \in 1..Len(spikeBuffer) : spikeEvents[<<run, spikeBuffer[i]>>] = 0
  BY <1>2 DEF SpikesFresh, Running
<1>6. CASE Vault!CountTick
  <2>1. Shape(k, r, p)'
    BY <1>1, <1>3, <1>4, <1>6
    DEF Vault!CountTick, Vault!buffers, Shape, Foreign, Unsaved, BufferFrom, SpikesUpTo,
        Running, Pushed, VaultTypeOK
  <2>2. SpikesFresh'
    BY <1>5, <1>6 DEF Vault!CountTick, Vault!buffers, Vault!tables, SpikesFresh
  <2> QED
    BY <2>1, <2>2 DEF VaultShape
<1>7. ASSUME NEW pulse \in Pulses, Vault!PushMarket(pulse) PROVE SpikesFresh' /\ VaultShape'
  <2>1. /\ Len(marketBuffer') = Len(marketBuffer) + 1
        /\ \A i \in 1..Len(marketBuffer) : marketBuffer'[i] = marketBuffer[i]
        /\ marketBuffer'[Len(marketBuffer) + 1].tick = vaultTick
    BY <1>7 DEF Vault!PushMarket, VaultTypeOK
  <2>2. p + 1 = vaultTick /\ p + 1 \in 0..MaxPulses /\ Pushed' = p + 1
    BY <1>4, <1>7 DEF Vault!PushMarket, Pushed, VaultTypeOK
  <2>3. CASE r < run /\ k > 0 /\ Foreign(p)
    <3>1. Foreign(p + 1)'
      BY <1>7, <2>1, <2>2, <2>3, VaultNumbers DEF Vault!PushMarket, Foreign, BufferFrom
    <3>2. Shape(k, r, p + 1)'
      BY <1>2, <1>3, <1>7, <2>2, <2>3, <3>1 DEF Vault!PushMarket, Shape, VaultTypeOK
    <3> QED
      BY <2>2, <3>2, <1>5, <1>7 DEF VaultShape, Vault!PushMarket, Vault!tables, SpikesFresh
  <2>4. CASE r = run /\ Unsaved(k, p)
    <3>1. Unsaved(k, p + 1)'
      <4>1. BufferFrom(k)'
        <5> SUFFICES ASSUME NEW i \in 1..Len(marketBuffer') PROVE marketBuffer'[i].tick = k + i
          BY DEF BufferFrom
        <5>1. CASE i = Len(marketBuffer) + 1
          BY <2>1, <2>2, <2>4, <5>1, VaultNumbers DEF Unsaved
        <5>2. CASE i \in 1..Len(marketBuffer)
          BY <2>1, <2>4, <5>2 DEF Unsaved, BufferFrom
        <5> QED
          BY <2>1, <5>1, <5>2, VaultNumbers
      <4>2. SpikesUpTo(p + 1)'
        BY <1>7, <2>4, VaultNumbers DEF Vault!PushMarket, Unsaved, SpikesUpTo, Ticks
      <4> QED
        BY <1>7, <2>1, <2>4, <4>1, <4>2 DEF Vault!PushMarket, Unsaved, VaultTypeOK
    <3>2. Shape(k, r, p + 1)'
      BY <1>2, <1>3, <1>7, <2>2, <2>4, <3>1 DEF Vault!PushMarket, Shape, VaultTypeOK
    <3> QED
      BY <2>2, <3>2, <1>5, <1>7 DEF VaultShape, Vault!PushMarket, Vault!tables, SpikesFresh
  <2> QED
    BY <1>1, <1>4, <2>3, <2>4 DEF Shape
<1>8. CASE Vault!RecordSpikes
  <2>1. p = vaultTick /\ vaultTick > 0 /\ marketBuffer # <<>> /\ vaultTick \in Ticks
    BY <1>4, <1>8 DEF Vault!RecordSpikes, Pushed, VaultPcs, VaultTypeOK, Ticks
  <2>2. spikeEvents[<<run, vaultTick>>] = 0
    <3>1. r < run \/ k < vaultTick
      <4>1. Len(marketBuffer) > 0
        BY <2>1 DEF VaultTypeOK
      <4> QED
        BY <1>1, <1>4, <2>1, <4>1 DEF Shape, Unsaved, VaultTypeOK
    <3>2. <<run, vaultTick>> \in Runs \X Ticks
      BY <2>1 DEF VaultTypeOK
    <3> QED
      BY <1>1, <1>4, <2>1, <3>1, <3>2, VaultNumbers DEF Shape, SpikesOf, Runs
  <2>3. /\ \A i \in 1..Len(spikeBuffer') :
             spikeBuffer'[i] = vaultTick \/ \E h \in 1..Len(spikeBuffer) : spikeBuffer'[i] = spikeBuffer[h]
    <3>1. CASE spikeBuffer' = Append(spikeBuffer, vaultTick)
      BY <2>1, <3>1 DEF VaultTypeOK
    <3>2. CASE spikeBuffer' = spikeBuffer
      BY <3>2
    <3> QED
      BY <1>8, <3>1, <3>2 DEF Vault!RecordSpikes
  <2>4. SpikesFresh'
    BY <1>2, <1>5, <2>2, <2>3 DEF SpikesFresh
  <2>5. Foreign(p) => Foreign(p)'
    BY <1>8 DEF Vault!RecordSpikes, Foreign, BufferFrom
  <2>6. Unsaved(k, p) => Unsaved(k, p)'
    <3>1. SpikesUpTo(p) => SpikesUpTo(p)'
      BY <2>1, <2>3 DEF SpikesUpTo, VaultTypeOK
    <3> QED
      BY <1>8, <3>1 DEF Vault!RecordSpikes, Unsaved, BufferFrom
  <2>7. Shape(k, r, p)'
    BY <1>1, <1>2, <1>3, <1>4, <1>8, <2>5, <2>6
    DEF Vault!RecordSpikes, Shape, Running, Pushed
  <2> QED
    BY <2>4, <2>7 DEF VaultShape
<1> QED
  BY <1>6, <1>7, <1>8

(* The market INSERT succeeds only on rows that follow the run's own.      *)
LEMMA InsertShape ==
  ASSUME VaultInv, VaultTypeOK', VaultPcs', Vault!InsertMarket
  PROVE  SpikesFresh' /\ VaultShape'
<1> USE VaultFacts DEF VaultInv
<1>1. PICK k \in 0..MaxPulses, r \in Runs, p \in 0..MaxPulses : Shape(k, r, p)
  BY DEF VaultShape
<1>2. /\ vaultPc = "insertMarket" /\ vaultPc' = "emptyMarket"
      /\ UNCHANGED <<closing, run, vaultTick, marketBuffer, spikeBuffer, spikeEvents>>
      /\ Len(marketBuffer) > 0
  BY VaultNumbers DEF Vault!InsertMarket, Vault!buffers, VaultPcs
<1>3. \A i \in 1..Len(marketBuffer) : marketEvents[marketBuffer[i].tick] = NoRow
  BY DEF Vault!InsertMarket, Vault!Conflict
<1>4. \A t \in Ticks : t <= k => marketEvents[t] # NoRow
  BY <1>1 DEF Shape, RowsOf, NoRow, Runs
<1>5. r = run /\ Unsaved(k, p)
  <2>1. marketBuffer[1].tick \in Ticks /\ marketEvents[marketBuffer[1].tick] = NoRow
    BY <1>2, <1>3, VaultNumbers
  <2>2. ~(marketBuffer[1].tick <= k)
    BY <1>4, <2>1
  <2>3. ~(k > 0 /\ Foreign(p)) /\ ~Saved(k, p)
    BY <1>2, <2>2, VaultNumbers DEF Foreign, BufferFrom, Saved
  <2> QED
    BY <1>1, <2>3 DEF Shape
<1>6. RowsOf(p, run)'
  <2> SUFFICES ASSUME NEW t \in Ticks
               PROVE  IF t <= p THEN marketEvents'[t].run = run ELSE marketEvents'[t] = NoRow
    BY <1>2 DEF RowsOf
  <2>1. CASE t <= k
    <3>1. ~ \E i \in 1..Len(marketBuffer) : marketBuffer[i].tick = t
      BY <1>5, <2>1 DEF Unsaved, BufferFrom, Ticks
    <3>2. marketEvents'[t] = marketEvents[t]
      BY <3>1, InsertedRows, Zenon
    <3> QED
      BY <1>1, <1>5, <2>1, <3>2, VaultNumbers DEF Shape, RowsOf, Unsaved, Ticks
  <2>2. CASE k < t /\ t <= p
    <3>1. t - k \in 1..Len(marketBuffer) /\ marketBuffer[t - k].tick = t
      BY <1>5, <2>2, VaultNumbers DEF Unsaved, BufferFrom, Ticks
    <3>2. \E i \in 1..Len(marketBuffer) :
            marketEvents'[t] = [run |-> run, pulse |-> marketBuffer[i].pulse]
      BY <3>1, InsertedRows, Zenon
    <3> QED
      BY <2>2, <3>2
  <2>3. CASE p < t
    <3>1. ~ \E i \in 1..Len(marketBuffer) : marketBuffer[i].tick = t
      BY <1>5, <2>3, VaultNumbers, SMTT(40) DEF Unsaved, BufferFrom, Ticks
    <3>2. marketEvents'[t] = marketEvents[t]
      BY <3>1, InsertedRows, Zenon
    <3> QED
      BY <1>1, <1>5, <2>3, <3>2, VaultNumbers DEF Shape, RowsOf, Unsaved, Ticks
  <2> QED
    BY <2>1, <2>2, <2>3 DEF Ticks
<1>7. SpikesOf(p, run)'
  <2>1. k <= p
    BY <1>5, VaultNumbers DEF Unsaved
  <2> QED
    BY <1>1, <1>2, <1>5, <2>1 DEF Shape, SpikesOf, Ticks
<1>8. Saved(p, p)'
  <2>1. \A i \in 1..Len(marketBuffer) : marketBuffer[i].tick <= p
    BY <1>5, VaultNumbers DEF Unsaved, BufferFrom
  <2> QED
    BY <1>2, <1>5, <2>1, VaultNumbers DEF Saved, Unsaved, SpikesUpTo, Running
<1>9. Running' => p = Pushed'
  BY <1>1, <1>2 DEF Shape, Running, Pushed
<1>10. VaultShape'
  <2>1. run' = run /\ run \in Runs /\ p \in 0..vaultTick'
    BY <1>1, <1>2 DEF Shape, VaultTypeOK
  <2> QED
    BY <1>6, <1>7, <1>8, <1>9, <2>1 DEF VaultShape, Shape, RowsOf, SpikesOf
<1>11. SpikesFresh'
  BY <1>2 DEF SpikesFresh, Running
<1> QED
  BY <1>10, <1>11

(* The other statements of a flush.                                        *)
LEMMA FlushShape ==
  ASSUME VaultInv, VaultTypeOK', VaultPcs', Vault!Flush
  PROVE  SpikesFresh' /\ VaultShape'
<1> USE VaultFacts DEF VaultInv
<1>1. PICK k \in 0..MaxPulses, r \in Runs, p \in 0..MaxPulses : Shape(k, r, p)
  BY DEF VaultShape
<1>2. CASE Vault!BeginFlush
  <2>1. /\ vaultPc = "flush" /\ vaultPc' \in {"idle", "closed", "insertMarket"}
        /\ vaultPc' = "insertMarket" => marketBuffer # <<>>
        /\ vaultPc' = "idle" => ~closing
        /\ UNCHANGED <<closing, run, vaultTick, marketBuffer, spikeBuffer, marketEvents, spikeEvents>>
    BY <1>2 DEF Vault!BeginFlush, Vault!FlushReturns, Vault!buffers, Vault!tables
  <2>2. Shape(k, r, p)'
    BY <1>1, <2>1 DEF Shape, RowsOf, SpikesOf, Foreign, Unsaved, Saved, BufferFrom, SpikesUpTo,
       Running, Pushed
  <2>3. SpikesFresh'
    BY <2>1 DEF SpikesFresh, Running
  <2> QED
    BY <2>1, <2>2, <2>3 DEF VaultShape
<1>3. CASE Vault!EmptyMarket
  <2>1. /\ vaultPc = "emptyMarket" /\ vaultPc' \in {"idle", "closed", "insertSpikes"}
        /\ marketBuffer' = <<>> /\ Len(marketBuffer') = 0
        /\ UNCHANGED <<closing, run, vaultTick, spikeBuffer, marketEvents, spikeEvents>>
    BY <1>3 DEF Vault!EmptyMarket, Vault!FlushReturns, Vault!tables
  <2>2. r = run /\ Saved(k, p)
    BY <1>1, <2>1 DEF Shape, Foreign, Unsaved
  <2>3. Unsaved(k, p)'
    BY <2>1, <2>2 DEF Saved, Unsaved, BufferFrom, SpikesUpTo
  <2>4. Shape(k, r, p)'
    BY <1>1, <2>1, <2>2, <2>3 DEF Shape, RowsOf, SpikesOf, Running, Pushed
  <2>5. SpikesFresh'
    BY <2>1 DEF SpikesFresh
  <2> QED
    BY <2>4, <2>5 DEF VaultShape
<1>4. CASE Vault!InsertSpikes
  <2>1. /\ vaultPc = "insertSpikes" /\ vaultPc' = "emptySpikes" /\ marketBuffer = <<>>
        /\ UNCHANGED <<closing, run, vaultTick, marketBuffer, spikeBuffer, marketEvents>>
        /\ Len(marketBuffer) = 0
    BY <1>4 DEF Vault!InsertSpikes, Vault!buffers, VaultPcs
  <2>2. r = run /\ Unsaved(k, p) /\ k = p
    BY <1>1, <2>1 DEF Shape, Foreign, Unsaved, Saved
  <2>3. \A i \in 1..Len(spikeBuffer) : spikeEvents[<<run, spikeBuffer[i]>>] = 0
    BY <2>1 DEF SpikesFresh
  <2>4. SpikesOf(k, r)'
    <3> SUFFICES ASSUME NEW rt \in Runs \X Ticks, spikeEvents'[rt] > 0
                 PROVE  spikeEvents'[rt] = 1 /\ rt[1] = r /\ rt[2] <= k
      BY DEF SpikesOf
    <3>1. CASE rt[1] = run /\ \E i \in 1..Len(spikeBuffer) : spikeBuffer[i] = rt[2]
      <4>1. PICK i \in 1..Len(spikeBuffer) : spikeBuffer[i] = rt[2]
        BY <3>1
      <4>2. rt = <<run, spikeBuffer[i]>>
        BY <3>1, <4>1
      <4>3. spikeEvents[rt] = 0
        BY <2>3, <4>2
      <4>4. spikeEvents'[rt] = spikeEvents[rt] + 1
        BY <1>4, <3>1 DEF Vault!InsertSpikes
      <4> QED
        BY <2>2, <3>1, <4>1, <4>3, <4>4 DEF Unsaved, SpikesUpTo
    <3>2. CASE ~(rt[1] = run /\ \E i \in 1..Len(spikeBuffer) : spikeBuffer[i] = rt[2])
      <4>1. spikeEvents'[rt] = spikeEvents[rt]
        BY <1>4, <3>2 DEF Vault!InsertSpikes
      <4> QED
        BY <1>1, <4>1 DEF Shape, SpikesOf
    <3> QED
      BY <3>1, <3>2
  <2>5. Shape(k, r, p)'
    BY <1>1, <2>1, <2>2, <2>4 DEF Shape, RowsOf, Unsaved, BufferFrom, SpikesUpTo, Running, Pushed
  <2> QED
    BY <2>1, <2>5 DEF VaultShape, SpikesFresh
<1>5. CASE Vault!EmptySpikes
  <2>1. /\ vaultPc = "emptySpikes" /\ vaultPc' \in {"idle", "closed"}
        /\ spikeBuffer' = <<>> /\ Len(spikeBuffer') = 0
        /\ UNCHANGED <<closing, run, vaultTick, marketBuffer, marketEvents, spikeEvents>>
    BY <1>5 DEF Vault!EmptySpikes, Vault!FlushReturns, Vault!tables
  <2>2. Shape(k, r, p)'
    BY <1>1, <2>1 DEF Shape, RowsOf, SpikesOf, Foreign, Unsaved, Saved, BufferFrom, SpikesUpTo,
       Running, Pushed
  <2> QED
    BY <2>1, <2>2 DEF VaultShape, SpikesFresh
<1> QED
  BY <1>2, <1>3, <1>4, <1>5, InsertShape DEF Vault!Flush

(* An exception or a crash leaves the buffers as they are, and a new run   *)
(* finds the tables taken, unless they are empty.                          *)
LEMMA EndShape ==
  ASSUME VaultInv, VaultTypeOK', VaultPcs', Vault!Fails \/ Vault!Crash \/ Vault!Restart
  PROVE  SpikesFresh' /\ VaultShape'
<1> USE VaultFacts DEF VaultInv
<1>1. PICK k \in 0..MaxPulses, r \in Runs, p \in 0..MaxPulses : Shape(k, r, p)
  BY DEF VaultShape
<1>2. CASE Vault!Fails \/ Vault!Crash
  <2>1. /\ vaultPc \notin {"closed", "dead"}
        /\ vaultPc' \in {"flush", "dead"} /\ ~Running'
        /\ vaultPc' = "flush" => closing'
        /\ closing => vaultPc' = "dead"
        /\ UNCHANGED <<run, vaultTick, marketBuffer, spikeBuffer, marketEvents, spikeEvents>>
    BY <1>2 DEF Vault!Fails, Vault!Crash, Vault!Raise, Vault!buffers, Vault!tables, Running
  <2>2. Shape(k, r, p)'
    BY <1>1, <2>1 DEF Shape, RowsOf, SpikesOf, Foreign, Unsaved, Saved, BufferFrom, SpikesUpTo
  <2>3. SpikesFresh'
    BY <2>1 DEF SpikesFresh, VaultPcs
  <2> QED
    BY <2>2, <2>3 DEF VaultShape
<1>3. CASE Vault!Restart
  <2>1. /\ run' = run + 1 /\ vaultPc' = "idle" /\ ~closing' /\ vaultTick' = 0
        /\ marketBuffer' = <<>> /\ Len(marketBuffer') = 0
        /\ spikeBuffer' = <<>> /\ Len(spikeBuffer') = 0
        /\ UNCHANGED <<marketEvents, spikeEvents>>
    BY <1>3 DEF Vault!Restart, Vault!Open, Vault!tables
  <2>2. BufferFrom(0)' /\ SpikesUpTo(0)' /\ Pushed' = 0
    BY <2>1 DEF BufferFrom, SpikesUpTo, Pushed
  <2>3. CASE k > 0
    <3>1. r < run'
      BY <1>1, <2>1, VaultNumbers DEF Shape, Runs
    <3>2. Shape(k, r, 0)'
      BY <1>1, <2>1, <2>2, <2>3, <3>1 DEF Shape, RowsOf, SpikesOf, Foreign
    <3> QED
      BY <2>1, <3>2 DEF VaultShape, SpikesFresh
  <2>4. CASE k = 0
    <3>1. PICK s \in Runs : s = run'
      BY DEF VaultTypeOK
    <3>2. RowsOf(0, s)' /\ SpikesOf(0, s)'
      BY <1>1, <2>1, <2>4 DEF Shape, RowsOf, SpikesOf, Ticks
    <3>3. Unsaved(0, 0)'
      BY <2>1, <2>2 DEF Unsaved
    <3>4. Shape(0, s, 0)'
      BY <2>1, <2>2, <3>1, <3>2, <3>3 DEF Shape
    <3> QED
      BY <2>1, <3>1, <3>4 DEF VaultShape, SpikesFresh
  <2> QED
    BY <2>3, <2>4
<1> QED
  BY <1>2, <1>3

(* Every step of the vault keeps its invariant. *)
LEMMA StepVault == VaultInv /\ [Vault!Next]_vault => VaultInv'
<1> SUFFICES ASSUME VaultInv, [Vault!Next]_vault PROVE VaultInv'
  OBVIOUS
<1>1. VaultTypeOK' /\ VaultPcs'
  BY TypeVault DEF VaultInv
<1>2. CASE UNCHANGED vault
  <2>1. PICK k \in 0..MaxPulses, r \in Runs, p \in 0..MaxPulses : Shape(k, r, p)
    BY DEF VaultInv, VaultShape
  <2>2. Shape(k, r, p)'
    BY <1>2, <2>1 DEF vault, Shape, RowsOf, SpikesOf, Foreign, Unsaved, Saved, BufferFrom,
       SpikesUpTo, Running, Pushed
  <2>3. SpikesFresh'
    BY <1>2 DEF vault, VaultInv, SpikesFresh, Running
  <2> QED
    BY <1>1, <2>2, <2>3 DEF VaultInv, VaultShape
<1>3. CASE Vault!Next
  BY <1>1, <1>3, RecordShape, FlushShape, EndShape DEF Vault!Next, Pulses, VaultInv
<1> QED
  BY <1>2, <1>3

LEMMA VaultInvariant == Vault!Spec => []VaultInv
<1>1. [Vault!Next]_(Vault!vars) => [Vault!Next]_vault
  BY DEF Vault!vars, vault
<1> QED
  BY <1>1, InitVault, StepVault, PTL DEF Vault!Spec

LEMMA VaultInvImplies == VaultInv => Vault!OneRunPersisted
<1> SUFFICES ASSUME VaultInv PROVE Vault!OneRunPersisted
  OBVIOUS
<1>1. PICK k \in 0..MaxPulses, r \in Runs, p \in 0..MaxPulses : Shape(k, r, p)
  BY DEF VaultInv, VaultShape
<1> QED
  BY <1>1, VaultFacts DEF Shape, RowsOf, SpikesOf, Vault!OneRunPersisted

(* Of the vault alone: whatever interrupts, crashes and restarts happen,   *)
(* its tables hold the first ticks of one run, and their spikes once.      *)
THEOREM VaultKeepsOneRun == Vault!Spec => []Vault!OneRunPersisted
  BY VaultInvariant, VaultInvImplies, PTL

-----------------------------------------------------------------------------
BrainInv == /\ VaultInv
            /\ LoopTypeOK
            /\ LoopAndVault
            /\ Counters
            /\ PulsesInOrder
            /\ HandledBound
            /\ RowsJoin
            /\ StreamJoins
            /\ StreamInOrder
            /\ RowsKept
            /\ SpikesKept

LEMMA BrainFacts == /\ Lobes \in Nat \ {0} /\ McEvery \in Nat \ {0} /\ McPaths \in BOOLEAN
                    /\ HighWater \in Nat \ {0}
                    /\ 1 \in Lobe /\ 1 \in Runs
  BY BrainAssumption, VaultFacts DEF Lobe, Runs

LEMMA InitBrain == Init => BrainInv
<1> SUFFICES ASSUME Init PROVE BrainInv
  OBVIOUS
<1> USE BrainFacts, VaultFacts DEF Init
<1>1. VaultInv
  BY InitVault
<1>2. /\ vaultPc = "idle" /\ closing = FALSE /\ run = 1 /\ vaultTick = 0 /\ spiked = {}
      /\ marketBuffer = <<>> /\ Len(marketBuffer) = 0
      /\ spikeBuffer = <<>> /\ Len(spikeBuffer) = 0
      /\ \A t \in Ticks : marketEvents[t] = NoRow
  BY DEF Vault!Init
<1>3. /\ Handled = <<>> /\ Len(Handled) = 0
      /\ Stream = <<>> /\ Len(Stream) = 0 /\ Len(inbox) = 0
  <2>1. Stream = <<>>
    BY DEF Stream
  <2> QED
    BY <1>2, <2>1 DEF Handled, Runs
<1>4. LoopTypeOK
  <2>1. accepted \in [Runs -> Seq(Pulses)] /\ lobeTick \in [Lobe -> Nat]
    BY DEF Runs
  <2>2. inbox \in Seq(Pulses) /\ outbox \in Seq(Messages) /\ received \in Seq(Messages)
    OBVIOUS
  <2>3. sent \in 0..MaxPulses /\ current \in 0..MaxPulses
    OBVIOUS
  <2> QED
    BY <2>1, <2>2, <2>3 DEF LoopTypeOK, Statements
<1>5. LoopAndVault /\ PulsesInOrder /\ HandledBound /\ RowsJoin
  BY <1>2, <1>3 DEF LoopAndVault, Statements, PulsesInOrder, Up, HandledBound, Runs, RowsJoin
<1>6. Counters
  <2>1. 0 \div McEvery = 0
    OBVIOUS
  <2> QED
    BY <1>2, <1>3, <2>1 DEF Counters, Less, Statements, Lobe
<1>7. StreamJoins /\ StreamInOrder
  BY <1>3 DEF StreamJoins, StreamInOrder
<1>8. RowsKept /\ SpikesKept
  BY <1>2 DEF RowsKept, SpikesKept
<1> QED
  BY <1>1, <1>4, <1>5, <1>6, <1>7, <1>8 DEF BrainInv

LEMMA HandledFacts ==
  ASSUME LoopTypeOK, VaultTypeOK
  PROVE  /\ Handled \in Seq(Pulses) /\ Len(Handled) \in Nat
         /\ \A i \in 1..Len(Handled) : Handled[i] \in Pulses
         /\ \A r \in Runs : accepted[r] \in Seq(Pulses) /\ Len(accepted[r]) \in Nat
         /\ Len(inbox) \in Nat
         /\ \A i \in 1..Len(inbox) : inbox[i] \in Pulses
         /\ Stream \in Seq(Messages) /\ Len(Stream) \in Nat
         /\ \A k \in 1..Len(Stream) : Stream[k] \in Messages
<1>1. Handled \in Seq(Pulses) /\ \A r \in Runs : accepted[r] \in Seq(Pulses)
  BY DEF LoopTypeOK, VaultTypeOK, Handled
<1>2. Stream \in Seq(Messages)
  BY ConcatProperties DEF LoopTypeOK, Stream
<1>3. /\ \A i \in 1..Len(Handled) : Handled[i] \in Pulses
      /\ \A i \in 1..Len(inbox) : inbox[i] \in Pulses
      /\ \A k \in 1..Len(Stream) : Stream[k] \in Messages
  BY <1>1, <1>2, ElementOfSeq DEF LoopTypeOK
<1> QED
  BY <1>1, <1>2, <1>3, LenProperties DEF LoopTypeOK

(* What the loop does to its vault is a step of the vault or nothing.      *)
LEMMA VaultStep ==
  ASSUME LoopTypeOK, VaultTypeOK, Counters, [Next]_vars
  PROVE  [Vault!Next]_vault
<1>1. CASE RecordTick
  <2>1. \/ Vault!CountTick \/ Vault!PushMarket(current) \/ Vault!RecordSpikes \/ Vault!Flush
    BY <1>1 DEF RecordTick
  <2>2. current \in 1..MaxPulses
    BY <1>1, HandledFacts DEF RecordTick, Counters, Statements, Pulses
  <2> QED
    BY <2>1, <2>2 DEF Vault!Next
<1>2. CASE Fails \/ CleanupThrows
  BY <1>2 DEF Fails, CleanupThrows, Vault!Next
<1>3. CASE CloseVault
  BY <1>3 DEF CloseVault, Vault!Next
<1>4. CASE Kill
  BY <1>4 DEF Kill, Vault!Next
<1>5. CASE Restart
  BY <1>5 DEF Restart, Vault!Next
<1>6. CASE Recv \/ Features \/ StepLobe \/ Analyse \/ Route \/ PublishReadout
  BY <1>6 DEF Recv, Features, StepLobe, Analyse, Route, PublishReadout
<1>7. CASE SendPulse \/ Cleanup \/ MuscleRecv
  BY <1>7 DEF SendPulse, Cleanup, MuscleRecv
<1>8. CASE UNCHANGED vars
  BY <1>8 DEF vars
<1> QED
  BY <1>1, <1>2, <1>3, <1>4, <1>5, <1>6, <1>7, <1>8 DEF Next, Loop

(* The readout is well-typed, and the queues stay so.                      *)
LEMMA QueueTypes ==
  ASSUME NEW S, NEW q \in Seq(S), NEW m \in S, NEW q2,
         q2 = Append(q, m) \/ q2 = q \/ q2 = <<>> \/ (q # <<>> /\ q2 = Tail(q))
  PROVE  q2 \in Seq(S)
<1>1. Append(q, m) \in Seq(S) /\ (q # <<>> => Tail(q) \in Seq(S)) /\ <<>> \in Seq(S)
  BY AppendProperties, HeadTailProperties, EmptySeq
<1> QED
  BY <1>1

LEMMA TypeLoop ==
  ASSUME LoopTypeOK, VaultTypeOK, Counters, [Next]_vars
  PROVE  LoopTypeOK'
<1> USE BrainFacts, VaultFacts DEF LoopTypeOK, Statements, ticks, publisher, muscle, loop
<1>1. CASE SendPulse
  <2>1. sent' \in 1..MaxPulses /\ sent' \in Pulses /\ sent' = sent + 1
    BY <1>1 DEF SendPulse, Pulses
  <2>2. invalid' \in SUBSET (1..sent')
    BY <1>1, <2>1 DEF SendPulse
  <2>3. inbox' \in Seq(Pulses)
    <3>1. inbox' = Append(inbox, sent') \/ inbox' = inbox
      BY <1>1 DEF SendPulse, Publish
    <3>2. Append(inbox, sent') \in Seq(Pulses)
      BY <2>1, AppendProperties
    <3> QED
      BY <3>1, <3>2
  <2> QED
    BY <1>1, <2>1, <2>2, <2>3 DEF SendPulse
<1>2. CASE Recv
  <2>1. Head(inbox) \in Pulses /\ inbox' \in Seq(Pulses)
    BY <1>2, HeadTailProperties DEF Recv
  <2>2. accepted' \in [Runs -> Seq(Pulses)]
    <3>1. Append(accepted[run], Head(inbox)) \in Seq(Pulses)
      BY <2>1, AppendProperties DEF VaultTypeOK
    <3>2. accepted' = accepted \/ accepted' = [accepted EXCEPT ![run] = Append(@, Head(inbox))]
      BY <1>2 DEF Recv
    <3> QED
      BY <3>1, <3>2
  <2>3. current' \in 0..MaxPulses /\ tick' \in Nat /\ pc' \in Statements
    BY <1>2, <2>1, SMTT(40) DEF Recv, Pulses
  <2> QED
    BY <1>2, <2>1, <2>2, <2>3 DEF Recv
<1>3. CASE Features
  BY <1>3 DEF Features, Goto
<1>4. CASE StepLobe
  <2>1. lobeTick' \in [Lobe -> Nat]
    BY <1>4 DEF StepLobe
  <2>2. lobe' \in Lobe /\ pc' \in Statements
    BY <1>4 DEF StepLobe, Lobe
  <2> QED
    BY <1>4, <2>1, <2>2 DEF StepLobe
<1>5. CASE RecordTick
  BY <1>5 DEF RecordTick
<1>6. CASE Analyse
  <2>1. mcTick' \in Nat
    BY <1>6 DEF Analyse
  <2> QED
    BY <1>6, <2>1 DEF Analyse, Goto
<1>7. CASE Route
  BY <1>7 DEF Route, Goto
<1>8. CASE PublishReadout
  <2>1. Readout \in Messages
    BY DEF Readout, Messages, VaultTypeOK
  <2>2. outbox' = Append(outbox, Readout) \/ outbox' = outbox
    BY <1>8 DEF PublishReadout, Publish
  <2>3. outbox' \in Seq(Messages)
    BY <2>1, <2>2, QueueTypes
  <2> QED
    BY <1>8, <2>3 DEF PublishReadout, Goto
<1>9. CASE Fails
  BY <1>9 DEF Fails
<1>10. CASE CloseVault
  BY <1>10 DEF CloseVault
<1>11. CASE Cleanup \/ CleanupThrows \/ Kill
  <2>1. inbox' = <<>>
    BY <1>11 DEF Cleanup, CleanupThrows, Kill
  <2>2. inbox' \in Seq(Pulses)
    BY <2>1, EmptySeq
  <2> QED
    BY <1>11, <2>2 DEF Cleanup, CleanupThrows, Kill, Goto
<1>12. CASE Restart
  <2>1. lobeTick' \in [Lobe -> Nat]
    BY <1>12 DEF Restart, Start
  <2>2. inbox' \in Seq(Pulses)
    BY <1>12 DEF Restart, Start
  <2> QED
    BY <1>12, <2>1, <2>2 DEF Restart, Start
<1>13. CASE MuscleRecv
  <2>1. Head(outbox) \in Messages /\ outbox' \in Seq(Messages)
    BY <1>13, HeadTailProperties DEF MuscleRecv
  <2>2. received' \in Seq(Messages)
    BY <1>13, <2>1, AppendProperties DEF MuscleRecv
  <2> QED
    BY <1>13, <2>1, <2>2 DEF MuscleRecv
<1>14. CASE UNCHANGED vars
  BY <1>14 DEF vars
<1> QED
  BY <1>1, <1>2, <1>3, <1>4, <1>5, <1>6, <1>7, <1>8, <1>9, <1>10, <1>11, <1>12, <1>13, <1>14
  DEF Next, Loop

LEMMA StepLoopAndVault ==
  ASSUME LoopTypeOK, VaultTypeOK, VaultPcs, LoopAndVault, [Next]_vars
  PROVE  LoopAndVault'
<1> USE DEF LoopTypeOK, LoopAndVault, Statements
<1>1. CASE RecordTick
  <2>1. ~closing' /\ vaultPc' \notin {"closed", "dead"}
    BY <1>1 DEF RecordTick, Vault!CountTick, Vault!PushMarket, Vault!RecordSpikes, Vault!Flush,
       Vault!BeginFlush, Vault!InsertMarket, Vault!EmptyMarket, Vault!InsertSpikes,
       Vault!EmptySpikes, Vault!FlushReturns
  <2> QED
    BY <1>1, <2>1 DEF RecordTick
<1>2. CASE Fails \/ CleanupThrows \/ Kill
  BY <1>2 DEF Fails, CleanupThrows, Kill, Goto, Vault!Fails, Vault!Crash, Vault!Raise
<1>3. CASE CloseVault
  <2>1. closing' /\ vaultPc' # "dead" /\ pc' = pc /\ pc = "finally"
    BY <1>3 DEF CloseVault, loop, Vault!Flush,
       Vault!BeginFlush, Vault!InsertMarket, Vault!EmptyMarket, Vault!InsertSpikes,
       Vault!EmptySpikes, Vault!FlushReturns
  <2> QED
    BY <2>1
<1>4. CASE Restart
  BY <1>4 DEF Restart, Start, Vault!Restart, Vault!Open
<1>5. CASE Recv \/ Features \/ StepLobe \/ Analyse \/ Route \/ PublishReadout
  BY <1>5 DEF Recv, Features, StepLobe, Analyse, Route, PublishReadout, Goto, vault
<1>6. CASE SendPulse \/ Cleanup \/ MuscleRecv
  BY <1>6 DEF SendPulse, Cleanup, MuscleRecv, Goto, vault, loop
<1>7. CASE UNCHANGED vars
  BY <1>7 DEF vars, vault, loop
<1> QED
  BY <1>1, <1>2, <1>3, <1>4, <1>5, <1>6, <1>7 DEF Next, Loop

(* Quotient and remainder are determined by each other, ...                *)
LEMMA DivUnique ==
  ASSUME NEW m \in Nat \ {0}, NEW p \in Nat, NEW q \in Nat,
         NEW r \in 0..(m - 1), NEW s \in 0..(m - 1), m * p + r = m * q + s
  PROVE  p = q /\ r = s
<1>1. ASSUME NEW a \in Nat, NEW b \in Nat, a < b PROVE m * a + m <= m * b
  <2>1. PICK d \in Nat : b = a + 1 + d
    <3>1. b - a - 1 \in Nat /\ b = a + 1 + (b - a - 1)
      BY <1>1
    <3> QED
      BY <3>1
  <2>2. m * b = m * a + m + m * d
    BY <2>1
  <2>3. m * d \in Nat /\ m * a \in Nat /\ m * b \in Nat
    OBVIOUS
  <2> QED
    BY <2>2, <2>3
<1>2. ~(p < q) /\ ~(q < p)
  BY <1>1
<1> QED
  BY <1>2

(* ... so that counting the multiples of m is dividing by m.               *)
LEMMA DivNext ==
  ASSUME NEW m \in Nat \ {0}, NEW n \in Nat \ {0}
  PROVE  n \div m = IF n % m = 0 THEN ((n - 1) \div m) + 1 ELSE (n - 1) \div m
<1> DEFINE q == (n - 1) \div m
           r == (n - 1) % m
           qq == n \div m
           rr == n % m
<1>1. q \in Nat /\ r \in 0..(m - 1) /\ n - 1 = m * q + r
  OBVIOUS
<1>2. qq \in Nat /\ rr \in 0..(m - 1) /\ n = m * qq + rr
  OBVIOUS
<1> HIDE DEF q, r, qq, rr
<1>3. CASE r + 1 < m
  <2>1. r + 1 \in 0..(m - 1) /\ m * q + (r + 1) = m * qq + rr
    BY <1>1, <1>2, <1>3
  <2>2. q = qq /\ r + 1 = rr
    BY <1>1, <1>2, <2>1, DivUnique
  <2> QED
    BY <1>1, <1>2, <2>2 DEF q, qq, rr
<1>4. CASE r + 1 = m
  <2>1. m * (q + 1) + 0 = m * qq + rr /\ q + 1 \in Nat /\ 0 \in 0..(m - 1)
    BY <1>1, <1>2, <1>4
  <2>2. q + 1 = qq /\ 0 = rr
    BY <1>1, <1>2, <2>1, DivUnique
  <2> QED
    BY <2>2 DEF q, qq, rr
<1> QED
  BY <1>1, <1>3, <1>4

(* A pulse taken from the queue is the last one handled.                   *)
LEMMA HandledNext ==
  ASSUME LoopTypeOK, VaultTypeOK, Recv, Head(inbox) \notin invalid
  PROVE  /\ Head(inbox) = inbox[1]
         /\ Handled' = Append(Handled, inbox[1])
         /\ Len(Handled') = Len(Handled) + 1
         /\ \A i \in 1..Len(Handled) : Handled'[i] = Handled[i]
         /\ Handled'[Len(Handled) + 1] = inbox[1]
         /\ \A r \in Runs : accepted'[r] = IF r = run THEN Handled' ELSE accepted[r]
<1>1. Head(inbox) = inbox[1]
  BY HeadTailProperties DEF LoopTypeOK, Recv
<1>2. Handled' = Append(Handled, inbox[1])
  BY <1>1 DEF LoopTypeOK, VaultTypeOK, Recv, Handled, vault
<1>3. \A r \in Runs : accepted'[r] = IF r = run THEN Handled' ELSE accepted[r]
  BY DEF LoopTypeOK, VaultTypeOK, Recv, Handled, vault
<1> QED
  BY <1>1, <1>2, <1>3, HandledFacts DEF Recv

LEMMA StepCounters ==
  ASSUME LoopTypeOK, VaultTypeOK, LoopAndVault, Counters, HandledBound, LoopAndVault', [Next]_vars
  PROVE  Counters'
<1> USE BrainFacts, HandledFacts DEF Statements, Less
<1>1. CASE Recv
  <2>1. CASE Head(inbox) \in invalid
    BY <1>1, <2>1 DEF Recv, Counters, Handled, vault, LoopTypeOK
  <2>2. CASE Head(inbox) \notin invalid
    <3>1. /\ Len(Handled') = Len(Handled) + 1
          /\ Handled'[Len(Handled')] = Head(inbox)
      BY <1>1, <2>2, HandledNext
    <3>2. \A l \in Lobe : lobeTick[l] = Len(Handled)
      BY <1>1 DEF Recv, Counters
    <3> QED
      BY <1>1, <2>2, <3>1, <3>2 DEF Recv, Counters, vault
  <2> QED
    BY <2>1, <2>2
<1>2. ASSUME UNCHANGED <<accepted, run>>
      PROVE  Handled' = Handled
  BY <1>2 DEF Handled
<1>3. CASE Features
  BY <1>2, <1>3 DEF Features, Goto, vault, Counters, Lobe, LoopTypeOK
<1>4. CASE StepLobe
  <2>1. Handled' = Handled /\ pc = "step" /\ pc' \in {"step", "record"}
    BY <1>2, <1>4 DEF StepLobe, vault
  <2>2. \A l \in Lobe : lobeTick'[l] = IF l < lobe' THEN Less({"features"})'
                                       ELSE Less({"features", "step"})'
    <3> SUFFICES ASSUME NEW l \in Lobe
                 PROVE  lobeTick'[l] = IF l < lobe' THEN Len(Handled)
                          ELSE IF pc' = "step" THEN Len(Handled) - 1 ELSE Len(Handled)
      BY <2>1
    <3>1. lobeTick'[l] = IF l = lobe THEN lobeTick[l] + 1 ELSE lobeTick[l]
      BY <1>4 DEF StepLobe, LoopTypeOK
    <3>2. lobeTick[l] = IF l < lobe THEN Len(Handled) ELSE Len(Handled) - 1
      BY <2>1 DEF Counters
    <3>3. CASE lobe = Lobes
      BY <1>4, <3>1, <3>2, <3>3, SMTT(40) DEF StepLobe, LoopTypeOK, Lobe
    <3>4. CASE lobe # Lobes
      BY <1>4, <3>1, <3>2, <3>4, SMTT(40) DEF StepLobe, LoopTypeOK, Lobe
    <3> QED
      BY <3>3, <3>4
  <2> QED
    BY <1>4, <2>1, <2>2 DEF StepLobe, vault, Counters, LoopAndVault
<1>5. CASE RecordTick
  <2>1. /\ Handled' = Handled /\ pc = "record"
        /\ pc' = IF vaultPc' = "idle" THEN "analyse" ELSE "record"
    BY <1>2, <1>5 DEF RecordTick, Vault!CountTick, Vault!PushMarket, Vault!RecordSpikes,
       Vault!Flush, Vault!BeginFlush, Vault!InsertMarket, Vault!EmptyMarket, Vault!InsertSpikes,
       Vault!EmptySpikes
  <2>2. vaultTick' = Len(Handled)
    <3>1. CASE Vault!CountTick
      BY <2>1, <3>1 DEF Vault!CountTick, Counters
    <3>2. CASE ~Vault!CountTick
      BY <1>5, <2>1, <3>2 DEF RecordTick, Counters, Vault!PushMarket, Vault!RecordSpikes,
         Vault!Flush, Vault!BeginFlush, Vault!InsertMarket, Vault!EmptyMarket,
         Vault!InsertSpikes, Vault!EmptySpikes
    <3> QED
      BY <3>1, <3>2
  <2> QED
    BY <1>5, <2>1, <2>2 DEF RecordTick, Counters, ticks
<1>6. CASE Analyse
  <2>1. /\ Handled' = Handled /\ pc = "analyse" /\ pc' = "route"
        /\ tick = Len(Handled) /\ Len(Handled) \in Nat \ {0}
    BY <1>2, <1>6 DEF Analyse, Goto, vault, Counters
  <2>2. mcTick' = IF McPaths THEN Len(Handled) \div McEvery ELSE 0
    BY <1>6, <2>1, DivNext DEF Analyse, Counters
  <2> QED
    BY <1>6, <2>1, <2>2 DEF Analyse, vault, Counters
<1>7. CASE Route
  BY <1>2, <1>7 DEF Route, Goto, vault, Counters
<1>8. CASE PublishReadout
  BY <1>2, <1>8 DEF PublishReadout, Goto, vault, Counters, ticks
<1>9. CASE Fails \/ CloseVault \/ Cleanup \/ CleanupThrows \/ Kill
  BY <1>9 DEF Fails, CloseVault, Cleanup, CleanupThrows, Kill, Goto, loop, Counters
<1>10. CASE Restart
  <2>1. run' = run + 1 /\ run < MaxRuns /\ vaultTick' = 0 /\ accepted' = accepted
    BY <1>10 DEF Restart, Vault!Restart, Vault!Open
  <2>2. run' \in Runs /\ run' > run
    BY <2>1, VaultNumbers, VaultFacts DEF Runs
  <2>3. Handled' = <<>>
    BY <2>1, <2>2 DEF HandledBound, Handled
  <2>4. Len(Handled') = 0 /\ 0 \div McEvery = 0
    BY <2>3
  <2> QED
    BY <1>10, <2>1, <2>4 DEF Restart, Start, Counters
<1>11. CASE SendPulse \/ MuscleRecv
  BY <1>2, <1>11 DEF SendPulse, MuscleRecv, Counters, ticks, vault, loop
<1>12. CASE UNCHANGED vars
  BY <1>2, <1>12 DEF vars, Counters, ticks, vault, loop
<1> QED
  BY <1>1, <1>3, <1>4, <1>5, <1>6, <1>7, <1>8, <1>9, <1>10, <1>11, <1>12 DEF Next, Loop

\* A step that neither sends, takes nor drops a pulse, nor starts a run.
PulsesKept == UNCHANGED <<sent, invalid, inbox, accepted, run>>

LEMMA PulseSteps ==
  ASSUME LoopTypeOK, VaultTypeOK, HandledBound, [Next]_vars
  PROVE  \/ SendPulse
         \/ Recv /\ Head(inbox) \notin invalid
         \/ /\ UNCHANGED <<sent, invalid, accepted, run>>
            /\ (Recv /\ inbox' = Tail(inbox)) \/ inbox' = <<>>
         \/ PulsesKept /\ Up /\ Up'
         \/ PulsesKept /\ UNCHANGED Up
         \/ Restart /\ Handled' = <<>>
<1> USE DEF PulsesKept
<1>1. CASE Recv
  BY <1>1 DEF Recv, publisher, vault
<1>2. CASE Features \/ StepLobe \/ Analyse \/ Route \/ PublishReadout
  <2>1. PulsesKept
    BY <1>2 DEF Features, StepLobe, Analyse, Route, PublishReadout, publisher, vault
  <2>2. Up /\ Up'
    BY <1>2 DEF Features, StepLobe, Analyse, Route, PublishReadout, Goto, Up
  <2> QED
    BY <2>1, <2>2
<1>3. CASE RecordTick
  <2>1. PulsesKept
    BY <1>3 DEF RecordTick, publisher, Vault!CountTick, Vault!PushMarket, Vault!RecordSpikes,
       Vault!Flush, Vault!BeginFlush, Vault!InsertMarket, Vault!EmptyMarket,
       Vault!InsertSpikes, Vault!EmptySpikes
  <2> QED
    BY <1>3, <2>1 DEF RecordTick, Up
<1>4. CASE Fails
  <2>1. PulsesKept
    BY <1>4 DEF Fails, Vault!Fails, publisher
  <2> QED
    BY <1>4, <2>1 DEF Fails, Up, Statements
<1>5. CASE CloseVault
  <2>1. PulsesKept
    BY <1>5 DEF CloseVault, publisher, loop,
       Vault!Flush, Vault!BeginFlush, Vault!InsertMarket, Vault!EmptyMarket,
       Vault!InsertSpikes, Vault!EmptySpikes
  <2> QED
    BY <1>5, <2>1 DEF CloseVault, loop, Up
<1>6. CASE Cleanup \/ CleanupThrows \/ Kill
  BY <1>6 DEF Cleanup, CleanupThrows, Kill, Vault!Fails, Vault!Crash, publisher, vault
<1>7. CASE Restart
  <2>1. run' = run + 1 /\ run < MaxRuns /\ accepted' = accepted
    BY <1>7 DEF Restart, Vault!Restart, Vault!Open
  <2>2. run' \in Runs /\ run' > run
    BY <2>1, VaultNumbers, VaultFacts DEF Runs
  <2> QED
    BY <1>7, <2>1, <2>2 DEF HandledBound, Handled
<1>8. CASE MuscleRecv \/ UNCHANGED vars
  BY <1>8 DEF MuscleRecv, vars, publisher, loop, vault, Up
<1> QED
  BY <1>1, <1>2, <1>3, <1>4, <1>5, <1>6, <1>7, <1>8 DEF Next, Loop

LEMMA StepPulses ==
  ASSUME LoopTypeOK, VaultTypeOK, PulsesInOrder, HandledBound, [Next]_vars
  PROVE  PulsesInOrder'
<1> USE HandledFacts DEF PulsesInOrder
<1>1. CASE SendPulse
  <2>1. /\ Handled' = Handled /\ sent' = sent + 1 /\ sent \in Nat
        /\ Up' = Up
    BY <1>1 DEF SendPulse, Handled, vault, Up, LoopTypeOK
  <2>2. \A i \in 1..Len(Handled) : Handled'[i] <= sent' /\ Handled'[i] \notin invalid'
    BY <1>1, <2>1 DEF SendPulse, Pulses
  <2>3. \/ inbox' = inbox
        \/ /\ Up /\ Len(inbox') = Len(inbox) + 1
           /\ \A i \in 1..Len(inbox) : inbox'[i] = inbox[i]
           /\ inbox'[Len(inbox) + 1] = sent'
    BY <1>1, SMTT(40) DEF SendPulse, Publish, LoopTypeOK
  <2>4. \A i \in 1..Len(inbox) : inbox[i] < sent' /\ inbox[i] \in Nat
    BY <2>1 DEF Pulses
  <2>5. /\ \A i \in 1..Len(inbox') : inbox'[i] <= sent'
        /\ \A i, j \in 1..Len(inbox') : i < j => inbox'[i] < inbox'[j]
        /\ \A i \in 1..Len(Handled'), j \in 1..Len(inbox') : Handled'[i] < inbox'[j]
    <3>1. CASE inbox' = inbox
      BY <2>1, <2>4, <3>1
    <3>2. CASE inbox' # inbox
      <4>1. \A i \in 1..Len(inbox') : i \in 1..Len(inbox) \/ i = Len(inbox) + 1
        BY <2>3, <3>2
      <4>2. \A i \in 1..Len(Handled) : Handled[i] < sent'
        BY <2>1 DEF Pulses
      <4>3. \A i \in 1..Len(inbox') : inbox'[i] <= sent'
        BY <2>1, <2>3, <2>4, <3>2, <4>1
      <4>4. \A i, j \in 1..Len(inbox') : i < j => inbox'[i] < inbox'[j]
        BY <2>3, <2>4, <3>2, <4>1
      <4>5. \A i \in 1..Len(Handled'), j \in 1..Len(inbox') : Handled'[i] < inbox'[j]
        BY <2>1, <2>3, <3>2, <4>1, <4>2
      <4> QED
        BY <4>3, <4>4, <4>5
    <3> QED
      BY <3>1, <3>2
  <2>6. ~Up' => inbox' = <<>>
    BY <2>1, <2>3
  <2> QED
    BY <2>1, <2>2, <2>5, <2>6
<1>2. CASE Recv /\ Head(inbox) \notin invalid
  <2>1. /\ Len(Handled') = Len(Handled) + 1
        /\ \A i \in 1..Len(Handled) : Handled'[i] = Handled[i]
        /\ Handled'[Len(Handled) + 1] = inbox[1]
        /\ inbox[1] = Head(inbox)
    BY <1>2, HandledNext
  <2>2. /\ Len(inbox') = Len(inbox) - 1 /\ Len(inbox) > 0
        /\ \A i \in 1..Len(inbox') : inbox'[i] = inbox[i + 1]
    BY <1>2 DEF Recv, LoopTypeOK
  <2>3. \A i \in 1..Len(Handled') : i \in 1..Len(Handled) \/ i = Len(Handled) + 1
    BY <2>1
  <2>4. UNCHANGED <<sent, invalid>> /\ Up /\ Up'
    BY <1>2 DEF Recv, publisher, Up
  <2>5. inbox[1] <= sent /\ inbox[1] \notin invalid /\ \A i \in 1..Len(Handled) : Handled[i] < inbox[1]
    BY <1>2, <2>1, <2>2
  <2>6. /\ \A i \in 1..Len(Handled') : Handled'[i] <= sent' /\ Handled'[i] \notin invalid'
        /\ \A i, j \in 1..Len(Handled') : i < j => Handled'[i] < Handled'[j]
    BY <2>1, <2>3, <2>4, <2>5
  <2>7. /\ \A i \in 1..Len(inbox') : inbox'[i] <= sent'
        /\ \A i, j \in 1..Len(inbox') : i < j => inbox'[i] < inbox'[j]
    <3>1. \A i \in 1..Len(inbox') : i + 1 \in 1..Len(inbox)
      BY <2>2
    <3>2. \A i, j \in 1..Len(inbox') : i < j => i + 1 < j + 1
      BY <2>2
    <3> QED
      BY <2>2, <2>4, <3>1, <3>2
  <2>8. \A j \in 1..Len(inbox') : inbox[1] < inbox'[j]
    BY <2>2
  <2>9. \A i \in 1..Len(Handled'), j \in 1..Len(inbox') : Handled'[i] < inbox'[j]
    BY <2>1, <2>2, <2>3, <2>8
  <2> QED
    BY <2>4, <2>6, <2>7, <2>9
<1>3. CASE /\ UNCHANGED <<sent, invalid, accepted, run>>
           /\ (Recv /\ inbox' = Tail(inbox)) \/ inbox' = <<>>
  <2>1. Handled' = Handled
    BY <1>3 DEF Handled
  <2>2. CASE inbox' = <<>>
    BY <1>3, <2>1, <2>2
  <2>3. CASE Recv /\ inbox' = Tail(inbox)
    <3>1. /\ Len(inbox') = Len(inbox) - 1 /\ Len(inbox) > 0
          /\ \A i \in 1..Len(inbox') : inbox'[i] = inbox[i + 1]
      BY <2>3 DEF Recv, LoopTypeOK
    <3>2. Up'
      BY <2>3 DEF Recv, Up
    <3>3. \A i \in 1..Len(inbox') : i + 1 \in 1..Len(inbox)
      BY <3>1
    <3>4. \A i, j \in 1..Len(inbox') : i < j => i + 1 < j + 1
      BY <3>1
    <3> QED
      BY <1>3, <2>1, <3>1, <3>2, <3>3, <3>4
  <2> QED
    BY <1>3, <2>2, <2>3
<1>4. CASE PulsesKept /\ (Up' = Up \/ (Up /\ Up'))
  <2>1. Handled' = Handled
    BY <1>4 DEF Handled, PulsesKept
  <2> QED
    BY <1>4, <2>1 DEF PulsesKept
<1>5. CASE Restart /\ Handled' = <<>>
  <2>1. inbox' = <<>> /\ Len(inbox') = 0 /\ Len(Handled') = 0 /\ UNCHANGED <<sent, invalid>>
    BY <1>5 DEF Restart, Start, publisher
  <2> QED
    BY <2>1
<1> QED
  BY <1>1, <1>2, <1>3, <1>4, <1>5, PulseSteps

LEMMA StepHandledBound ==
  ASSUME LoopTypeOK, VaultTypeOK, LoopAndVault, Counters, HandledBound,
         LoopTypeOK', VaultTypeOK', [Next]_vars
  PROVE  HandledBound'
<1> USE HandledFacts, VaultNumbers, VaultFacts
<1>1. vaultTick' <= Len(Handled')
  <2>1. Len(Handled') >= Len(Handled) \/ vaultTick' = 0
    <3>1. CASE Recv /\ Head(inbox) \notin invalid
      BY <3>1, HandledNext
    <3>2. CASE UNCHANGED <<accepted, run>>
      BY <3>2 DEF Handled
    <3>3. CASE Restart
      BY <3>3 DEF Restart, Vault!Restart, Vault!Open
    <3> QED
      BY <3>1, <3>2, <3>3, PulseSteps DEF SendPulse, vault, PulsesKept
  <2>2. vaultTick' \in {0, vaultTick} \/ (RecordTick /\ Vault!CountTick)
    <3>1. CASE RecordTick
      BY <3>1 DEF RecordTick, Vault!CountTick, Vault!PushMarket, Vault!RecordSpikes,
         Vault!Flush, Vault!BeginFlush, Vault!InsertMarket, Vault!EmptyMarket,
         Vault!InsertSpikes, Vault!EmptySpikes
    <3>2. CASE Fails \/ CleanupThrows \/ Kill \/ Restart
      BY <3>2 DEF Fails, CleanupThrows, Kill, Restart, Vault!Fails, Vault!Crash, Vault!Restart,
         Vault!Open
    <3>3. CASE CloseVault
      BY <3>3 DEF CloseVault, Vault!Flush, Vault!BeginFlush, Vault!InsertMarket,
         Vault!EmptyMarket, Vault!InsertSpikes, Vault!EmptySpikes
    <3>4. CASE UNCHANGED vault
      BY <3>4 DEF vault
    <3> QED
      BY <3>1, <3>2, <3>3, <3>4 DEF Next, Loop, SendPulse, Recv, Features, StepLobe, Analyse,
         Route, PublishReadout, Cleanup, MuscleRecv, vars
  <2>3. CASE RecordTick /\ Vault!CountTick
    <3>1. vaultTick = Len(Handled) - 1 /\ vaultTick' = vaultTick + 1
      BY <2>3 DEF RecordTick, Vault!CountTick, Counters, Less, Statements
    <3>2. Handled' = Handled
      BY <2>3 DEF RecordTick, Vault!CountTick, Handled
    <3> QED
      BY <3>1, <3>2
  <2> QED
    BY <2>1, <2>2, <2>3 DEF HandledBound
<1>2. /\ Len(Handled') + Len(inbox') <= sent'
      /\ \A r \in Runs : Len(accepted'[r]) <= sent'
      /\ \A r \in Runs : r > run' => accepted'[r] = <<>>
  <2>1. CASE SendPulse
    <3>1. /\ UNCHANGED <<accepted, run>> /\ Handled' = Handled /\ sent' = sent + 1 /\ sent \in Nat
      BY <2>1 DEF SendPulse, Handled, vault, LoopTypeOK
    <3>2. Len(inbox') = Len(inbox) \/ Len(inbox') = Len(inbox) + 1
      BY <2>1, SMTT(40) DEF SendPulse, Publish, LoopTypeOK
    <3> QED
      BY <3>1, <3>2 DEF HandledBound
  <2>2. CASE Recv /\ Head(inbox) \notin invalid
    <3>1. /\ Len(Handled') = Len(Handled) + 1
          /\ \A r \in Runs : accepted'[r] = IF r = run THEN Handled' ELSE accepted[r]
      BY <2>2, HandledNext
    <3>2. Len(inbox') = Len(inbox) - 1 /\ UNCHANGED <<run, sent>> /\ sent \in Nat
      BY <2>2 DEF Recv, LoopTypeOK, vault, publisher
    <3> QED
      BY <3>1, <3>2, SMTT(40) DEF HandledBound
  <2>3. CASE /\ UNCHANGED <<sent, invalid, accepted, run>>
             /\ (Recv /\ inbox' = Tail(inbox)) \/ inbox' = <<>>
    <3>1. Len(inbox') <= Len(inbox) /\ Len(inbox') \in Nat
      <4>1. CASE inbox' = <<>>
        BY <4>1
      <4>2. CASE Recv /\ inbox' = Tail(inbox)
        BY <4>2, SMTT(40) DEF Recv, LoopTypeOK
      <4> QED
        BY <2>3, <4>1, <4>2
    <3>2. Handled' = Handled /\ sent \in Nat
      BY <2>3 DEF Handled, LoopTypeOK
    <3> QED
      BY <2>3, <3>1, <3>2 DEF HandledBound
  <2>4. CASE PulsesKept
    BY <2>4 DEF HandledBound, PulsesKept, Handled
  <2>5. CASE Restart /\ Handled' = <<>>
    <3>1. /\ run' > run /\ UNCHANGED <<sent, accepted>> /\ Len(inbox') = 0 /\ Len(Handled') = 0
      BY <2>5 DEF Restart, Start, Vault!Restart, publisher
    <3> QED
      BY <3>1 DEF HandledBound, LoopTypeOK, VaultTypeOK, Runs
  <2> QED
    BY <2>1, <2>2, <2>3, <2>4, <2>5, PulseSteps
<1> QED
  BY <1>1, <1>2 DEF HandledBound

(* What the steps of the vault are to the loop.                            *)
LEMMA VaultSteps ==
  ASSUME LoopTypeOK, VaultTypeOK, VaultPcs, LoopAndVault, [Next]_vars
  PROVE  \/ UNCHANGED <<vault, cut>>
         \/ /\ UNCHANGED <<accepted, run, cut>> /\ pc = "record" /\ ~closing
            /\ Vault!CountTick \/ Vault!PushMarket(current) \/ Vault!RecordSpikes
         \/ UNCHANGED <<accepted, run, cut, closing>> /\ Vault!Flush
         \/ UNCHANGED <<accepted, run>> /\ Vault!Fails /\ (~closing => cut' = vaultPc)
         \/ UNCHANGED <<accepted, run, cut>> /\ Vault!Crash
         \/ UNCHANGED accepted /\ Vault!Restart
<1>1. CASE RecordTick
  <2>1. UNCHANGED <<accepted, cut>> /\ pc = "record" /\ ~closing
    BY <1>1 DEF RecordTick, LoopAndVault, Statements
  <2>2. UNCHANGED <<run, closing>>
    BY <1>1 DEF RecordTick, Vault!CountTick, Vault!PushMarket, Vault!RecordSpikes,
       Vault!Flush, Vault!BeginFlush, Vault!InsertMarket, Vault!EmptyMarket,
       Vault!InsertSpikes, Vault!EmptySpikes
  <2> QED
    BY <1>1, <2>1, <2>2 DEF RecordTick
<1>2. CASE CloseVault
  <2>1. UNCHANGED <<run, closing>>
    BY <1>2 DEF CloseVault, Vault!Flush, Vault!BeginFlush, Vault!InsertMarket,
       Vault!EmptyMarket, Vault!InsertSpikes, Vault!EmptySpikes
  <2> QED
    BY <1>2, <2>1 DEF CloseVault, loop
<1>3. CASE Fails
  BY <1>3 DEF Fails, Vault!Fails
<1>4. CASE CleanupThrows
  BY <1>4 DEF CleanupThrows, Goto, LoopAndVault, Vault!Fails
<1>5. CASE Kill
  BY <1>5 DEF Kill, Vault!Crash
<1>6. CASE Restart
  BY <1>6 DEF Restart
<1>7. CASE Recv \/ Features \/ StepLobe \/ Analyse \/ Route \/ PublishReadout
  BY <1>7 DEF Recv, Features, StepLobe, Analyse, Route, PublishReadout
<1>8. CASE SendPulse \/ Cleanup \/ MuscleRecv \/ UNCHANGED vars
  BY <1>8 DEF SendPulse, Cleanup, MuscleRecv, vars, loop
<1> QED
  BY <1>1, <1>2, <1>3, <1>4, <1>5, <1>6, <1>7, <1>8 DEF Next, Loop

(* What a run has handled stays as it is.                                  *)
LEMMA JoinsKept ==
  ASSUME LoopTypeOK, VaultTypeOK, [Next]_vars
  PROVE  \A r \in Runs, t \in Ticks, p \in Pulses :
           Joins(r, t, p) => t \in 1..Len(accepted'[r]) /\ accepted'[r][t] = p
<1> SUFFICES ASSUME NEW r \in Runs, NEW t \in Ticks, NEW p \in Pulses, Joins(r, t, p)
             PROVE  t \in 1..Len(accepted'[r]) /\ accepted'[r][t] = p
  OBVIOUS
<1>1. CASE Recv /\ Head(inbox) \notin invalid
  <2>1. CASE r = run
    <3>1. accepted[r] = Handled /\ accepted'[r] = Handled'
      BY <1>1, <2>1 DEF Handled, Recv, vault
    <3>2. t \in 1..Len(Handled) /\ Len(Handled) \in Nat
      BY <3>1, HandledFacts DEF Joins
    <3>3. t \in 1..Len(Handled') /\ Handled'[t] = Handled[t]
      BY <1>1, <3>2, HandledNext
    <3> QED
      BY <3>1, <3>3 DEF Joins
  <2>2. CASE r # run
    BY <1>1, <2>2, HandledNext DEF Joins
  <2> QED
    BY <2>1, <2>2
<1>2. CASE UNCHANGED accepted
  BY <1>2 DEF Joins
<1>3. UNCHANGED accepted \/ (Recv /\ Head(inbox) \notin invalid)
  BY DEF Next, Loop, SendPulse, Recv, Features, StepLobe, RecordTick, Analyse, Route,
     PublishReadout, Fails, CloseVault, Cleanup, CleanupThrows, Kill, Restart, MuscleRecv,
     vars, loop
<1> QED
  BY <1>1, <1>2, <1>3

LEMMA RowFacts ==
  ASSUME VaultTypeOK, NEW t \in Ticks, marketEvents[t] # NoRow
  PROVE  marketEvents[t].run \in Runs /\ marketEvents[t].pulse \in Pulses
<1>1. marketEvents[t] \in Rows
  BY DEF VaultTypeOK
<1> QED
  BY <1>1 DEF Rows

LEMMA StepRowsJoin ==
  ASSUME VaultTypeOK, VaultPcs, LoopTypeOK, LoopAndVault, Counters, RowsJoin, VaultTypeOK',
         [Next]_vars
  PROVE  RowsJoin'
<1> USE VaultFacts
<1> DEFINE JoinsNext(r, t, p) == t \in 1..Len(accepted'[r]) /\ accepted'[r][t] = p
<1>1. ASSUME NEW t \in Ticks, marketEvents[t] # NoRow
      PROVE  JoinsNext(marketEvents[t].run, t, marketEvents[t].pulse)
  BY <1>1, RowFacts, JoinsKept DEF RowsJoin
<1>2. ASSUME NEW i \in 1..Len(marketBuffer)
      PROVE  JoinsNext(run, marketBuffer[i].tick, marketBuffer[i].pulse)
  <2>1. run \in Runs
    BY DEF VaultTypeOK
  <2> QED
    BY <2>1, <1>2, BufferedRow, JoinsKept DEF RowsJoin
<1>3. ASSUME NEW t \in Ticks, marketEvents'[t] # NoRow
      PROVE  JoinsNext(marketEvents'[t].run, t, marketEvents'[t].pulse)
  <2>1. CASE UNCHANGED marketEvents
    BY <1>1, <1>3, <2>1
  <2>2. CASE Vault!InsertMarket
    <3>1. CASE \E i \in 1..Len(marketBuffer) : marketBuffer[i].tick = t
      <4>1. PICK i \in 1..Len(marketBuffer) :
              /\ marketBuffer[i].tick = t
              /\ marketEvents'[t] = [run |-> run, pulse |-> marketBuffer[i].pulse]
        BY <2>2, <3>1, InsertedRows, Zenon
      <4>2. marketEvents'[t].run = run /\ marketEvents'[t].pulse = marketBuffer[i].pulse
        BY <4>1
      <4> QED
        BY <1>2, <4>1, <4>2
    <3>2. CASE ~ \E i \in 1..Len(marketBuffer) : marketBuffer[i].tick = t
      <4>1. marketEvents'[t] = marketEvents[t]
        BY <2>2, <3>2, InsertedRows, Zenon
      <4> QED
        BY <1>1, <1>3, <4>1
    <3> QED
      BY <3>1, <3>2
  <2>3. UNCHANGED marketEvents \/ Vault!InsertMarket
    BY VaultSteps DEF vault, Vault!CountTick, Vault!PushMarket, Vault!RecordSpikes, Vault!Flush,
       Vault!BeginFlush, Vault!EmptyMarket, Vault!InsertSpikes, Vault!EmptySpikes, Vault!Fails,
       Vault!Crash, Vault!Restart, Vault!tables
  <2> QED
    BY <2>1, <2>2, <2>3
<1>4. ASSUME NEW i \in 1..Len(marketBuffer')
      PROVE  JoinsNext(run', marketBuffer'[i].tick, marketBuffer'[i].pulse)
  <2>1. CASE UNCHANGED <<run, marketBuffer>>
    BY <1>2, <1>4, <2>1
  <2>2. CASE marketBuffer' = <<>>
    BY <1>4, <2>2
  <2>3. CASE UNCHANGED <<accepted, run>> /\ pc = "record" /\ Vault!PushMarket(current)
    <3>1. /\ Len(marketBuffer') = Len(marketBuffer) + 1
          /\ \A j \in 1..Len(marketBuffer) : marketBuffer'[j] = marketBuffer[j]
          /\ marketBuffer'[Len(marketBuffer) + 1] = [tick |-> vaultTick, pulse |-> current]
          /\ Len(marketBuffer) \in Nat
      BY <2>3, VaultNumbers DEF Vault!PushMarket, VaultTypeOK
    <3>2. vaultTick = Len(Handled) /\ Len(Handled) > 0 /\ current = Handled[Len(Handled)]
      BY <2>3 DEF Counters, Statements, Vault!PushMarket
    <3>3. Handled = accepted'[run'] /\ Len(Handled) \in Nat
      BY <2>3, HandledFacts DEF Handled
    <3>4. CASE i = Len(marketBuffer) + 1
      BY <3>1, <3>2, <3>3, <3>4
    <3>5. CASE i \in 1..Len(marketBuffer)
      BY <1>2, <2>3, <3>1, <3>5
    <3> QED
      BY <3>1, <3>4, <3>5
  <2>4. \/ UNCHANGED <<run, marketBuffer>>
        \/ marketBuffer' = <<>>
        \/ UNCHANGED <<accepted, run>> /\ pc = "record" /\ Vault!PushMarket(current)
    BY VaultSteps DEF vault, Vault!CountTick, Vault!RecordSpikes, Vault!Flush,
       Vault!BeginFlush, Vault!InsertMarket, Vault!EmptyMarket, Vault!InsertSpikes,
       Vault!EmptySpikes, Vault!Fails, Vault!Crash, Vault!Restart, Vault!Open, Vault!buffers
  <2> QED
    BY <2>1, <2>2, <2>3, <2>4
<1> QED
  BY <1>3, <1>4 DEF RowsJoin, Joins

LEMMA AppendLast ==
  ASSUME NEW S, NEW p \in Seq(S), NEW q \in Seq(S), NEW m \in S
  PROVE  p \o Append(q, m) = Append(p \o q, m)
<1>1. <<m>> \in Seq(S) /\ p \o q \in Seq(S)
  BY ConcatProperties
<1> QED
  BY <1>1, AppendIsConcat, ConcatAssociative

LEMMA MoveHead ==
  ASSUME NEW S, NEW p \in Seq(S), NEW q \in Seq(S), q # <<>>
  PROVE  Append(p, Head(q)) \o Tail(q) = p \o q
<1> DEFINE h == <<Head(q)>>
           t == Tail(q)
<1>1. Head(q) \in S /\ Head(q) = q[1] /\ h \in Seq(S) /\ Len(h) = 1 /\ h[1] = Head(q)
  BY HeadTailProperties
<1>2. /\ t \in Seq(S) /\ Len(t) = Len(q) - 1
      /\ \A i \in 1..Len(t) : t[i] = q[i + 1]
  BY HeadTailProperties
<1>3. Append(p, Head(q)) = p \o h
  BY <1>1, AppendIsConcat
<1> HIDE DEF h, t
<1>4. h \o t = q
  <2>1. /\ h \o t \in Seq(S)
        /\ Len(h \o t) = 1 + Len(t)
        /\ \A i \in 1..1 + Len(t) : (h \o t)[i] = IF i <= 1 THEN h[i] ELSE t[i - 1]
    <3>1. /\ h \o t \in Seq(S) /\ Len(h \o t) = Len(h) + Len(t)
          /\ \A i \in 1..Len(h) + Len(t) :
               (h \o t)[i] = IF i <= Len(h) THEN h[i] ELSE t[i - Len(h)]
      <4>1. h \in Seq(S) /\ t \in Seq(S)
        BY <1>1, <1>2
      <4> QED
        BY <4>1, ConcatProperties
    <3> QED
      BY <1>1, <3>1
  <2>2. Len(q) \in Nat /\ Len(h \o t) = Len(q)
    BY <1>2, <2>1
  <2>3. ASSUME NEW i \in 1..Len(q) PROVE (h \o t)[i] = q[i]
    <3>1. CASE i = 1
      BY <1>1, <2>1, <2>2, <3>1
    <3>2. CASE i # 1
      BY <1>2, <2>1, <2>2, <3>2
    <3> QED
      BY <3>1, <3>2
  <2> QED
    BY <2>1, <2>2, <2>3, SeqEqual
<1> QED
  BY <1>1, <1>2, <1>3, <1>4, ConcatAssociative DEF t

(* The stream grows by the readout published and by nothing else: what the *)
(* muscle takes from its queue it has received.                            *)
LEMMA StreamStep ==
  ASSUME LoopTypeOK, VaultTypeOK, [Next]_vars
  PROVE  \/ Stream' = Stream
         \/ /\ PublishReadout
            /\ Len(Stream') = Len(Stream) + 1
            /\ \A k \in 1..Len(Stream) : Stream'[k] = Stream[k]
            /\ Stream'[Len(Stream) + 1] = Readout
<1>1. CASE PublishReadout
  <2>1. received' = received /\ (outbox' = Append(outbox, Readout) \/ outbox' = outbox)
    BY <1>1 DEF PublishReadout, Publish
  <2>2. CASE outbox' = outbox
    BY <2>1, <2>2 DEF Stream
  <2>3. CASE outbox' = Append(outbox, Readout)
    <3>1. Readout \in Messages
      BY BrainFacts DEF Readout, Messages, VaultTypeOK, LoopTypeOK
    <3>2. Stream' = Append(Stream, Readout)
      BY <2>1, <2>3, <3>1, AppendLast DEF Stream, LoopTypeOK
    <3> QED
      BY <1>1, <3>1, <3>2, HandledFacts, AppendProperties
  <2> QED
    BY <2>1, <2>2, <2>3
<1>2. CASE MuscleRecv
  BY <1>2, MoveHead DEF MuscleRecv, Stream, LoopTypeOK
<1>3. UNCHANGED muscle \/ PublishReadout \/ MuscleRecv
  BY DEF Next, Loop, SendPulse, Recv, Features, StepLobe, RecordTick, Analyse, Route, Fails,
     CloseVault, Cleanup, CleanupThrows, Kill, Restart, vars
<1> QED
  BY <1>1, <1>2, <1>3 DEF muscle, Stream

LEMMA PublishedReadout ==
  ASSUME LoopTypeOK, VaultTypeOK, Counters, PublishReadout
  PROVE  /\ Readout.run = run /\ Readout.tick = Len(Handled) /\ Readout.pulse = current
         /\ Len(Handled) > 0 /\ current = Handled[Len(Handled)]
         /\ UNCHANGED <<accepted, run>>
<1>1. lobeTick[1] = Len(Handled)
  BY BrainFacts DEF PublishReadout, Goto, Counters, Statements, Less
<1> QED
  BY <1>1 DEF PublishReadout, Goto, Counters, Statements, Readout, vault

LEMMA StepStreamJoins ==
  ASSUME VaultTypeOK, LoopTypeOK, Counters, HandledBound, StreamJoins, VaultTypeOK', [Next]_vars
  PROVE  StreamJoins'
<1> DEFINE Good(m) == /\ m.run <= run'
                      /\ m.tick \in 1..Len(accepted'[m.run]) /\ accepted'[m.run][m.tick] = m.pulse
<1>1. ASSUME NEW k \in 1..Len(Stream) PROVE Good(Stream[k])
  <2>1. Stream[k].run \in Runs /\ Stream[k].tick \in Nat
    BY HandledFacts DEF Messages
  <2>2. Joins(Stream[k].run, Stream[k].tick, Stream[k].pulse) /\ Stream[k].run <= run
    BY DEF StreamJoins
  <2>3. Len(accepted[Stream[k].run]) \in Nat /\ Len(accepted[Stream[k].run]) <= MaxPulses
    BY <2>1, HandledFacts, VaultFacts DEF HandledBound, LoopTypeOK
  <2>4. Stream[k].tick \in Ticks /\ Stream[k].pulse \in Pulses
    <3>1. Stream[k].tick \in Ticks
      BY <2>2, <2>3, VaultFacts DEF Joins, Ticks
    <3>2. accepted[Stream[k].run] \in Seq(Pulses)
      BY <2>1, HandledFacts
    <3> QED
      BY <2>2, <3>1, <3>2, ElementOfSeq DEF Joins
  <2>5. run <= run'
    BY PulseSteps, VaultNumbers DEF SendPulse, Recv, PulsesKept, Restart, Vault!Restart, vault
  <2>6. Stream[k].run <= run'
    BY <2>1, <2>2, <2>5 DEF VaultTypeOK, Runs
  <2> QED
    BY <2>1, <2>2, <2>4, <2>6, JoinsKept
<1>2. CASE Stream' = Stream
  BY <1>1, <1>2 DEF StreamJoins, Joins
<1>3. CASE /\ PublishReadout
           /\ Len(Stream') = Len(Stream) + 1
           /\ \A k \in 1..Len(Stream) : Stream'[k] = Stream[k]
           /\ Stream'[Len(Stream) + 1] = Readout
  <2>1. Good(Readout)
    BY <1>3, PublishedReadout, HandledFacts, VaultNumbers DEF Handled
  <2>2. ASSUME NEW k \in 1..Len(Stream') PROVE Good(Stream'[k])
    <3>1. k \in 1..Len(Stream) \/ k = Len(Stream) + 1
      BY <1>3, HandledFacts
    <3> QED
      BY <1>1, <1>3, <2>1, <3>1
  <2> QED
    BY <2>2 DEF StreamJoins, Joins
<1> QED
  BY <1>2, <1>3, StreamStep

LEMMA StepStreamInOrder ==
  ASSUME VaultTypeOK, LoopTypeOK, LoopAndVault, Counters, HandledBound, StreamJoins,
         StreamInOrder, [Next]_vars
  PROVE  StreamInOrder'
<1> USE HandledFacts
<1>1. \A k \in 1..Len(Stream) : /\ Stream[k].run \in Nat /\ Stream[k].tick \in Nat
                                /\ Stream[k].run <= run
                                /\ Stream[k].run = run => Stream[k].tick <= Len(Handled)
  BY DEF StreamJoins, Joins, Handled, Messages, Runs
<1>2. CASE /\ PublishReadout
           /\ Len(Stream') = Len(Stream) + 1
           /\ \A k \in 1..Len(Stream) : Stream'[k] = Stream[k]
           /\ Stream'[Len(Stream) + 1] = Readout
  <2>1. pc = "publish" /\ pc' = "recv"
    BY <1>2 DEF PublishReadout, Goto
  <2>2. \A k \in 1..Len(Stream) : Before(Stream[k], Readout)
    BY <1>1, <1>2, <2>1, PublishedReadout, VaultNumbers DEF StreamInOrder, Statements, Before
  <2>3. \A k \in 1..Len(Stream') : k \in 1..Len(Stream) \/ k = Len(Stream) + 1
    BY <1>2
  <2> QED
    BY <1>2, <2>1, <2>2, <2>3 DEF StreamInOrder
<1>3. CASE Stream' = Stream
  <2>1. CASE Recv
    <3>1. CASE Head(inbox) \in invalid
      BY <1>3, <2>1, <3>1 DEF StreamInOrder, Recv, vault, Handled
    <3>2. CASE Head(inbox) \notin invalid
      BY <1>1, <1>3, <2>1, <3>2, HandledNext DEF StreamInOrder, Recv, vault
    <3> QED
      BY <3>1, <3>2
  <2>2. CASE UNCHANGED <<accepted, run>>
    <3>1. Handled' = Handled
      BY <2>2 DEF Handled
    <3>2. pc' \in Statements \ {"recv"} => pc \in Statements \ {"recv"} \/ Recv
      BY DEF Next, Loop, SendPulse, Features, StepLobe, RecordTick, Analyse, Route,
         PublishReadout, Fails, CloseVault, Cleanup, CleanupThrows, Kill, Restart, Start,
         MuscleRecv, Goto, vars, loop, Statements
    <3> QED
      BY <1>3, <2>1, <2>2, <3>1, <3>2 DEF StreamInOrder
  <2>3. CASE Restart
    BY <1>3, <2>3 DEF StreamInOrder, Restart, Start, Statements
  <2> QED
    BY <2>1, <2>2, <2>3, PulseSteps DEF SendPulse, PulsesKept, vault
<1> QED
  BY <1>2, <1>3, StreamStep

(* What an INSERT has just written is in the table.                        *)
LEMMA SavedRows ==
  ASSUME VaultInv, vaultPc = "emptyMarket", NEW i \in 1..Len(marketBuffer)
  PROVE  marketEvents[marketBuffer[i].tick].run = run
<1>1. PICK k \in 0..MaxPulses, r \in Runs, p \in 0..MaxPulses : Shape(k, r, p)
  BY DEF VaultInv, VaultShape
<1>2. r = run /\ Saved(k, p)
  BY <1>1 DEF Shape, Foreign, Unsaved
<1>3. marketBuffer[i].tick \in Ticks /\ marketBuffer[i].tick <= k
  BY <1>2, BufferedRow DEF VaultInv, Saved
<1> QED
  BY <1>1, <1>2, <1>3 DEF Shape, RowsOf

LEMMA StepRowsKept ==
  ASSUME VaultInv, LoopTypeOK, LoopAndVault, RowsKept, [Next]_vars
  PROVE  RowsKept'
<1> USE DEF RowsKept, Interrupted, Kept
<1> DEFINE InBuffer(t) == \E i \in 1..Len(marketBuffer) : marketBuffer[i].tick = t
<1>1. CASE UNCHANGED <<vault, cut>>
  BY <1>1 DEF vault
<1>2. CASE ~closing /\ Vault!CountTick
  <2>1. /\ vaultPc = "idle" /\ vaultPc' = "counted" /\ ~closing' /\ vaultTick' = vaultTick + 1
        /\ UNCHANGED <<run, marketBuffer, marketEvents>> /\ vaultTick \in Nat
    BY <1>2, VaultNumbers DEF Vault!CountTick, Vault!buffers, Vault!tables, VaultInv
  <2>2. \A t \in 1..vaultTick' : t \in 1..vaultTick \/ t = vaultTick'
    BY <2>1
  <2> QED
    BY <1>2, <2>1, <2>2
<1>3. CASE ~closing /\ Vault!PushMarket(current)
  <2>1. /\ vaultPc = "counted" /\ vaultPc' = "pushed" /\ UNCHANGED <<run, vaultTick, marketEvents>>
        /\ Len(marketBuffer') = Len(marketBuffer) + 1
        /\ \A i \in 1..Len(marketBuffer) : marketBuffer'[i] = marketBuffer[i]
        /\ marketBuffer'[Len(marketBuffer) + 1].tick = vaultTick
        /\ Len(marketBuffer) \in Nat
    BY <1>3, VaultNumbers DEF Vault!PushMarket, Vault!tables, VaultInv, VaultTypeOK
  <2>2. \A t \in 1..vaultTick : InBuffer(t) => InBuffer(t)'
    <3> SUFFICES ASSUME NEW t \in 1..vaultTick, NEW i \in 1..Len(marketBuffer),
                        marketBuffer[i].tick = t
                 PROVE  \E j \in 1..Len(marketBuffer') : marketBuffer'[j].tick = t
      OBVIOUS
    <3>1. i \in 1..Len(marketBuffer') /\ marketBuffer'[i].tick = t
      BY <2>1
    <3> QED
      BY <3>1
  <2>3. InBuffer(vaultTick)'
    <3>1. Len(marketBuffer) + 1 \in 1..Len(marketBuffer')
      BY <2>1
    <3> QED
      BY <2>1, <3>1
  <2>4. \A t \in 1..vaultTick : t # vaultTick => Kept(t)
    BY <2>1
  <2> HIDE DEF InBuffer
  <2>5. \A t \in 1..vaultTick : InBuffer(t)' \/ marketEvents'[t].run = run'
    BY <2>1, <2>2, <2>3, <2>4 DEF InBuffer
  <2> QED
    BY <2>1, <2>5 DEF InBuffer
<1>4. CASE ~closing /\ Vault!RecordSpikes
  <2>1. /\ vaultPc = "pushed" /\ vaultPc' \in {"flush", "idle"} /\ ~closing'
        /\ UNCHANGED <<run, vaultTick, marketBuffer, marketEvents>>
    BY <1>4 DEF Vault!RecordSpikes, Vault!tables
  <2> QED
    BY <1>4, <2>1
<1>5. CASE UNCHANGED <<run, cut, closing>> /\ Vault!Flush
  <2>1. /\ vaultPc \in FlushPcs /\ vaultPc' \in FlushPcs \cup {"idle", "closed"}
        /\ UNCHANGED vaultTick
    BY <1>5 DEF FlushPcs, Vault!Flush, Vault!BeginFlush, Vault!InsertMarket, Vault!EmptyMarket,
       Vault!InsertSpikes, Vault!EmptySpikes, Vault!FlushReturns
  <2>2. \A t \in 1..vaultTick : Kept(t) \/ (t = vaultTick /\ Interrupted' = "counted")
    BY <1>5, <2>1 DEF FlushPcs
  <2>3. vaultPc' = "closed" => marketBuffer' = <<>>
    BY <1>5 DEF VaultInv, VaultPcs, Vault!Flush, Vault!BeginFlush, Vault!InsertMarket,
       Vault!EmptyMarket, Vault!InsertSpikes, Vault!EmptySpikes, Vault!FlushReturns,
       Vault!buffers
  <2>4. ASSUME NEW t \in 1..vaultTick, Kept(t) PROVE InBuffer(t)' \/ marketEvents'[t].run = run
    <3>1. CASE UNCHANGED <<marketBuffer, marketEvents>>
      BY <2>4, <3>1
    <3>2. CASE Vault!InsertMarket
      <4>1. t \in Ticks /\ UNCHANGED marketBuffer
        BY <3>2, VaultNumbers, VaultFacts DEF VaultInv, Ticks, Vault!InsertMarket, Vault!buffers
      <4>2. CASE InBuffer(t)
        BY <4>1, <4>2
      <4>3. CASE ~InBuffer(t)
        <5>1. marketEvents'[t] = marketEvents[t]
          BY <3>2, <4>1, <4>3, InsertedRows, Zenon DEF VaultInv
        <5> QED
          BY <2>4, <4>3, <5>1
      <4> QED
        BY <4>2, <4>3
    <3>3. CASE Vault!EmptyMarket
      BY <2>4, <3>3, SavedRows DEF Vault!EmptyMarket, Vault!tables
    <3> QED
      BY <1>5, <3>1, <3>2, <3>3 DEF Vault!Flush, Vault!BeginFlush, Vault!InsertSpikes,
         Vault!EmptySpikes, Vault!buffers, Vault!tables
  <2>5. \A t \in 1..vaultTick : Kept(t)' \/ (t = vaultTick /\ Interrupted' = "counted")
    BY <1>5, <2>2, <2>4
  <2> QED
    BY <2>1, <2>3, <2>5
<1>6. CASE Vault!Fails /\ (~closing => cut' = vaultPc)
  BY <1>6 DEF Vault!Fails, Vault!Raise, Vault!buffers, Vault!tables
<1>7. CASE Vault!Crash
  BY <1>7 DEF Vault!Crash
<1>8. CASE Vault!Restart
  BY <1>8 DEF Vault!Restart, Vault!Open
<1> QED
  BY <1>1, <1>2, <1>3, <1>4, <1>5, <1>6, <1>7, <1>8, VaultSteps DEF VaultInv

(* The spikes an INSERT has just written are in the table.                 *)
LEMMA StoredSpikes ==
  ASSUME VaultTypeOK, Vault!InsertSpikes
  PROVE  /\ \A t \in Ticks : (\E i \in 1..Len(spikeBuffer) : spikeBuffer[i] = t) =>
              spikeEvents'[<<run, t>>] > 0
         /\ \A rt \in Runs \X Ticks : spikeEvents[rt] > 0 => spikeEvents'[rt] > 0
<1>1. \A rt \in Runs \X Ticks :
        /\ spikeEvents[rt] \in Nat
        /\ spikeEvents'[rt] =
             IF rt[1] = run /\ \E i \in 1..Len(spikeBuffer) : spikeBuffer[i] = rt[2]
               THEN spikeEvents[rt] + 1 ELSE spikeEvents[rt]
  BY VaultFacts DEF Vault!InsertSpikes, VaultTypeOK
<1>2. \A t \in Ticks : <<run, t>> \in Runs \X Ticks /\ <<run, t>>[1] = run /\ <<run, t>>[2] = t
  BY DEF VaultTypeOK
<1>3. ASSUME NEW t \in Ticks, \E i \in 1..Len(spikeBuffer) : spikeBuffer[i] = t
      PROVE  spikeEvents'[<<run, t>>] > 0
  <2>1. PICK rt \in Runs \X Ticks : rt = <<run, t>> /\ rt[1] = run /\ rt[2] = t
    BY <1>2
  <2> QED
    BY <1>1, <1>3, <2>1
<1>4. ASSUME NEW rt \in Runs \X Ticks, spikeEvents[rt] > 0 PROVE spikeEvents'[rt] > 0
  BY <1>1, <1>4
<1> QED
  BY <1>3, <1>4

LEMMA StepSpikesKept ==
  ASSUME VaultInv, VaultPcs', LoopTypeOK, LoopAndVault, SpikesKept, [Next]_vars
  PROVE  SpikesKept'
<1> USE DEF SpikesKept, SpikesStored
<1> DEFINE InBuffer(t) == \E i \in 1..Len(spikeBuffer) : spikeBuffer[i] = t
<1>0. \A rt \in spiked : rt \in Runs \X Ticks /\ rt[1] \in Runs /\ rt[2] \in Ticks
  BY DEF VaultInv, VaultTypeOK
<1>1. CASE UNCHANGED <<vault, cut>>
  BY <1>1 DEF vault
<1>2. CASE ~closing /\ (Vault!CountTick \/ Vault!PushMarket(current))
  <2>1. /\ vaultPc \in {"idle", "counted"} /\ vaultPc' \in {"counted", "pushed"} /\ ~closing'
        /\ UNCHANGED <<run, spikeBuffer, spikeEvents, spiked>>
        /\ marketBuffer' = <<>> => marketBuffer = <<>>
    BY <1>2 DEF Vault!CountTick, Vault!PushMarket, Vault!buffers, Vault!tables, VaultPcs
  <2> QED
    BY <1>2, <2>1
<1>3. CASE ~closing /\ Vault!RecordSpikes
  <2>1. /\ vaultPc = "pushed" /\ vaultPc' \in {"flush", "idle"} /\ ~closing'
        /\ UNCHANGED <<run, marketBuffer, spikeEvents>>
        /\ marketBuffer # <<>>
    BY <1>3 DEF Vault!RecordSpikes, Vault!tables, VaultInv, VaultPcs
  <2>2. CASE UNCHANGED <<spikeBuffer, spiked>>
    BY <2>1, <2>2
  <2>3. CASE spikeBuffer' = Append(spikeBuffer, vaultTick) /\ spiked' = spiked \cup {<<run, vaultTick>>}
    <3>1. /\ Len(spikeBuffer') = Len(spikeBuffer) + 1 /\ Len(spikeBuffer) \in Nat
          /\ \A i \in 1..Len(spikeBuffer) : spikeBuffer'[i] = spikeBuffer[i]
          /\ spikeBuffer'[Len(spikeBuffer) + 1] = vaultTick
      BY <2>3 DEF VaultInv, VaultTypeOK
    <3>2. ASSUME NEW t, InBuffer(t) PROVE \E j \in 1..Len(spikeBuffer') : spikeBuffer'[j] = t
      <4>1. PICK i \in 1..Len(spikeBuffer) : spikeBuffer[i] = t
        BY <3>2
      <4>2. i \in 1..Len(spikeBuffer') /\ spikeBuffer'[i] = t
        BY <3>1, <4>1
      <4> QED
        BY <4>2
    <3>3. \E j \in 1..Len(spikeBuffer') : spikeBuffer'[j] = vaultTick
      <4>1. Len(spikeBuffer) + 1 \in 1..Len(spikeBuffer')
        BY <3>1
      <4> QED
        BY <3>1, <4>1
    <3>4. ASSUME NEW rt \in spiked'
          PROVE  /\ rt[1] <= run'
                 /\ rt[1] = run' => \/ \E j \in 1..Len(spikeBuffer') : spikeBuffer'[j] = rt[2]
                                    \/ spikeEvents'[rt] > 0
      <4>1. CASE rt \in spiked
        BY <2>1, <3>2, <4>1
      <4>2. CASE rt = <<run, vaultTick>>
        BY <2>1, <3>3, <4>2, VaultNumbers DEF VaultInv
      <4> QED
        BY <2>3, <4>1, <4>2
    <3> QED
      BY <2>1, <3>4
  <2> QED
    BY <1>3, <2>2, <2>3 DEF Vault!RecordSpikes
<1>4. CASE UNCHANGED <<run, cut, closing>> /\ Vault!Flush
  <2>1. vaultPc # "dead" /\ vaultPc' # "dead" /\ spiked' = spiked
    BY <1>4 DEF Vault!Flush, Vault!BeginFlush, Vault!InsertMarket, Vault!EmptyMarket,
       Vault!InsertSpikes, Vault!EmptySpikes, Vault!FlushReturns
  <2>2. CASE Vault!BeginFlush
    BY <1>4, <2>1, <2>2 DEF Vault!BeginFlush, Vault!FlushReturns, Vault!buffers, Vault!tables
  <2>3. CASE Vault!InsertMarket
    <3>1. marketBuffer # <<>> /\ vaultPc' = "emptyMarket" /\ UNCHANGED <<marketBuffer, spikeBuffer, spikeEvents>>
      BY <2>3 DEF Vault!InsertMarket, Vault!buffers, VaultInv, VaultPcs
    <3> QED
      BY <1>4, <2>1, <3>1
  <2>4. CASE Vault!EmptyMarket
    BY <1>4, <2>1, <2>4 DEF Vault!EmptyMarket, Vault!FlushReturns, Vault!tables
  <2>5. CASE Vault!InsertSpikes
    <3>1. vaultPc' = "emptySpikes" /\ UNCHANGED <<marketBuffer, spikeBuffer>>
      BY <2>5 DEF Vault!InsertSpikes, Vault!buffers
    <3>2. \A i \in 1..Len(spikeBuffer) : spikeEvents'[<<run, spikeBuffer[i]>>] > 0
      BY <2>5, StoredSpikes, VaultNumbers DEF VaultInv
    <3>3. \A rt \in spiked : rt[1] = run => InBuffer(rt[2]) \/ spikeEvents'[rt] > 0
      BY <1>0, <2>1, <2>5, StoredSpikes DEF VaultInv
    <3> QED
      BY <1>4, <2>1, <3>1, <3>2, <3>3
  <2>6. CASE Vault!EmptySpikes
    <3>1. /\ vaultPc = "emptySpikes" /\ spikeBuffer' = <<>> /\ Len(spikeBuffer') = 0
          /\ vaultPc' \in {"idle", "closed"} /\ UNCHANGED <<marketBuffer, spikeEvents>>
      BY <2>6 DEF Vault!EmptySpikes, Vault!FlushReturns, Vault!tables
    <3>2. \A rt \in spiked : rt[1] = run => spikeEvents[rt] > 0
      <4> SUFFICES ASSUME NEW rt \in spiked, rt[1] = run PROVE spikeEvents[rt] > 0
        OBVIOUS
      <4>1. CASE InBuffer(rt[2])
        <5>1. PICK i \in 1..Len(spikeBuffer) : spikeBuffer[i] = rt[2]
          BY <4>1
        <5>2. rt = <<run, spikeBuffer[i]>>
          BY <1>0, <5>1
        <5> QED
          BY <3>1, <5>2
      <4> QED
        BY <2>1, <4>1
    <3> QED
      BY <1>4, <2>1, <3>1, <3>2
  <2> QED
    BY <1>4, <2>2, <2>3, <2>4, <2>5, <2>6 DEF Vault!Flush
<1>5. CASE Vault!Fails /\ (~closing => cut' = vaultPc)
  BY <1>5 DEF Vault!Fails, Vault!Raise, Vault!buffers, Vault!tables
<1>6. CASE Vault!Crash
  BY <1>6 DEF Vault!Crash
<1>7. CASE Vault!Restart
  <2>1. /\ run' = run + 1 /\ UNCHANGED <<spiked, spikeEvents>> /\ vaultPc' = "idle"
        /\ spikeBuffer' = <<>>
    BY <1>7 DEF Vault!Restart, Vault!Open, Vault!tables
  <2>2. \A rt \in spiked : rt[1] <= run /\ rt[1] \in Nat /\ run \in Nat
    BY <1>0, VaultNumbers DEF Runs, VaultInv
  <2>3. \A rt \in spiked : rt[1] < run'
    BY <2>1, <2>2
  <2>4. \A rt \in spiked' : rt[1] <= run' /\ rt[1] # run'
    BY <2>1, <2>2, <2>3
  <2> QED
    BY <2>1, <2>4
<1> QED
  BY <1>1, <1>2, <1>3, <1>4, <1>5, <1>6, <1>7, VaultSteps DEF VaultInv

(* Every step of the loop, the publisher and the muscle keeps BrainInv.    *)
LEMMA StepBrain == BrainInv /\ [Next]_vars => BrainInv'
<1> SUFFICES ASSUME BrainInv, [Next]_vars PROVE BrainInv'
  OBVIOUS
<1> USE DEF BrainInv
<1>1. VaultTypeOK /\ VaultPcs
  BY DEF VaultInv
<1>2. [Vault!Next]_vault
  BY <1>1, VaultStep
<1>3. VaultInv' /\ VaultTypeOK' /\ VaultPcs'
  BY <1>2, StepVault DEF VaultInv
<1>4. LoopTypeOK' /\ LoopAndVault'
  BY <1>1, TypeLoop, StepLoopAndVault
<1>5. Counters' /\ PulsesInOrder' /\ HandledBound'
  BY <1>1, <1>3, <1>4, StepCounters, StepPulses, StepHandledBound
<1>6. RowsJoin' /\ StreamJoins' /\ StreamInOrder'
  BY <1>1, <1>3, StepRowsJoin, StepStreamJoins, StepStreamInOrder
<1>7. RowsKept' /\ SpikesKept'
  BY <1>3, StepRowsKept, StepSpikesKept
<1> QED
  BY <1>3, <1>4, <1>5, <1>6, <1>7

LEMMA BrainInvariant == Spec => []BrainInv
  BY InitBrain, StepBrain, PTL DEF Spec

-----------------------------------------------------------------------------
(* The loop drives its vault as VaultRecorder allows and in no other way:  *)
(* record_tick!, the exceptions, the closing and the restarts of           *)
(* spike_helm.jl are steps of the vault, and nothing else touches it.      *)
THEOREM LoopDrivesVault == Spec => Vault!Spec
<1>1. Init => Vault!Init
  BY DEF Init
<1>2. BrainInv /\ [Next]_vars => [Vault!Next]_(Vault!vars)
  <2> SUFFICES ASSUME BrainInv, [Next]_vars PROVE [Vault!Next]_(Vault!vars)
    OBVIOUS
  <2>1. [Vault!Next]_vault
    BY VaultStep DEF BrainInv, VaultInv
  <2> QED
    BY <2>1 DEF Vault!vars, vault
<1> QED
  BY <1>1, <1>2, BrainInvariant, PTL DEF Spec, Vault!Spec

(* The vault's tables hold one run's first ticks and their spikes once,    *)
(* however the loop ends and is started again.                             *)
THEOREM OneRunIsPersisted == Spec => []OneRunPersisted
<1>1. BrainInv => OneRunPersisted
  BY VaultInvImplies DEF BrainInv, OneRunPersisted
<1> QED
  BY <1>1, BrainInvariant, PTL

(* Between two pulses every counter of the loop, of each lobe, of the      *)
(* vault and of NERO stands at the number of pulses handled.               *)
THEOREM CountersStayTogether == Spec => []CountersAgree
<1>1. BrainInv => CountersAgree
  <2> SUFFICES ASSUME BrainInv, pc = "recv"
               PROVE  /\ tick = Len(accepted[run])
                      /\ features = tick
                      /\ \A l \in Lobe : lobeTick[l] = tick
                      /\ vaultTick = tick
                      /\ neroTick = tick
                      /\ mcTick = IF McPaths THEN tick \div McEvery ELSE 0
    BY DEF CountersAgree
  <2> QED
    BY DEF BrainInv, Counters, Statements, Less, Handled
<1> QED
  BY <1>1, BrainInvariant, PTL

(* The readouts the muscle sees and has in its queue are of pulses handled *)
(* in the order they were sent, each at most once and none refused.        *)
THEOREM ReadoutsKeepOrder == Spec => []ReadoutsInOrder
<1>1. BrainInv => ReadoutsInOrder
  <2> SUFFICES ASSUME BrainInv PROVE ReadoutsInOrder
    OBVIOUS
  <2>1. PulsesInOrder /\ StreamJoins /\ StreamInOrder /\ LoopTypeOK /\ VaultTypeOK
    BY DEF BrainInv, VaultInv
  <2>2. \A j \in 1..Len(inbox), k \in 1..Len(Handled) : inbox[j] > Handled[k]
    BY <2>1 DEF PulsesInOrder
  <2> QED
    BY <2>1, <2>2 DEF ReadoutsInOrder, PulsesInOrder, StreamJoins, StreamInOrder, Joins, Handled,
       Stream
<1> QED
  BY <1>1, BrainInvariant, PTL

(* Where the vault has a row for a readout's tick of the same run, it is   *)
(* the row of the pulse the readout was computed from.                     *)
THEOREM ReadoutsJoin == Spec => []ReadoutsJoinVault
<1>1. BrainInv => ReadoutsJoinVault
  <2> SUFFICES ASSUME BrainInv, NEW k \in 1..Len(Stream),
                      marketEvents[Stream[k].tick].run = Stream[k].run
               PROVE  marketEvents[Stream[k].tick].pulse = Stream[k].pulse
    BY DEF ReadoutsJoinVault, Stream
  <2> DEFINE t == Stream[k].tick
             r == Stream[k].run
  <2>1. LoopTypeOK /\ VaultTypeOK /\ HandledBound /\ RowsJoin /\ StreamJoins
    BY DEF BrainInv, VaultInv
  <2>2. r \in Runs /\ t \in Nat /\ Joins(r, t, Stream[k].pulse)
    BY <2>1, HandledFacts DEF Messages, StreamJoins
  <2>3. t \in Ticks
    BY <2>1, <2>2, HandledFacts, VaultFacts DEF HandledBound, LoopTypeOK, Joins, Ticks
  <2>4. marketEvents[t] # NoRow
    BY <2>2 DEF NoRow, Runs
  <2>5. Joins(r, t, marketEvents[t].pulse)
    BY <2>1, <2>3, <2>4 DEF RowsJoin
  <2> QED
    BY <2>2, <2>5 DEF Joins
<1> QED
  BY <1>1, BrainInvariant, PTL

(* A vault closed without an error of its own holds every pulse of its run *)
(* under its tick, and its spikes, but for what the interrupt cut off.     *)
THEOREM ClosedVaultIsComplete == Spec => []ClosedVaultComplete
<1>1. BrainInv => ClosedVaultComplete
  <2> SUFFICES ASSUME BrainInv, vaultPc = "closed"
               PROVE  /\ \A t \in 1..vaultTick :
                           \/ marketEvents[t] = [run |-> run, pulse |-> accepted[run][t]]
                           \/ t = vaultTick /\ cut = "counted"
                      /\ cut # "insertSpikes" =>
                           \A rt \in spiked : rt[1] = run => spikeEvents[rt] = 1
    BY DEF ClosedVaultComplete
  <2>1. VaultTypeOK /\ VaultPcs /\ VaultShape /\ RowsKept /\ SpikesKept /\ RowsJoin
    BY DEF BrainInv, VaultInv
  <2>2. closing /\ marketBuffer = <<>> /\ Len(marketBuffer) = 0
    BY <2>1 DEF VaultPcs, RowsKept
  <2>3. ASSUME NEW t \in 1..vaultTick, marketEvents[t].run = run
        PROVE  marketEvents[t] = [run |-> run, pulse |-> accepted[run][t]]
    <3>1. t \in Ticks
      BY <2>1, VaultNumbers, VaultFacts DEF Ticks
    <3>2. marketEvents[t] # NoRow
      BY <2>1, <2>3, VaultNumbers DEF NoRow
    <3>3. marketEvents[t] \in Rows
      BY <2>1, <3>1, <3>2 DEF VaultTypeOK
    <3>4. marketEvents[t].pulse = accepted[run][t]
      BY <2>1, <2>3, <3>1, <3>2 DEF RowsJoin, Joins
    <3> QED
      BY <2>3, <3>3, <3>4 DEF Rows
  <2>4. \A t \in 1..vaultTick : marketEvents[t].run = run \/ (t = vaultTick /\ cut = "counted")
    BY <2>1, <2>2 DEF RowsKept, Kept, Interrupted
  <2>5. ASSUME cut # "insertSpikes", NEW rt \in spiked, rt[1] = run
        PROVE  spikeEvents[rt] = 1
    <3>1. rt \in Runs \X Ticks
      BY <2>1 DEF VaultTypeOK
    <3>2. spikeEvents[rt] > 0
      <4>1. CASE \E i \in 1..Len(spikeBuffer) : spikeBuffer[i] = rt[2]
        <5>1. PICK i \in 1..Len(spikeBuffer) : spikeBuffer[i] = rt[2]
          BY <4>1
        <5>2. rt = <<run, spikeBuffer[i]>>
          BY <2>5, <3>1, <5>1
        <5>3. SpikesStored
          <6>1. spikeBuffer # <<>>
            BY <5>1
          <6> QED
            BY <2>1, <2>2, <2>5, <6>1 DEF SpikesKept
        <5> QED
          BY <5>2, <5>3 DEF SpikesStored
      <4> QED
        BY <2>1, <2>5, <4>1 DEF SpikesKept
    <3>3. PICK k \in 0..MaxPulses, r \in Runs, p \in 0..MaxPulses : Shape(k, r, p)
      BY <2>1 DEF VaultShape
    <3> QED
      BY <3>1, <3>2, <3>3 DEF Shape, SpikesOf
  <2> QED
    BY <2>3, <2>4, <2>5
<1> QED
  BY <1>1, BrainInvariant, PTL
===============================================================================
