--------------------------- MODULE VaultRecorder ---------------------------
(***************************************************************************)
(* The DuckDB vault of brain/vault_recorder.jl, driven by the main loop of *)
(* brain/spike_helm.jl: ticks are buffered, flushed every batch_size ticks *)
(* and once more by close_vault!, which the loop's `finally` calls however *)
(* the loop ended.  The database outlives the process; the buffers and     *)
(* tick_count do not.                                                      *)
(*                                                                         *)
(* An INSERT is atomic and durable.  Between two statements of a flush an  *)
(* InterruptException (Ctrl-C) may be raised, as an INSERT itself may; an  *)
(* exception inside `finally` leaves it.  A tick's spikes are one record.  *)
(***************************************************************************)
EXTENDS Naturals, Sequences

CONSTANTS BatchSize,  \* batch_size
          Pulses,     \* what a market row is made of
          MaxTicks,   \* bound on the ticks of one run
          MaxRuns     \* bound on the runs of the process

VaultConstants == /\ BatchSize \in Nat \ {0}
                  /\ MaxTicks \in Nat
                  /\ MaxRuns \in Nat \ {0}

Ticks == 1..MaxTicks
Runs == 1..MaxRuns

VARIABLES pc,            \* the statement about to run
          closing,       \* close_vault! was called
          run,           \* which run of the process this is
          tickCount,     \* tick_count
          marketBuffer,  \* market_buffer: [tick, pulse] of each row
          spikeBuffer,   \* spike_buffer: tick ids
          marketEvents,  \* table market_events: [run, pulse] of the row of each tick_id
          spikeEvents,   \* table spike_events: rows of each <<run, tick_id>>
          spiked         \* every <<run, tick_id>> whose spikes were recorded

vars == <<pc, closing, run, tickCount, marketBuffer, spikeBuffer,
          marketEvents, spikeEvents, spiked>>
tables == <<marketEvents, spikeEvents>>
buffers == <<marketBuffer, spikeBuffer>>

NoRow == [run |-> 0]

\* The constructor: tables are created if they do not exist, tick_count is 0.
Open == /\ pc' = "idle"
        /\ closing' = FALSE
        /\ tickCount' = 0
        /\ marketBuffer' = <<>>
        /\ spikeBuffer' = <<>>

Init == /\ pc = "idle"
        /\ closing = FALSE
        /\ run = 1
        /\ tickCount = 0
        /\ marketBuffer = <<>>
        /\ spikeBuffer = <<>>
        /\ marketEvents = [t \in Ticks |-> NoRow]
        /\ spikeEvents = [rt \in Runs \X Ticks |-> 0]
        /\ spiked = {}

\* flush_vault! returns to the loop, or to close_vault!, which disconnects.
FlushReturns == pc' = IF closing THEN "closed" ELSE "idle"

\* Mutated Raise: closed without a flush.
RaiseUnflushed == /\ closing' = TRUE
                  /\ pc' = IF closing THEN "dead" ELSE "closed"

\* An exception: the loop's catch and finally run close_vault!; a second one,
\* in close_vault!, escapes from finally.
Raise == IF closing THEN pc' = "dead" /\ UNCHANGED closing
                    ELSE pc' = "flush" /\ closing' = TRUE

-----------------------------------------------------------------------------
\* record_tick!: the tick is counted, ...
CountTick == /\ pc = "idle"
             /\ tickCount < MaxTicks
             /\ tickCount' = tickCount + 1
             /\ pc' = "counted"
             /\ UNCHANGED <<closing, run, buffers, tables, spiked>>

\* Mutated PushMarket: the row takes the count from before.
PushMarketEarly(pulse) ==
  /\ pc = "counted"
  /\ marketBuffer' = IF tickCount = 1 THEN <<>>
                     ELSE Append(marketBuffer, [tick |-> tickCount - 1, pulse |-> pulse])
  /\ pc' = "pushed"
  /\ UNCHANGED <<closing, run, tickCount, spikeBuffer, tables, spiked>>

\* ... its market row is buffered under that id, ...
PushMarket(pulse) ==
  /\ pc = "counted"
  /\ marketBuffer' = Append(marketBuffer, [tick |-> tickCount, pulse |-> pulse])
  /\ pc' = "pushed"
  /\ UNCHANGED <<closing, run, tickCount, spikeBuffer, tables, spiked>>

\* ... then its spikes, if there are any, and every batch_size ticks a flush.
RecordSpikes == /\ pc = "pushed"
                /\ \/ /\ spikeBuffer' = Append(spikeBuffer, tickCount)
                      /\ spiked' = spiked \cup {<<run, tickCount>>}
                   \/ UNCHANGED <<spikeBuffer, spiked>>
                /\ pc' = IF tickCount % BatchSize = 0 THEN "flush" ELSE "idle"
                /\ UNCHANGED <<closing, run, tickCount, marketBuffer, tables>>

\* Mutated BeginFlush: an empty market buffer does not stop the spikes.
BeginFlushBoth ==
  /\ pc = "flush"
  /\ IF marketBuffer # <<>> THEN pc' = "insertMarket"
     ELSE IF spikeBuffer # <<>> THEN pc' = "insertSpikes" ELSE FlushReturns
  /\ UNCHANGED <<closing, run, tickCount, buffers, tables, spiked>>

\* flush_vault! does nothing when the market buffer is empty.
BeginFlush == /\ pc = "flush"
              /\ IF marketBuffer = <<>> THEN FlushReturns ELSE pc' = "insertMarket"
              /\ UNCHANGED <<closing, run, tickCount, buffers, tables, spiked>>

\* Mutated Conflict: INSERT OR REPLACE.
NoConflict == FALSE

\* tick_id is the PRIMARY KEY of market_events.
Conflict == \E k \in 1..Len(marketBuffer) : marketEvents[marketBuffer[k].tick] # NoRow

InsertMarket ==
  /\ pc = "insertMarket"
  /\ ~Conflict
  /\ LET rows == {marketBuffer[k] : k \in 1..Len(marketBuffer)}
     IN marketEvents' = [t \in Ticks |->
          IF \E row \in rows : row.tick = t
            THEN [run |-> run, pulse |-> (CHOOSE row \in rows : row.tick = t).pulse]
            ELSE marketEvents[t]]
  /\ pc' = "emptyMarket"
  /\ UNCHANGED <<closing, run, tickCount, buffers, spikeEvents, spiked>>

EmptyMarket == /\ pc = "emptyMarket"
               /\ marketBuffer' = <<>>
               /\ IF spikeBuffer = <<>> THEN FlushReturns ELSE pc' = "insertSpikes"
               /\ UNCHANGED <<closing, run, tickCount, spikeBuffer, tables, spiked>>

\* spike_events has no key: what is inserted twice is there twice.
InsertSpikes ==
  /\ pc = "insertSpikes"
  /\ spikeEvents' = [rt \in Runs \X Ticks |->
       IF rt[1] = run /\ \E k \in 1..Len(spikeBuffer) : spikeBuffer[k] = rt[2]
         THEN spikeEvents[rt] + 1 ELSE spikeEvents[rt]]
  /\ pc' = "emptySpikes"
  /\ UNCHANGED <<closing, run, tickCount, buffers, marketEvents, spiked>>

EmptySpikes == /\ pc = "emptySpikes"
               /\ spikeBuffer' = <<>>
               /\ FlushReturns
               /\ UNCHANGED <<closing, run, tickCount, marketBuffer, tables, spiked>>

\* A statement raises: a key conflict or another database error in an INSERT,
\* an error elsewhere in the loop, or Ctrl-C anywhere.
Fails == /\ pc \notin {"closed", "dead"}
         /\ Raise
         /\ UNCHANGED <<run, tickCount, buffers, tables, spiked>>

\* The process is killed: what is not in a table is gone.
Crash == /\ pc \notin {"closed", "dead"}
         /\ pc' = "dead"
         /\ UNCHANGED <<closing, run, tickCount, buffers, tables, spiked>>

\* The brain is started again on the same database.
Restart == /\ pc \in {"closed", "dead"}
           /\ run < MaxRuns
           /\ run' = run + 1
           /\ Open
           /\ UNCHANGED <<tables, spiked>>

\* The statements of flush_vault!.
Flush == BeginFlush \/ InsertMarket \/ EmptyMarket \/ InsertSpikes \/ EmptySpikes

Next == \/ CountTick \/ (\E pulse \in Pulses : PushMarket(pulse)) \/ RecordSpikes
        \/ Flush \/ Fails \/ Crash \/ Restart

Spec == Init /\ [][Next]_vars

-----------------------------------------------------------------------------
\* The tables hold the first ticks of one single run, without a gap, and spikes of
\* those ticks only, none of them twice.  Tick ids restart at 1 with every process,
\* so once a run has flushed no later run can; the market INSERT of a batch comes
\* first; and when an interrupt falls between an INSERT and the emptying of its
\* buffer, the key or the early return on an empty market buffer stops the flush
\* by close_vault! from inserting again.
OneRunPersisted ==
  \E k \in 0..MaxTicks, r \in Runs :
    /\ \A t \in Ticks : IF t <= k THEN marketEvents[t].run = r ELSE marketEvents[t] = NoRow
    /\ \A rt \in Runs \X Ticks :
         spikeEvents[rt] > 0 => spikeEvents[rt] = 1 /\ rt[1] = r /\ rt[2] <= k

\* vault_recorder.jl:41: the tables may exist already: a run that finds them
\* can add its own rows.
RestartCanRecord == pc = "insertMarket" /\ ~closing => ~Conflict
=============================================================================
