--------------------------- MODULE SpikeRecorder ---------------------------
(***************************************************************************)
(* The spike event file: brain/spike_recorder.jl as the experiment loop of *)
(* brain/experiment_runner.jl drives it.  Each tick records the spikes of  *)
(* every lobe into a byte buffer of BufSize, which is written to the file  *)
(* when the next event might not fit, and once more by close_recorder!     *)
(* in the loop's `finally`.                                                *)
(*                                                                         *)
(* An InterruptException (Ctrl-C) may come between any two statements.     *)
(* The buffer's bytes are not modelled: an event is one record of          *)
(* EventBytes, and `buffer` holds what is packed below buf_ptr.            *)
(***************************************************************************)
EXTENDS Integers, Sequences

CONSTANTS BufSize,    \* buf_size
          EventBytes, \* 12: UInt64 tick, UInt32 neuron id
          Lobes,      \* number of lobes
          Neurons,    \* neurons of a lobe
          Duration    \* cfg.duration, the ticks of the run

ASSUME RecorderAssumption == /\ EventBytes \in Nat \ {0}
                             /\ BufSize \in Nat
                             /\ BufSize >= EventBytes
                             /\ Lobes \in Nat \ {0}
                             /\ Neurons \in Nat \ {0}
                             /\ Duration \in Nat

VARIABLES pc,       \* the statement about to run
          closing,  \* the loop has ended, close_recorder! runs
          tick,     \* the tick being recorded
          lobe,     \* the lobe being recorded
          pending,  \* its spiked neurons not yet recorded, 1-based
          bufPtr,   \* buf_ptr
          buffer,   \* the records packed in the buffer
          file,     \* the records written
          total,    \* total_spikes
          accepted  \* every spike whose record was kept: [tick, lobe, neuron]

vars == <<pc, closing, tick, lobe, pending, bufPtr, buffer, file, total, accepted>>

\* What is stored of a spike: the tick and a 0-based id, no lobe.
Record(s) == [tick |-> s.tick, id |-> s.neuron - 1]
Records(spikes) == [k \in 1..Len(spikes) |-> Record(spikes[k])]

Init == /\ pc = "lobe"
        /\ closing = FALSE
        /\ tick = 1
        /\ lobe = 1
        /\ pending = {}
        /\ bufPtr = 1
        /\ buffer = <<>>
        /\ file = <<>>
        /\ total = 0
        /\ accepted = <<>>

Goto(from, to) == pc = from /\ pc' = to

\* The loop calls record_spikes! for the next lobe with the spikes it found.
StartLobe == /\ Goto("lobe", "spike")
             /\ tick <= Duration
             /\ \E S \in SUBSET (1..Neurons) : pending' = S
             /\ UNCHANGED <<closing, tick, lobe, bufPtr, buffer, file, total, accepted>>

\* record_spikes! returns; the next lobe, or the next tick, follows.
EndLobe == /\ Goto("spike", "lobe")
           /\ pending = {}
           /\ lobe' = IF lobe = Lobes THEN 1 ELSE lobe + 1
           /\ tick' = IF lobe = Lobes THEN tick + 1 ELSE tick
           /\ UNCHANGED <<closing, pending, bufPtr, buffer, file, total, accepted>>

Spike == [tick |-> tick, lobe |-> lobe,
          neuron |-> CHOOSE n \in pending : \A m \in pending : n <= m]

\* The next spike: is there room for its record?
CheckSpace == /\ pc = "spike"
              /\ pending # {}
              /\ pc' = IF bufPtr + EventBytes > BufSize THEN "flush" ELSE "pack"
              /\ UNCHANGED <<closing, tick, lobe, pending, bufPtr, buffer, file, total, accepted>>

\* flush_recorder!: write what is below buf_ptr ...
Write == /\ pc = "flush"
         /\ IF bufPtr > 1 THEN pc' = "reset" /\ file' = file \o buffer
            ELSE pc' = (IF closing THEN "close" ELSE "pack") /\ UNCHANGED file
         /\ UNCHANGED <<closing, tick, lobe, pending, bufPtr, buffer, total, accepted>>

\* Mutated ResetBuffer: buf_ptr is left where it was.
ResetNothing == /\ Goto("reset", IF closing THEN "close" ELSE "pack")
                /\ UNCHANGED <<closing, tick, lobe, pending, bufPtr, buffer, file, total, accepted>>

\* ... and start over.
ResetBuffer == /\ Goto("reset", IF closing THEN "close" ELSE "pack")
               /\ bufPtr' = 1
               /\ buffer' = <<>>
               /\ UNCHANGED <<closing, tick, lobe, pending, file, total, accepted>>

\* The record is copied to buf_ptr and buf_ptr moves past it.  A copy beyond
\* the buffer's end would throw: BufferExact says there is none.
Pack == /\ Goto("pack", "count")
        /\ buffer' = Append(buffer, Record(Spike))
        /\ bufPtr' = bufPtr + EventBytes
        /\ accepted' = Append(accepted, Spike)
        /\ UNCHANGED <<closing, tick, lobe, pending, file, total>>

Count == /\ Goto("count", "spike")
         /\ total' = total + 1
         /\ pending' = pending \ {Spike.neuron}
         /\ UNCHANGED <<closing, tick, lobe, bufPtr, buffer, file, accepted>>

\* Mutated EndLoop: the file is closed without the last flush.
EndLoopUnflushed == /\ Goto("lobe", "close")
                    /\ tick > Duration
                    /\ closing' = TRUE
                    /\ UNCHANGED <<tick, lobe, pending, bufPtr, buffer, file, total, accepted>>

\* The loop is done: `finally` calls close_recorder!.
EndLoop == /\ Goto("lobe", "flush")
           /\ tick > Duration
           /\ closing' = TRUE
           /\ UNCHANGED <<tick, lobe, pending, bufPtr, buffer, file, total, accepted>>

\* An exception ends the loop anywhere, and `finally` does the same.
Interrupt == /\ ~closing
             /\ pc' = "flush"
             /\ closing' = TRUE
             /\ UNCHANGED <<tick, lobe, pending, bufPtr, buffer, file, total, accepted>>

Close == /\ Goto("close", "closed")
         /\ UNCHANGED <<closing, tick, lobe, pending, bufPtr, buffer, file, total, accepted>>

RecordSpikes == \/ StartLobe \/ EndLobe \/ CheckSpace \/ Write \/ ResetBuffer
                \/ Pack \/ Count

Next == RecordSpikes \/ EndLoop \/ Interrupt \/ Close

Spec == Init /\ [][Next]_vars

-----------------------------------------------------------------------------
\* The pointer counts the packed records and leaves room for one before every
\* copy, so no copy runs past the buffer (`+ 12 > buf_size` with a 1-based
\* pointer, spike_recorder.jl:39); and the file followed by the buffer is every
\* kept spike in order, with nothing lost, repeated or overwritten, where
\* between the write and the reset the buffer is in the file already.
BufferExact ==
  /\ bufPtr = 1 + EventBytes * Len(buffer)
  /\ pc = "pack" => bufPtr + EventBytes - 1 <= BufSize
  /\ ~closing => IF pc = "reset" THEN file = Records(accepted)
                                ELSE file \o buffer = Records(accepted)

\* A closed file holds every kept spike in order, whenever Ctrl-C came; at
\* worst the records of the last flush follow a second time, when it fell
\* between the write and the reset.
ClosedFileComplete ==
  pc = "closed" =>
    \E k \in 1..(Len(accepted) + 1) :
      /\ file = Records(accepted) \o SubSeq(Records(accepted), k, Len(accepted))
      /\ Len(accepted) - k + 1 <= BufSize \div EventBytes

=============================================================================
