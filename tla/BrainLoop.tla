------------------------------ MODULE BrainLoop ------------------------------
(***************************************************************************)
(* The binary wire end to end: a pulse publisher (market_sim.rs), the main *)
(* loop of brain/spike_helm.jl with its vault (VaultRecorder), and the     *)
(* muscle that receives its readouts.                                      *)
(*                                                                         *)
(* Both wires are ZMQ PUB/SUB: a frame goes to the subscriber's queue, or  *)
(* is lost when the subscriber is not connected or its queue is full; what *)
(* is queued stays in order.  The brain handles one pulse at a time, each  *)
(* of its parts with a tick counter of its own.  Ctrl-C or another         *)
(* exception may end the loop between any two statements, those of the     *)
(* vault included; its `finally` closes the vault and then the sockets,    *)
(* unless closing the vault throws.  The process may also be killed; the   *)
(* next one finds the tables of the vault and counts from 0.               *)
(***************************************************************************)
EXTENDS Integers, Sequences

CONSTANTS Lobes,      \* lobes of the ensemble, 1 first
          McEvery,    \* MC_INTERVAL
          McPaths,    \* LIMEN_MC_PATHS > 0
          HighWater,  \* the high-water mark of either queue
          BatchSize,  \* of the vault
          MaxPulses,  \* bound on the pulses sent
          MaxRuns     \* bound on the runs of the brain

ASSUME BrainAssumption == /\ Lobes \in Nat \ {0}
                          /\ McEvery \in Nat \ {0}
                          /\ McPaths \in BOOLEAN
                          /\ HighWater \in Nat \ {0}
                          /\ MaxPulses \in Nat

VARIABLES sent,     \* pulses published so far
          invalid,  \* the published pulses that will not validate or decode
          inbox,    \* the brain's SUB queue: pulse numbers
          pc,       \* the statement of the loop about to run
          current,  \* the pulse being handled
          lobe,     \* the lobe about to be stepped
          tick,     \* the loop's tick
          features, \* updates the FeatureStream has seen
          lobeTick, \* tick_count of each lobe
          neroTick, \* tick_count of NERO
          mcTick,   \* mc_tick
          accepted, \* the pulses handled by each run, in order
          outbox,   \* the muscle's SUB queue: [run, tick, pulse] of each readout
          received, \* what the muscle received
          cut,      \* the statement of the vault the loop ended in
          vaultPc, vaultTick, closing, run, marketBuffer, spikeBuffer,
          marketEvents, spikeEvents, spiked \* as in VaultRecorder

Vault == INSTANCE VaultRecorder WITH pc <- vaultPc, tickCount <- vaultTick,
                                     Pulses <- 1..MaxPulses, MaxTicks <- MaxPulses

ASSUME VaultAssumption == Vault!VaultConstants

publisher == <<sent, invalid>>
ticks == <<tick, features, lobeTick, neroTick, mcTick>>
muscle == <<outbox, received>>
vault == <<vaultPc, vaultTick, closing, run, marketBuffer, spikeBuffer,
           marketEvents, spikeEvents, spiked>>
loop == <<inbox, pc, current, lobe, ticks, accepted, cut>>
vars == <<publisher, loop, muscle, vault>>

Lobe == 1..Lobes
Statements == {"recv", "features", "step", "record", "analyse", "route", "publish"}

Up == pc \notin {"ended", "thrown", "killed"}

\* main: everything counted starts at 0.
Start == /\ inbox' = <<>>
         /\ pc' = "recv"
         /\ current' = 0
         /\ lobe' = 1
         /\ tick' = 0
         /\ features' = 0
         /\ lobeTick' = [l \in Lobe |-> 0]
         /\ neroTick' = 0
         /\ mcTick' = 0
         /\ cut' = "none"

Init == /\ sent = 0
        /\ invalid = {}
        /\ inbox = <<>>
        /\ pc = "recv"
        /\ current = 0
        /\ lobe = 1
        /\ tick = 0
        /\ features = 0
        /\ lobeTick = [l \in Lobe |-> 0]
        /\ neroTick = 0
        /\ mcTick = 0
        /\ accepted = [r \in 1..MaxRuns |-> <<>>]
        /\ outbox = <<>>
        /\ received = <<>>
        /\ cut = "none"
        /\ Vault!Init

Goto(from, to) == pc = from /\ pc' = to

\* ZMQ PUB: into the subscriber's queue, or lost.
Publish(queue, message) ==
  \/ /\ Len(queue) < HighWater
     /\ queue' = Append(queue, message)
  \/ UNCHANGED queue

-----------------------------------------------------------------------------
\* The publisher sends a pulse, valid or not; a brain that is down hears nothing.
SendPulse == /\ sent < MaxPulses
             /\ sent' = sent + 1
             /\ invalid' \in {invalid, invalid \cup {sent'}}
             /\ IF Up THEN Publish(inbox, sent') ELSE UNCHANGED inbox
             /\ UNCHANGED <<pc, current, lobe, ticks, accepted, cut, muscle, vault>>

\* Mutated Recv: the tick is counted before the frame is decoded.
RecvCountingFirst ==
  /\ pc = "recv"
  /\ inbox # <<>>
  /\ inbox' = Tail(inbox)
  /\ tick' = tick + 1
  /\ IF Head(inbox) \in invalid THEN UNCHANGED <<pc, current, accepted>>
     ELSE /\ pc' = "features"
          /\ current' = Head(inbox)
          /\ accepted' = [accepted EXCEPT ![run] = Append(@, Head(inbox))]
  /\ UNCHANGED <<publisher, lobe, features, lobeTick, neroTick, mcTick, cut, muscle, vault>>

\* Mutated Recv: a refused frame is decoded again instead of being dropped.
RecvRetrying ==
  /\ pc = "recv"
  /\ inbox # <<>>
  /\ Head(inbox) \notin invalid
  /\ inbox' = Tail(inbox)
  /\ pc' = "features"
  /\ current' = Head(inbox)
  /\ tick' = tick + 1
  /\ accepted' = [accepted EXCEPT ![run] = Append(@, Head(inbox))]
  /\ UNCHANGED <<publisher, lobe, features, lobeTick, neroTick, mcTick, cut, muscle, vault>>

\* ZMQ.recv, validate and decode: a frame refused by either is skipped before
\* the tick is counted.  (The catch around decode would take a Ctrl-C for a bad
\* frame too, which is as if the frame had been lost.)
Recv == /\ pc = "recv"
        /\ inbox # <<>>
        /\ inbox' = Tail(inbox)
        /\ IF Head(inbox) \in invalid THEN UNCHANGED <<pc, current, tick, accepted>>
           ELSE /\ pc' = "features"
                /\ current' = Head(inbox)
                /\ tick' = tick + 1
                /\ accepted' = [accepted EXCEPT ![run] = Append(@, Head(inbox))]
        /\ UNCHANGED <<publisher, lobe, features, lobeTick, neroTick, mcTick, cut, muscle, vault>>

\* update_features!, apply_encoder_gain! and encode!.
Features == /\ Goto("features", "step")
            /\ features' = features + 1
            /\ lobe' = 1
            /\ UNCHANGED <<publisher, inbox, current, tick, lobeTick, neroTick, mcTick,
                           accepted, cut, muscle, vault>>

\* reservoir_step!: the lobes one after the other.
StepLobe == /\ pc = "step"
            /\ lobeTick' = [lobeTick EXCEPT ![lobe] = @ + 1]
            /\ IF lobe = Lobes THEN pc' = "record" /\ UNCHANGED lobe
                               ELSE lobe' = lobe + 1 /\ UNCHANGED pc
            /\ UNCHANGED <<publisher, inbox, current, tick, features, neroTick, mcTick,
                           accepted, cut, muscle, vault>>

\* record_tick! of the vault with its flush, to its end.
RecordTick == /\ pc = "record"
              /\ \/ Vault!CountTick
                 \/ Vault!PushMarket(current)
                 \/ Vault!RecordSpikes
                 \/ Vault!Flush
              /\ pc' = IF vaultPc' = "idle" THEN "analyse" ELSE "record"
              /\ UNCHANGED <<publisher, inbox, current, lobe, ticks, accepted, cut, muscle>>

\* Every MC_INTERVAL ticks, if enabled, Monte Carlo; the covariance of every
\* COVARIANCE_INTERVAL ticks reads the lobes and counts nothing.
Analyse == /\ Goto("analyse", "route")
           /\ mcTick' = IF McPaths /\ tick % McEvery = 0 THEN mcTick + 1 ELSE mcTick
           /\ UNCHANGED <<publisher, inbox, current, lobe, tick, features, lobeTick, neroTick,
                          accepted, cut, muscle, vault>>

\* route_and_aggregate!: relevance, then the weighted readout.
Route == /\ Goto("route", "publish")
         /\ neroTick' = neroTick + 1
         /\ UNCHANGED <<publisher, inbox, current, lobe, tick, features, lobeTick, mcTick,
                        accepted, cut, muscle, vault>>

Readout == [run |-> run, tick |-> lobeTick[1], pulse |-> current]

\* Mutated PublishReadout: a send the queue refuses is tried again at once.
PublishAndRetry == /\ Goto("publish", "recv")
                   /\ outbox' = outbox \o <<Readout, Readout>>
                   /\ UNCHANGED <<publisher, inbox, current, lobe, ticks, accepted, cut,
                                  received, vault>>

\* publish_readout! with the first lobe's tick.
PublishReadout == /\ Goto("publish", "recv")
                  /\ Publish(outbox, Readout)
                  /\ UNCHANGED <<publisher, inbox, current, lobe, ticks, accepted, cut,
                                 received, vault>>

\* Ctrl-C or an exception, in the vault's statements too: the loop ends where it
\* is, and finally begins to close the vault.
Fails == /\ pc \in Statements
         /\ Vault!Fails
         /\ pc' = "finally"
         /\ cut' = vaultPc
         /\ UNCHANGED <<publisher, inbox, current, lobe, ticks, accepted, muscle>>

\* close_vault! flushes ...
CloseVault == /\ pc = "finally"
              /\ Vault!Flush
              /\ UNCHANGED <<publisher, loop, muscle>>

\* ... and the sockets are closed, whose queues go with them; ...
Cleanup == /\ vaultPc = "closed"
           /\ Goto("finally", "ended")
           /\ inbox' = <<>>
           /\ UNCHANGED <<publisher, current, lobe, ticks, accepted, cut, muscle, vault>>

\* ... or close_vault! throws out of the finally block, and the process exits.
CleanupThrows == /\ Goto("finally", "thrown")
                 /\ Vault!Fails
                 /\ inbox' = <<>>
                 /\ UNCHANGED <<publisher, current, lobe, ticks, accepted, cut, muscle>>

\* The process is killed; what its sockets had queued is lost.
Kill == /\ pc \in Statements \cup {"finally"}
        /\ Vault!Crash
        /\ pc' = "killed"
        /\ inbox' = <<>>
        /\ UNCHANGED <<publisher, current, lobe, ticks, accepted, cut, muscle>>

\* The brain is started again on the same vault.
Restart == /\ ~Up
           /\ Vault!Restart
           /\ Start
           /\ UNCHANGED <<publisher, accepted, muscle>>

\* The muscle receives the next readout.
MuscleRecv == /\ outbox # <<>>
              /\ outbox' = Tail(outbox)
              /\ received' = Append(received, Head(outbox))
              /\ UNCHANGED <<publisher, loop, vault>>

Loop == Recv \/ Features \/ StepLobe \/ RecordTick \/ Analyse \/ Route \/ PublishReadout

Next == \/ SendPulse \/ Loop \/ Fails \/ CloseVault \/ Cleanup \/ CleanupThrows
        \/ Kill \/ Restart \/ MuscleRecv

Spec == Init /\ [][Next]_vars

\* An INSERT that meets its key in the table can only throw.
Stuck == vaultPc = "insertMarket" /\ Vault!Conflict

\* The loop runs on, finally runs to its end, and the muscle receives.
FairSpec == /\ Spec
            /\ WF_vars(Loop)
            /\ WF_vars(Stuck /\ (Fails \/ CleanupThrows))
            /\ WF_vars(CloseVault \/ Cleanup)
            /\ WF_vars(MuscleRecv)

-----------------------------------------------------------------------------
\* Between two pulses the counters kept apart by the loop, the features, each
\* lobe, the vault and NERO all stand at the number of pulses handled, so the
\* tick a readout carries (the first lobe's) is the vault's tick_id, whatever
\* frames were refused or lost.
CountersAgree ==
  pc = "recv" =>
    /\ tick = Len(accepted[run])
    /\ features = tick
    /\ \A l \in Lobe : lobeTick[l] = tick
    /\ vaultTick = tick
    /\ neroTick = tick
    /\ mcTick = IF McPaths THEN tick \div McEvery ELSE 0

Before(m, n) == m.run < n.run \/ (m.run = n.run /\ m.tick < n.tick)

\* No pulse is handled before an older one, twice, or though it was refused, and
\* the muscle sees each handled pulse at most once, in that order: the readout of
\* tick k is about the run's k-th accepted pulse, ticks only rise until the brain
\* is restarted, and what is missing was lost on the wire (spike_helm.jl:225-320).
ReadoutsInOrder ==
  LET stream == received \o outbox
      handled == accepted[run]
  IN /\ \A j, k \in 1..Len(handled) : j < k => handled[j] < handled[k]
     /\ \A k \in 1..Len(handled) : handled[k] \notin invalid
     /\ \A j \in 1..Len(inbox), k \in 1..Len(handled) : inbox[j] > handled[k]
     /\ \A k \in 1..Len(stream) : /\ stream[k].tick \in 1..Len(accepted[stream[k].run])
                                  /\ accepted[stream[k].run][stream[k].tick] = stream[k].pulse
     /\ \A j, k \in 1..Len(stream) : j < k => Before(stream[j], stream[k])

\* A readout can be joined to the vault by its tick (within a run): where the run
\* has a row for that tick, it is the row of the pulse the readout was computed
\* from.
ReadoutsJoinVault ==
  LET stream == received \o outbox
  IN \A k \in 1..Len(stream) :
       LET row == marketEvents[stream[k].tick]
       IN row.run = stream[k].run => row.pulse = stream[k].pulse

\* A vault closed without an error of its own holds every pulse of the run under
\* its tick, but for one whose recording was cut short before its row was
\* buffered, and every recorded spike, unless the loop was cut short between the
\* two halves of a flush: the closing flush then stops at the empty market buffer
\* (vault_recorder.jl:116) and leaves the spikes.
ClosedVaultComplete ==
  vaultPc = "closed" =>
    /\ \A t \in 1..vaultTick :
         \/ marketEvents[t] = [run |-> run, pulse |-> accepted[run][t]]
         \/ t = vaultTick /\ cut = "counted"
    /\ cut # "insertSpikes" =>
         \A rt \in spiked : rt[1] = run => spikeEvents[rt] = 1

\* The vault holds the first ticks of a single run and their spikes, once
\* (VaultRecorder).
OneRunPersisted == Vault!OneRunPersisted

\* Every pulse in the queue is handled or refused, or the loop has ended, the
\* vault's flush and the closing of it included.
QueueServed ==
  \A p \in 1..MaxPulses :
    (\E k \in 1..Len(inbox) : inbox[k] = p)
      ~> ((\A k \in 1..Len(inbox) : inbox[k] # p) /\ pc = "recv") \/ ~Up
=============================================================================
