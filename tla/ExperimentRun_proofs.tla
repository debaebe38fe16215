------------------------- MODULE ExperimentRun_proofs -------------------------
(***************************************************************************)
(* Proofs about a research run, for any buffer, lobes, neurons, duration,  *)
(* prices and latencies: what the spike file holds wherever Ctrl-C lands,  *)
(* what the grade reads, and that it is fair to both sides of the market   *)
(* and its percentiles are ranks.  The recorder's invariant says, for      *)
(* every statement of a flush, how much of the buffer is in the file       *)
(* already; the collector's, which row an interrupt left short.            *)
(***************************************************************************)
EXTENDS ExperimentRun, SequenceTheorems, Lemmas

Spikes == [tick : Nat, lobe : 1..Lobes, neuron : 1..Neurons]
Entries == [tick : Nat, id : Int]

RecorderTypeOK ==
  /\ pc \in {"lobe", "spike", "flush", "reset", "pack", "count", "close", "closed"}
  /\ closing \in BOOLEAN
  /\ tick \in Nat
  /\ lobe \in 1..Lobes
  /\ pending \in SUBSET (1..Neurons)
  /\ bufPtr \in Nat
  /\ buffer \in Seq(Entries)
  /\ file \in Seq(Entries)
  /\ total \in Nat
  /\ accepted \in Seq(Spikes)

\* A spike that is being packed or counted is still pending, also through the
\* flush that makes room for it.
SpikeInHand ==
  (pc \in {"pack", "count"} \/ (~closing /\ pc \in {"flush", "reset"})) => pending # {}

ClosingOnly == /\ closing => pc \in {"flush", "reset", "close", "closed"}
               /\ pc \in {"close", "closed"} => closing

PointerExact == /\ bufPtr = 1 + EventBytes * Len(buffer)
                /\ bufPtr - 1 <= BufSize
                /\ pc = "pack" => bufPtr + EventBytes - 1 <= BufSize

\* The buffer is the last of the kept spikes, before and after it is written.
BufferIsLast ==
  /\ Len(buffer) <= Len(accepted)
  /\ \A i \in 1..Len(buffer) :
       buffer[i] = Records(accepted)[Len(accepted) - Len(buffer) + i]

InFile == file = Records(accepted)
BehindFile == file \o buffer = Records(accepted)
Twice == file = Records(accepted) \o buffer

\* What the closing of the file leaves.
Complete ==
  \E k \in 1..(Len(accepted) + 1) :
    /\ file = Records(accepted) \o SubSeq(Records(accepted), k, Len(accepted))
    /\ Len(accepted) - k + 1 <= BufSize \div EventBytes

\* How much of the buffer is in the file already.
FileState ==
  /\ ~closing /\ pc = "reset" => InFile
  /\ ~closing /\ pc # "reset" => BehindFile
  /\ closing /\ pc = "flush" => InFile \/ BehindFile
  /\ closing /\ pc = "reset" => InFile \/ Twice
  /\ pc \in {"close", "closed"} => Complete

RecorderInv == /\ RecorderTypeOK
               /\ SpikeInHand
               /\ ClosingOnly
               /\ PointerExact
               /\ BufferIsLast
               /\ FileState

-----------------------------------------------------------------------------
LEMMA SpikeType ==
  ASSUME RecorderTypeOK, pending # {}
  PROVE  Spike \in Spikes /\ Spike.neuron \in pending
<1>1. pending \in SUBSET Nat
  BY RecorderAssumption DEF RecorderTypeOK
<1>2. PICK n \in pending : \A m \in pending : n <= m
  BY <1>1, LeastNatural
<1>3. Spike.neuron \in pending
  BY <1>2 DEF Spike
<1> QED
  BY <1>3 DEF Spike, Spikes, RecorderTypeOK

(* What is stored of a sequence of spikes, one record for each. *)
LEMMA RecordType == ASSUME NEW s \in Spikes PROVE Record(s) \in Entries
  BY RecorderAssumption DEF Record, Spikes, Entries

LEMMA RecordsType ==
  ASSUME NEW spikes \in Seq(Spikes)
  PROVE  /\ Records(spikes) \in Seq(Entries)
         /\ Len(Records(spikes)) = Len(spikes)
         /\ \A i \in 1..Len(spikes) : Records(spikes)[i] = Record(spikes[i])
<1>1. \A i \in 1..Len(spikes) : Record(spikes[i]) \in Entries
  BY ElementOfSeq, RecordType
<1> QED
  BY <1>1 DEF Records

LEMMA RecordsAppend ==
  ASSUME NEW spikes \in Seq(Spikes), NEW s \in Spikes
  PROVE  Records(Append(spikes, s)) = Append(Records(spikes), Record(s))
<1> DEFINE longer == Append(spikes, s)
<1>1. /\ longer \in Seq(Spikes)
      /\ Len(longer) = Len(spikes) + 1
      /\ \A i \in 1..Len(spikes) : longer[i] = spikes[i]
      /\ longer[Len(spikes) + 1] = s
  OBVIOUS
<1> HIDE DEF longer
<1>2. /\ Records(longer) \in Seq(Entries)
      /\ Len(Records(longer)) = Len(longer)
      /\ \A i \in 1..Len(longer) : Records(longer)[i] = Record(longer[i])
  BY <1>1, RecordsType
<1> DEFINE stored == Append(Records(spikes), Record(s))
<1>3. /\ stored \in Seq(Entries)
      /\ Len(stored) = Len(spikes) + 1
      /\ \A i \in 1..Len(spikes) : stored[i] = Record(spikes[i])
      /\ stored[Len(spikes) + 1] = Record(s)
  BY RecordType, RecordsType
<1> HIDE DEF stored
<1>4. \A i \in 1..Len(longer) : Records(longer)[i] = stored[i]
  BY <1>1, <1>2, <1>3
<1> QED
  BY <1>1, <1>2, <1>3, <1>4, SeqEqual DEF longer, stored

(* The events a buffer has room for. *)
LEMMA RoomFor ==
  ASSUME NEW n \in Nat, EventBytes * n <= BufSize
  PROVE  n <= BufSize \div EventBytes
<1>1. /\ BufSize \div EventBytes \in Int
      /\ BufSize < EventBytes * (BufSize \div EventBytes) + EventBytes
  BY RecorderAssumption
<1> DEFINE q == BufSize \div EventBytes
<1> HIDE DEF q
<1>2. EventBytes * n < EventBytes * (q + 1)
  BY <1>1, RecorderAssumption DEF q
<1>3. n < q + 1
  BY <1>1, <1>2, RecorderAssumption DEF q
<1> QED
  BY <1>1, <1>3 DEF q

-----------------------------------------------------------------------------
(* Nothing is kept, buffered or written before the first tick. *)
LEMMA InitRecorder == Init => RecorderInv
<1> SUFFICES ASSUME Init PROVE RecorderInv
  OBVIOUS
<1> USE RecorderAssumption DEF Init
<1>1. RecorderTypeOK /\ SpikeInHand /\ ClosingOnly
  <2>1. 1 \in 1..Lobes /\ {} \in SUBSET (1..Neurons)
    OBVIOUS
  <2>2. <<>> \in Seq(Entries) /\ <<>> \in Seq(Spikes)
    OBVIOUS
  <2> QED
    BY <2>1, <2>2 DEF RecorderTypeOK, SpikeInHand, ClosingOnly
<1>2. PointerExact
  <2>1. Len(buffer) = 0 /\ EventBytes * 0 = 0
    OBVIOUS
  <2> QED
    BY <2>1 DEF PointerExact
<1>3. Records(accepted) = <<>>
  BY DEF Records
<1>4. BufferIsLast /\ FileState
  BY <1>3 DEF BufferIsLast, FileState, BehindFile
<1> QED
  BY <1>1, <1>2, <1>4 DEF RecorderInv

(* A step that leaves the buffer and the file alone. *)
LEMMA SteadyRecorder ==
  ASSUME RecorderInv, RecorderTypeOK', SpikeInHand', ClosingOnly',
         UNCHANGED <<bufPtr, buffer, file, accepted>>,
         pc' = "pack" => bufPtr + EventBytes - 1 <= BufSize,
         \/ ~closing /\ ~closing' /\ pc # "reset" /\ pc' # "reset"
         \/ closing' /\ pc' = "flush" /\ ~closing
         \/ closing /\ closing' /\ pc \in {"close", "closed"} /\ pc' \in {"close", "closed"}
  PROVE  RecorderInv'
<1> USE DEF RecorderInv
<1>1. PointerExact'
  BY DEF PointerExact
<1>2. BufferIsLast'
  BY DEF BufferIsLast
<1>3. (InFile' <=> InFile) /\ (BehindFile' <=> BehindFile) /\ (Complete' <=> Complete)
  BY DEF InFile, BehindFile, Complete
<1>4. FileState'
  BY <1>3 DEF FileState, ClosingOnly
<1> QED
  BY <1>1, <1>2, <1>4

(* The write of a flush, or its early return on an empty buffer. *)
LEMMA WriteRecorder == ASSUME RecorderInv, Write PROVE RecorderInv'
<1> USE RecorderAssumption DEF RecorderInv, Write
<1>1. RecorderTypeOK' /\ SpikeInHand' /\ ClosingOnly'
  <2>1. file \o buffer \in Seq(Entries)
    BY ConcatProperties DEF RecorderTypeOK
  <2> QED
    BY <2>1 DEF RecorderTypeOK, SpikeInHand, ClosingOnly
<1>2. PointerExact'
  BY DEF PointerExact
<1>3. BufferIsLast'
  BY DEF BufferIsLast
<1>4. Records(accepted) \in Seq(Entries) /\ Len(Records(accepted)) = Len(accepted)
  BY RecordsType DEF RecorderTypeOK
<1>5. FileState'
  <2>1. CASE bufPtr > 1
    <3>1. pc' = "reset" /\ closing' = closing /\ file' = file \o buffer
      BY <2>1
    <3>2. BehindFile => InFile'
      BY <3>1 DEF BehindFile, InFile
    <3>3. InFile => Twice'
      BY <3>1 DEF InFile, Twice
    <3> QED
      BY <3>1, <3>2, <3>3 DEF FileState
  <2>2. CASE ~(bufPtr > 1)
    <3>1. /\ pc' = IF closing THEN "close" ELSE "pack"
          /\ UNCHANGED <<closing, file, buffer, accepted>>
      BY <2>2
    <3>2. buffer = <<>>
      <4>1. Len(buffer) = 0
        BY <2>2 DEF PointerExact, RecorderTypeOK
      <4> QED
        BY <4>1 DEF RecorderTypeOK
    <3>3. InFile \/ BehindFile => file = Records(accepted)
      BY <3>2, ConcatEmptySeq DEF InFile, BehindFile, RecorderTypeOK
    <3>4. CASE closing
      <4>1. file = Records(accepted)
        BY <3>3, <3>4 DEF FileState
      <4>2. SubSeq(Records(accepted), Len(accepted) + 1, Len(accepted)) = <<>>
        BY SubSeqEmpty DEF RecorderTypeOK
      <4>3. file = Records(accepted) \o SubSeq(Records(accepted), Len(accepted) + 1, Len(accepted))
        BY <1>4, <4>1, <4>2, ConcatEmptySeq
      <4>4. 0 <= BufSize \div EventBytes
        BY RoomFor
      <4>5. Complete
        BY <4>3, <4>4 DEF Complete, RecorderTypeOK
      <4>6. Complete'
        BY <3>1, <4>5 DEF Complete
      <4> QED
        BY <3>1, <3>4, <4>6 DEF FileState
    <3>5. CASE ~closing
      <4>1. BehindFile'
        BY <3>1, <3>5 DEF FileState, BehindFile
      <4> QED
        BY <3>1, <3>5, <4>1 DEF FileState
    <3> QED
      BY <3>4, <3>5
  <2> QED
    BY <2>1, <2>2
<1> QED
  BY <1>1, <1>2, <1>3, <1>5

(* The buffer starts over. *)
LEMMA ResetRecorder == ASSUME RecorderInv, ResetBuffer PROVE RecorderInv'
<1> USE RecorderAssumption DEF RecorderInv, ResetBuffer, Goto
<1>1. RecorderTypeOK' /\ SpikeInHand' /\ ClosingOnly'
  BY DEF RecorderTypeOK, SpikeInHand, ClosingOnly
<1>2. PointerExact'
  <2>1. Len(buffer') = 0 /\ EventBytes * 0 = 0
    OBVIOUS
  <2> QED
    BY <2>1 DEF PointerExact
<1>3. BufferIsLast'
  BY DEF BufferIsLast, RecorderTypeOK
<1> DEFINE R == Records(accepted)
<1>4. R \in Seq(Entries) /\ Len(R) = Len(accepted)
  BY RecordsType DEF RecorderTypeOK
<1>5. FileState'
  <2>1. CASE ~closing
    <3>1. file' \o buffer' = R /\ accepted' = accepted
      BY <2>1, ConcatEmptySeq DEF FileState, InFile, RecorderTypeOK
    <3> QED
      BY <2>1, <3>1 DEF FileState, BehindFile
  <2>2. CASE closing /\ InFile
    <3>1. SubSeq(R, Len(accepted) + 1, Len(accepted)) = <<>>
      BY SubSeqEmpty DEF RecorderTypeOK
    <3>2. file = R \o SubSeq(R, Len(accepted) + 1, Len(accepted))
      BY <1>4, <2>2, <3>1, ConcatEmptySeq DEF InFile
    <3>3. 0 <= BufSize \div EventBytes
      BY RoomFor
    <3>4. Complete
      BY <3>2, <3>3 DEF Complete, RecorderTypeOK
    <3>5. Complete'
      BY <3>4 DEF Complete
    <3> QED
      BY <2>2, <3>5 DEF FileState
  <2>3. CASE closing /\ Twice
    <3> DEFINE k == Len(accepted) - Len(buffer) + 1
    <3>1. k \in 1..(Len(accepted) + 1) /\ Len(accepted) - k + 1 = Len(buffer)
      BY DEF BufferIsLast, RecorderTypeOK
    <3> HIDE DEF k
    <3>2. \A i \in k..Len(accepted) : R[i] \in Entries
      BY <1>4, <3>1, ElementOfSeq
    <3> HIDE DEF R
    <3>3. /\ SubSeq(R, k, Len(accepted)) \in Seq(Entries)
          /\ Len(SubSeq(R, k, Len(accepted))) = Len(buffer)
          /\ \A i \in 1..Len(buffer) : SubSeq(R, k, Len(accepted))[i] = R[k + i - 1]
      BY <3>1, <3>2, SubSeqProperties DEF RecorderTypeOK
    <3>4. \A i \in 1..Len(buffer) : buffer[i] = R[k + i - 1]
      <4> TAKE i \in 1..Len(buffer)
      <4>1. k + i - 1 = Len(accepted) - Len(buffer) + i
        BY DEF k, RecorderTypeOK
      <4> QED
        BY <4>1 DEF BufferIsLast, R
    <3>5. buffer = SubSeq(R, k, Len(accepted))
      BY <3>3, <3>4, SeqEqual DEF RecorderTypeOK
    <3>6. Len(buffer) <= BufSize \div EventBytes
      BY RoomFor DEF PointerExact, RecorderTypeOK
    <3>7. Complete
      BY <2>3, <3>1, <3>5, <3>6 DEF Complete, Twice, R
    <3>8. Complete'
      BY <3>7 DEF Complete
    <3> QED
      BY <2>3, <3>8 DEF FileState
  <2> QED
    BY <2>1, <2>2, <2>3 DEF FileState, RecorderTypeOK
<1> QED
  BY <1>1, <1>2, <1>3, <1>5

(* A spike is packed into the buffer and kept. *)
LEMMA PackRecorder == ASSUME RecorderInv, Pack PROVE RecorderInv'
<1> USE RecorderAssumption DEF RecorderInv, Pack, Goto
<1>1. Spike \in Spikes /\ Record(Spike) \in Entries /\ ~closing
  BY SpikeType, RecordType DEF SpikeInHand, ClosingOnly
<1> DEFINE s == Spike
           r == Record(Spike)
<1>2. /\ accepted' = Append(accepted, s) /\ s \in Spikes
      /\ buffer' = Append(buffer, r) /\ r \in Entries
  BY <1>1
<1> HIDE DEF s
<1>3. /\ accepted' \in Seq(Spikes) /\ Len(accepted') = Len(accepted) + 1
      /\ buffer' \in Seq(Entries) /\ Len(buffer') = Len(buffer) + 1
      /\ \A i \in 1..Len(buffer) : buffer'[i] = buffer[i]
      /\ buffer'[Len(buffer) + 1] = r
  BY <1>2 DEF RecorderTypeOK
<1>4. RecorderTypeOK' /\ SpikeInHand' /\ ClosingOnly'
  BY <1>3 DEF RecorderTypeOK, SpikeInHand, ClosingOnly
<1>5. PointerExact'
  <2>1. EventBytes * (Len(buffer) + 1) = EventBytes * Len(buffer) + EventBytes
    BY DEF RecorderTypeOK
  <2> QED
    BY <1>3, <2>1 DEF PointerExact, RecorderTypeOK
<1>6. Records(accepted)' = Append(Records(accepted), r)
  BY <1>2, RecordsAppend DEF s, RecorderTypeOK
<1> DEFINE R == Records(accepted)
<1>7. /\ R \in Seq(Entries) /\ Len(R) = Len(accepted)
      /\ \A i \in 1..Len(R) : R'[i] = R[i]
      /\ R'[Len(R) + 1] = r
  <2>1. R \in Seq(Entries) /\ Len(R) = Len(accepted)
    BY RecordsType DEF RecorderTypeOK
  <2> QED
    BY <1>2, <1>6, <2>1
<1> HIDE DEF R, r
<1>8. BufferIsLast'
  <2>1. \A i \in 1..Len(buffer) : buffer[i] = R[Len(R) - Len(buffer) + i]
    BY <1>7 DEF BufferIsLast, R
  <2>2. \A i \in 1..Len(buffer') : buffer'[i] = R'[Len(accepted') - Len(buffer') + i]
    BY <1>3, <1>7, <2>1 DEF BufferIsLast, RecorderTypeOK
  <2> QED
    BY <1>3, <2>2 DEF BufferIsLast, R, RecorderTypeOK
<1>9. FileState'
  <2>1. file \o buffer = R
    BY <1>1 DEF FileState, BehindFile, R
  <2>2. file' \o buffer' = (file \o buffer) \o <<r>>
    BY <1>2, AppendIsConcat, ConcatAssociative DEF RecorderTypeOK
  <2>3. (file \o buffer) \o <<r>> = Append(R, r)
    BY <1>2, <1>7, <2>1, AppendIsConcat
  <2>4. BehindFile'
    BY <1>6, <2>2, <2>3 DEF BehindFile, R
  <2> QED
    BY <1>1, <2>4 DEF FileState
<1> QED
  BY <1>4, <1>5, <1>8, <1>9

(* Every step of the recorder and of its loop keeps the invariant. *)
LEMMA StepRecorder == RecorderInv /\ [Next]_vars => RecorderInv'
<1> SUFFICES ASSUME RecorderInv, [Next]_vars PROVE RecorderInv'
  OBVIOUS
<1> USE RecorderAssumption DEF Goto
<1> DEFINE Small == RecorderTypeOK /\ SpikeInHand /\ ClosingOnly
<1>1. ASSUME StartLobe PROVE RecorderInv'
  <2>1. Small'
    BY <1>1 DEF StartLobe, RecorderInv, RecorderTypeOK, SpikeInHand, ClosingOnly
  <2> QED
    BY <1>1, <2>1, SteadyRecorder DEF StartLobe, RecorderInv, ClosingOnly
<1>2. ASSUME EndLobe PROVE RecorderInv'
  <2>1. Small'
    BY <1>2 DEF EndLobe, RecorderInv, RecorderTypeOK, SpikeInHand, ClosingOnly
  <2> QED
    BY <1>2, <2>1, SteadyRecorder DEF EndLobe, RecorderInv, ClosingOnly
<1>3. ASSUME CheckSpace PROVE RecorderInv'
  <2>1. Small'
    BY <1>3 DEF CheckSpace, RecorderInv, RecorderTypeOK, SpikeInHand, ClosingOnly
  <2>2. pc' = "pack" => bufPtr + EventBytes - 1 <= BufSize
    BY <1>3 DEF CheckSpace, RecorderInv, RecorderTypeOK
  <2> QED
    BY <1>3, <2>1, <2>2, SteadyRecorder DEF CheckSpace, RecorderInv, ClosingOnly
<1>4. ASSUME Count PROVE RecorderInv'
  <2>1. PICK x : pending' = pending \ {x}
    BY <1>4 DEF Count
  <2>2. pending \in SUBSET (1..Neurons) /\ total \in Nat
    BY DEF RecorderInv, RecorderTypeOK
  <2>3. pending' \in SUBSET (1..Neurons)
    BY <2>1, <2>2
  <2>4. total' \in Nat
    BY <1>4, <2>2 DEF Count
  <2>5. Small'
    BY <1>4, <2>3, <2>4 DEF Count, RecorderInv, RecorderTypeOK, SpikeInHand, ClosingOnly
  <2> QED
    BY <1>4, <2>5, SteadyRecorder DEF Count, RecorderInv, ClosingOnly
<1>5. ASSUME EndLoop PROVE RecorderInv'
  <2>1. Small'
    BY <1>5 DEF EndLoop, RecorderInv, RecorderTypeOK, SpikeInHand, ClosingOnly
  <2> QED
    BY <1>5, <2>1, SteadyRecorder DEF EndLoop, RecorderInv, ClosingOnly
<1>6. ASSUME Interrupt PROVE RecorderInv'
  <2>1. Small'
    BY <1>6 DEF Interrupt, RecorderInv, RecorderTypeOK, SpikeInHand, ClosingOnly
  <2> QED
    BY <1>6, <2>1, SteadyRecorder DEF Interrupt, RecorderInv
<1>7. ASSUME Close PROVE RecorderInv'
  <2>1. Small'
    BY <1>7 DEF Close, RecorderInv, RecorderTypeOK, SpikeInHand, ClosingOnly
  <2> QED
    BY <1>7, <2>1, SteadyRecorder DEF Close, RecorderInv, ClosingOnly
<1>8. CASE UNCHANGED vars
  BY <1>8 DEF vars, RecorderInv, RecorderTypeOK, SpikeInHand, ClosingOnly, PointerExact,
     BufferIsLast, FileState, InFile, BehindFile, Twice, Complete
<1> QED
  BY <1>1, <1>2, <1>3, <1>4, <1>5, <1>6, <1>7, <1>8, WriteRecorder, ResetRecorder, PackRecorder
  DEF Next, RecordSpikes

(* What the invariant says of the checked properties. *)
LEMMA RecorderInvImplies == RecorderInv => RecorderTypeOK /\ BufferExact /\ ClosedFileComplete
  BY DEF RecorderInv, PointerExact, FileState, InFile, BehindFile, Complete,
     BufferExact, ClosedFileComplete

(* A research run drives the recorder only as the recorder's loop does,    *)
(* whatever the collector of the same run does.                            *)
THEOREM RunDrivesRecorder == RunSpec => Spec
<1>1. RunInit => Init
  BY DEF RunInit
<1>2. [RunNext]_runVars => [Next]_vars
  BY DEF RunNext, RecordTick, CollectTick, Next, runVars, vars
<1> QED
  BY <1>1, <1>2, PTL DEF RunSpec, Spec

(* The invariant holds in every reachable state of the recorder. *)
LEMMA RecorderInvariant == Spec => []RecorderInv
  BY InitRecorder, StepRecorder, PTL DEF Spec

(* Type correctness of the recorder. *)
THEOREM RecorderTypeCorrect == Spec => []RecorderTypeOK
  BY RecorderInvariant, RecorderInvImplies, PTL

(* In a research run no copy goes past the buffer, and until the file is   *)
(* being closed the file followed by the buffer is every kept spike in     *)
(* order, wherever the run stands.                                         *)
THEOREM SpikesBufferedExactly == RunSpec => []BufferExact
  BY RunDrivesRecorder, RecorderInvariant, RecorderInvImplies, PTL

(* The closed file of a research run holds every kept spike in order,      *)
(* wherever Ctrl-C came, and at most one buffer of them again.             *)
THEOREM ClosedSpikeFile == RunSpec => []ClosedFileComplete
  BY RunDrivesRecorder, RecorderInvariant, RecorderInvImplies, PTL

-----------------------------------------------------------------------------
CollectorTypeOK == /\ n_ticks \in Nat
                   /\ latencies \in Seq(Latencies)
                   /\ scores \in Seq(Grading!Signs)
                   /\ prices \in Seq(Prices)
                   /\ rest \in Nat

\* How many rows each column has, at each statement of record_tick!.
RowsAt == /\ mpc = "tick" => Len(prices) = n_ticks /\ rest = n_ticks
          /\ mpc \in {"latency", "score", "price"} =>
               Len(prices) = n_ticks - 1 /\ rest = Len(prices)
          /\ mpc = "rest" => Len(prices) = n_ticks /\ rest = n_ticks - 1
          /\ mpc \in {"latency", "score"} => Len(scores) = n_ticks - 1
          /\ mpc \in {"tick", "price", "rest"} => Len(scores) = n_ticks

\* The run was interrupted in the row of the last tick, before its price.
RowCut == interrupted /\ Len(prices) = n_ticks - 1 /\ rest = Len(prices)

Summary == Grading!Grade(n_ticks, scores, prices)

\* How many a run ends with, wherever it ends.
RowsLeft == mpc \in {"finalize", "done"} =>
              (Len(prices) = n_ticks \/ RowCut) /\ Len(scores) \in {n_ticks - 1, n_ticks}

\* The rows that are graded have all their prices.
PricesThere == n_ticks > Horizon => n_ticks <= Len(prices)

SummaryIs == mpc = "done" => summary = IF PricesThere THEN Summary ELSE BoundsError

\* The grade is that of the columns the run ended with, unless a row was cut.
GradedUnlessCut ==
  mpc = "done" => summary = Summary \/ (summary = BoundsError /\ RowCut)

CollectorInv == /\ CollectorTypeOK
                /\ mpc \in {"tick", "latency", "score", "price", "rest", "finalize", "done"}
                /\ RowsAt
                /\ RowsLeft
                /\ SummaryIs

LEMMA InitCollector == Grading!Init => CollectorInv
  BY DEF Grading!Init, CollectorInv, CollectorTypeOK, RowsAt, RowsLeft, SummaryIs

LEMMA StepCollector == CollectorInv /\ [Grading!Next]_grading => CollectorInv'
<1> SUFFICES ASSUME CollectorInv, [Grading!Next]_grading PROVE CollectorInv'
  OBVIOUS
<1> USE GradingAssumption
        DEF CollectorInv, CollectorTypeOK, RowsAt, RowCut, RowsLeft, PricesThere, SummaryIs,
            Grading!MetricsConstants, Grading!Signs, Grading!collector
<1>1. ASSUME Grading!Count PROVE CollectorInv'
  BY <1>1 DEF Grading!Count
<1>2. ASSUME Grading!PushLatency PROVE CollectorInv'
  BY <1>2 DEF Grading!PushLatency
<1>3. ASSUME Grading!PushScore PROVE CollectorInv'
  BY <1>3 DEF Grading!PushScore
<1>4. ASSUME Grading!PushPrice PROVE CollectorInv'
  BY <1>4 DEF Grading!PushPrice
<1>5. ASSUME Grading!PushRest PROVE CollectorInv'
  BY <1>5 DEF Grading!PushRest
<1>6. ASSUME Grading!EndLoop PROVE CollectorInv'
  BY <1>6 DEF Grading!EndLoop
<1>7. ASSUME Grading!Interrupt PROVE CollectorInv'
  BY <1>7 DEF Grading!Interrupt
<1>8. ASSUME Grading!FinalizeMetrics PROVE CollectorInv'
  <2>1. Summary' = Summary
    BY <1>8 DEF Grading!FinalizeMetrics, Summary
  <2> QED
    BY <1>8, <2>1 DEF Grading!FinalizeMetrics, Summary
<1>9. CASE UNCHANGED grading
  <2>1. Summary' = Summary
    BY <1>9 DEF grading, Summary
  <2> QED
    BY <1>9, <2>1 DEF grading
<1> QED
  BY <1>1, <1>2, <1>3, <1>4, <1>5, <1>6, <1>7, <1>8, <1>9 DEF Grading!Next

(* The collector's steps in a research run are those of Metrics. *)
THEOREM RunDrivesCollector == RunSpec => Grading!Spec
<1>1. RunInit => Grading!Init
  BY DEF RunInit
<1>2. [RunNext]_runVars => [Grading!Next]_(Grading!vars)
  BY DEF RunNext, RecordTick, CollectTick, Grading!Next, runVars, grading,
     Grading!vars, Grading!collector
<1> QED
  BY <1>1, <1>2, PTL DEF RunSpec, Grading!Spec

LEMMA CollectorInvariant == RunSpec => []CollectorInv
<1>1. [Grading!Next]_(Grading!vars) => [Grading!Next]_grading
  BY DEF grading, Grading!vars, Grading!collector
<1> QED
  BY <1>1, RunDrivesCollector, InitCollector, StepCollector, PTL DEF Grading!Spec

(* A finished run is graded over the columns it collected, unless Ctrl-C   *)
(* cut its last row before the price; no other interrupt costs the grade.  *)
THEOREM RunIsGraded == RunSpec => []GradedUnlessCut
<1>1. CollectorInv => GradedUnlessCut
  BY GradingAssumption
  DEF CollectorInv, CollectorTypeOK, RowsLeft, PricesThere, SummaryIs, GradedUnlessCut,
      RowCut, Grading!MetricsConstants
<1> QED
  BY <1>1, CollectorInvariant, PTL

(* Scores that agree on the graded rows are graded alike. *)
LEMMA GradeReads ==
  ASSUME NEW n, NEW ss, NEW alt, NEW ps,
         \A t \in 1..(n - Horizon) : alt[t] = ss[t]
  PROVE  Grading!Grade(n, alt, ps) = Grading!Grade(n, ss, ps)
<1> DEFINE G == 1..(n - Horizon)
           Labelled(s) == {t \in G : Grading!Decided(s, t) # 0 /\ Grading!Return(ps, t) # 0}
           Hits(s) == {t \in Labelled(s) :
                         Grading!Decided(s, t) = Grading!SignOf(Grading!Return(ps, t))}
           Profits(s) == [t \in G |-> Grading!Profit(Grading!Decided(s, t), Grading!Return(ps, t))]
<1>1. \A t \in G : Grading!Decided(alt, t) = Grading!Decided(ss, t)
  BY DEF Grading!Decided
<1>2. Labelled(alt) = Labelled(ss) /\ Hits(alt) = Hits(ss)
  BY <1>1
<1>3. Profits(alt) = Profits(ss)
  BY <1>1
<1>4. ASSUME NEW s
      PROVE  Grading!Grade(n, s, ps) =
         [labeled |-> Grading!Cardinality(Labelled(s)), hits |-> Grading!Cardinality(Hits(s)),
          pnl |-> Grading!Total(Profits(s))]
  BY DEF Grading!Grade
<1> HIDE DEF Labelled, Hits, Profits
<1> QED
  BY <1>2, <1>3, <1>4

(* The grade of a research run is decided before it can be known: it reads *)
(* no score of the last `horizon` rows.                                    *)
THEOREM GradeIsWalkForward == RunSpec => []WalkForward
<1>1. CollectorInv => WalkForward
  BY GradeReads DEF CollectorInv, SummaryIs, Summary, WalkForward,
     Grading!WalkForward, Grading!Graded
<1> QED
  BY <1>1, CollectorInvariant, PTL

-----------------------------------------------------------------------------
(* The sums and the sizes of Metrics are those of the lemmas.              *)
LEMMA GradeTotal == ASSUME NEW f PROVE Grading!Total(f) = Sum(f)
  BY DEF Grading!Total, Grading!FoldFunction, Grading!FoldFunctionOnSet,
         Grading!MapThenFoldSet, Sum, FoldFunction, FoldFunctionOnSet, MapThenFoldSet

LEMMA GradeCount == ASSUME NEW S PROVE Grading!Cardinality(S) = Cardinality(S)
  BY DEF Grading!Cardinality, Cardinality

\* The grade of positions held over returns, both given for the rows G.
Trades(G, a) == {t \in G : a[t] # 0}
Labelled(G, a, r) == {t \in G : a[t] # 0 /\ r[t] # 0}
Hits(G, a, r) == {t \in Labelled(G, a, r) : a[t] = Grading!SignOf(r[t])}
Profits(G, a, r) == [t \in G |-> Grading!Profit(a[t], r[t])]

GradeOf(G, a, r) == [labeled |-> Cardinality(Labelled(G, a, r)),
                     hits |-> Cardinality(Hits(G, a, r)),
                     pnl |-> Sum(Profits(G, a, r))]

LEMMA GradeIs ==
  ASSUME NEW n, NEW ss, NEW ps, NEW a, NEW r,
         \A t \in 1..(n - Horizon) : a[t] = ss[t] /\ r[t] = Grading!Return(ps, t)
  PROVE  Grading!Grade(n, ss, ps) = GradeOf(1..(n - Horizon), a, r)
<1> DEFINE G == 1..(n - Horizon)
           Labels == {t \in G : Grading!Decided(ss, t) # 0 /\ Grading!Return(ps, t) # 0}
           Right == {t \in Labels :
                       Grading!Decided(ss, t) = Grading!SignOf(Grading!Return(ps, t))}
           Gains == [t \in G |-> Grading!Profit(Grading!Decided(ss, t), Grading!Return(ps, t))]
<1>1. \A t \in G : Grading!Decided(ss, t) = a[t] /\ Grading!Return(ps, t) = r[t]
  BY DEF Grading!Decided
<1> HIDE DEF G
<1>2. Labels = Labelled(G, a, r)
  BY <1>1 DEF Labelled
<1>3. Right = Hits(G, a, r)
  BY <1>1 DEF Labelled, Hits
<1>4. Gains = Profits(G, a, r)
  BY <1>1 DEF Profits
<1>5. Grading!Grade(n, ss, ps) =
        [labeled |-> Grading!Cardinality(Labels), hits |-> Grading!Cardinality(Right),
         pnl |-> Grading!Total(Gains)]
  BY DEF Grading!Grade, G
<1> HIDE DEF Labels, Right, Gains
<1> QED
  BY <1>2, <1>3, <1>4, <1>5, GradeCount, GradeTotal DEF GradeOf, G

(* A position and its opposite lose two costs between them, or nothing.    *)
LEMMA ProfitMirrors ==
  ASSUME NEW pred \in Grading!Signs, NEW ret \in Int
  PROVE  /\ Grading!Profit(pred, ret) \in Int
         /\ Grading!Profit(-pred, ret) \in Int
         /\ Grading!Profit(pred, ret) + Grading!Profit(-pred, ret) =
              IF pred = 0 THEN 0 ELSE -2 * Cost
<1> USE GradingAssumption DEF Grading!MetricsConstants, Grading!Profit
<1>1. CASE pred = 1
  BY <1>1
<1>2. CASE pred = 0
  <2>1. PICK opposite : opposite = -pred
    OBVIOUS
  <2>2. opposite = 0 - pred
    <3>1. pred \in Int
      BY DEF Grading!Signs
    <3> QED
      BY <2>1, <3>1
  <2>3. opposite = 0
    BY <1>2, <2>2
  <2>4. 0 * ret = 0
    OBVIOUS
  <2>5. Grading!Profit(0, ret) = 0
    BY <2>4
  <2>6. Grading!Profit(opposite, ret) = 0 /\ Grading!Profit(pred, ret) = 0
    BY <1>2, <2>3, <2>5
  <2> HIDE DEF Grading!Profit
  <2>7. Grading!Profit(-pred, ret) = 0
    BY <2>1, <2>6
  <2> QED
    BY <1>2, <2>6, <2>7
<1>3. CASE pred = -1
  BY <1>3
<1> QED
  BY <1>1, <1>2, <1>3 DEF Grading!Signs

(* The grade is made of counts and an integer.                             *)
LEMMA GradeType ==
  ASSUME NEW G, IsFiniteSet(G), NEW a \in [G -> Grading!Signs], NEW r \in [G -> Int]
  PROVE  GradeOf(G, a, r) \in [labeled : Nat, hits : Nat, pnl : Int]
<1>1. Labelled(G, a, r) \in SUBSET G /\ Hits(G, a, r) \in SUBSET G
  BY DEF Labelled, Hits
<1>2. Cardinality(Labelled(G, a, r)) \in Nat /\ Cardinality(Hits(G, a, r)) \in Nat
  BY <1>1, FS_Subset, FS_CardinalityType
<1>3. Profits(G, a, r) \in [G -> Int]
  <2>1. \A t \in G : Grading!Profit(a[t], r[t]) \in Int
    BY ProfitMirrors
  <2> QED
    BY <2>1 DEF Profits
<1>4. Sum(Profits(G, a, r)) \in Int
  BY <1>3, SumType
<1> QED
  BY <1>2, <1>4 DEF GradeOf

(* The opposite positions hit where these miss, and cost as much.          *)
LEMMA GradeMirrors ==
  ASSUME NEW G, IsFiniteSet(G), NEW a \in [G -> Grading!Signs], NEW b \in [G -> Grading!Signs],
         NEW r \in [G -> Int], \A t \in G : b[t] = -a[t]
  PROVE  /\ GradeOf(G, b, r).labeled = GradeOf(G, a, r).labeled
         /\ GradeOf(G, b, r).hits + GradeOf(G, a, r).hits = GradeOf(G, a, r).labeled
         /\ GradeOf(G, b, r).pnl + GradeOf(G, a, r).pnl =
              -2 * Cost * Cardinality(Trades(G, a))
<1>1. \A t \in G : a[t] \in {-1, 0, 1} /\ b[t] \in {-1, 0, 1} /\ r[t] \in Int
  BY DEF Grading!Signs
<1>2. Labelled(G, b, r) = Labelled(G, a, r)
  BY <1>1 DEF Labelled
<1>3. Hits(G, b, r) \cup Hits(G, a, r) = Labelled(G, a, r)
  BY <1>1 DEF Labelled, Hits, Grading!SignOf
<1>4. Hits(G, b, r) \cap Hits(G, a, r) = {}
  BY <1>1 DEF Labelled, Hits, Grading!SignOf
<1>5. Cardinality(Hits(G, b, r)) + Cardinality(Hits(G, a, r)) = Cardinality(Labelled(G, a, r))
  <2>1. Hits(G, b, r) \in SUBSET G /\ Hits(G, a, r) \in SUBSET G
    BY DEF Labelled, Hits
  <2>2. IsFiniteSet(Hits(G, b, r)) /\ IsFiniteSet(Hits(G, a, r))
    BY <2>1, FS_Subset
  <2>3. Cardinality(Hits(G, b, r)) \in Nat /\ Cardinality(Hits(G, a, r)) \in Nat
    BY <2>2, FS_CardinalityType
  <2>4. ASSUME NEW S, NEW T, IsFiniteSet(S), IsFiniteSet(T), S \cap T = {}
        PROVE  Cardinality(S \cup T) = Cardinality(S) + Cardinality(T)
    <3>1. Cardinality(S \cap T) = 0
      BY <2>4, FS_EmptySet
    <3>2. Cardinality(S) \in Nat /\ Cardinality(T) \in Nat
      BY <2>4, FS_CardinalityType
    <3>3. Cardinality(S \cup T) = Cardinality(S) + Cardinality(T) - Cardinality(S \cap T)
      BY <2>4, FS_Union
    <3> HIDE <2>4
    <3> QED
      BY <3>1, <3>2, <3>3
  <2> QED
    BY <1>3, <1>4, <2>2, <2>3, <2>4
<1> DEFINE ones == [t \in G |-> IF a[t] # 0 THEN 1 ELSE 0]
<1>6. Sum(ones) = Cardinality(Trades(G, a))
  <2>1. ones \in [G -> Int] /\ \A t \in G : ones[t] = IF t \in Trades(G, a) THEN 1 ELSE 0
    BY DEF Trades
  <2>2. Trades(G, a) \in SUBSET G
    BY DEF Trades
  <2> QED
    BY <2>1, <2>2, SumCounts
<1>7. PICK c \in Int : c = -2 * Cost
  BY GradingAssumption DEF Grading!MetricsConstants
<1>8. /\ Profits(G, a, r) \in [G -> Int] /\ Profits(G, b, r) \in [G -> Int]
      /\ \A t \in G : Profits(G, b, r)[t] + Profits(G, a, r)[t] = IF a[t] = 0 THEN 0 ELSE c
  BY <1>7, ProfitMirrors DEF Profits
<1>9. Sum(Profits(G, b, r)) + Sum(Profits(G, a, r)) = c * Cardinality(Trades(G, a))
  <2> DEFINE both == [t \in G |-> IF a[t] = 0 THEN 0 ELSE c]
  <2>1. both \in [G -> Int] /\ ones \in [G -> Int]
    OBVIOUS
  <2>2. \A t \in G : both[t] = Profits(G, b, r)[t] + Profits(G, a, r)[t]
    BY <1>8
  <2>3. \A t \in G : both[t] = c * ones[t]
    OBVIOUS
  <2> HIDE DEF both, ones
  <2>4. Sum(both) = Sum(Profits(G, b, r)) + Sum(Profits(G, a, r))
    BY <1>8, <2>1, <2>2, SumAdded
  <2>5. Sum(both) = c * Sum(ones)
    BY <2>1, <2>3, SumScaled
  <2> QED
    BY <1>6, <2>4, <2>5
<1>10. c * Cardinality(Trades(G, a)) = -2 * Cost * Cardinality(Trades(G, a))
  <2>1. Cardinality(Trades(G, a)) \in Nat /\ Cost \in Nat
    <3>1. Trades(G, a) \in SUBSET G
      BY DEF Trades
    <3> QED
      BY <3>1, FS_Subset, FS_CardinalityType, GradingAssumption DEF Grading!MetricsConstants
  <2>2. PICK m \in Nat, k \in Nat : m = Cardinality(Trades(G, a)) /\ k = Cost
    BY <2>1
  <2>3. (-2 * k) * m = -2 * k * m
    OBVIOUS
  <2> QED
    BY <1>7, <2>2, <2>3
<1> QED
  BY <1>2, <1>5, <1>9, <1>10 DEF GradeOf

\* The rows a run is graded over.
Rows == 1..(n_ticks - Horizon)

(* Their scores, prices and returns are there.                             *)
LEMMA RowsGraded ==
  ASSUME CollectorInv, mpc = "done", PricesThere
  PROVE  /\ IsFiniteSet(Rows)
         /\ \A t \in Rows : /\ t \in DOMAIN scores /\ scores[t] \in Grading!Signs
                            /\ Grading!Return(prices, t) \in Int
<1>1. n_ticks \in Nat /\ Horizon \in Nat \ {0} /\ n_ticks - Horizon \in Int
  BY GradingAssumption DEF CollectorInv, CollectorTypeOK, Grading!MetricsConstants
<1>2. IsFiniteSet(Rows)
  BY <1>1, FS_Interval DEF Rows
<1>3. ASSUME NEW t \in Rows PROVE t \in DOMAIN scores /\ scores[t] \in Grading!Signs
  <2>1. t \in 1..Len(scores)
    BY <1>1 DEF Rows, CollectorInv, CollectorTypeOK, RowsLeft
  <2> QED
    BY <2>1 DEF CollectorInv, CollectorTypeOK
<1>4. ASSUME NEW t \in Rows PROVE Grading!Return(prices, t) \in Int
  <2>1. t \in 1..Len(prices) /\ t + Horizon \in 1..Len(prices)
    BY <1>1 DEF Rows, CollectorInv, CollectorTypeOK, PricesThere
  <2>2. prices[t] \in Prices /\ prices[t + Horizon] \in Prices
    BY <2>1 DEF CollectorInv, CollectorTypeOK
  <2>3. PICK old \in Nat \ {0}, new \in Nat : old = prices[t] /\ new = prices[t + Horizon]
    BY <2>2, GradingAssumption DEF Grading!MetricsConstants
  <2>4. (Scale * (new - old)) \div old \in Int
    <3>1. Scale \in Nat
      BY GradingAssumption DEF Grading!MetricsConstants
    <3>2. PICK m \in Int : m = Scale * (new - old)
      BY <3>1
    <3> QED
      BY <3>2
  <2> QED
    BY <2>3, <2>4 DEF Grading!Return
<1> QED
  BY <1>2, <1>3, <1>4

LEMMA FairToBothSides == CollectorInv => Grading!OppositeMirrors
<1> SUFFICES ASSUME CollectorInv, Grading!Graded PROVE Grading!OppositeMirrors
  BY DEF Grading!OppositeMirrors
<1> DEFINE a == [t \in Rows |-> scores[t]]
           b == [t \in Rows |-> -scores[t]]
           r == [t \in Rows |-> Grading!Return(prices, t)]
           contrary == [t \in DOMAIN scores |-> -scores[t]]
           opposite == Grading!Grade(n_ticks, contrary, prices)
<1>1. mpc = "done" /\ PricesThere /\ summary = Summary
  BY DEF CollectorInv, SummaryIs, Grading!Graded
<1>2. /\ IsFiniteSet(Rows)
      /\ \A t \in Rows : /\ t \in DOMAIN scores /\ scores[t] \in Grading!Signs
                         /\ Grading!Return(prices, t) \in Int
  BY <1>1, RowsGraded
<1>3. summary = GradeOf(Rows, a, r)
  <2>1. \A t \in 1..(n_ticks - Horizon) : a[t] = scores[t] /\ r[t] = Grading!Return(prices, t)
    BY DEF Rows
  <2> HIDE DEF a, r
  <2> QED
    BY <1>1, <2>1, GradeIs DEF Summary, Rows
<1>4. opposite = GradeOf(Rows, b, r)
  <2>1. \A t \in 1..(n_ticks - Horizon) : b[t] = contrary[t] /\ r[t] = Grading!Return(prices, t)
    BY <1>2 DEF Rows
  <2> HIDE DEF b, r, contrary
  <2> QED
    BY <2>1, GradeIs DEF Rows
<1>5. /\ a \in [Rows -> Grading!Signs] /\ b \in [Rows -> Grading!Signs] /\ r \in [Rows -> Int]
      /\ \A t \in Rows : b[t] = -a[t]
  <2>1. \A s \in Grading!Signs : -s \in Grading!Signs
    BY DEF Grading!Signs
  <2> QED
    BY <1>2, <2>1
<1>6. Trades(Rows, a) = {t \in 1..(n_ticks - Horizon) : scores[t] # 0}
  BY DEF Rows, Trades
<1> HIDE DEF a, b, r, contrary, opposite
<1>7. /\ opposite.labeled = summary.labeled
      /\ opposite.hits + summary.hits = summary.labeled
      /\ opposite.pnl + summary.pnl = -2 * Cost * Cardinality(Trades(Rows, a))
  <2>1. /\ GradeOf(Rows, b, r).labeled = GradeOf(Rows, a, r).labeled
        /\ GradeOf(Rows, b, r).hits + GradeOf(Rows, a, r).hits = GradeOf(Rows, a, r).labeled
        /\ GradeOf(Rows, b, r).pnl + GradeOf(Rows, a, r).pnl =
             -2 * Cost * Cardinality(Trades(Rows, a))
    BY <1>2, <1>5, GradeMirrors
  <2> QED
    BY <1>3, <1>4, <2>1, Zenon
<1>8. Grading!Cardinality({t \in 1..(n_ticks - Horizon) : scores[t] # 0}) =
        Cardinality(Trades(Rows, a))
  BY <1>6, GradeCount
<1> QED
  BY <1>7, <1>8 DEF Grading!OppositeMirrors, opposite, contrary

LEMMA GradedUnlessInterrupted == CollectorInv => Grading!UngradedOnlyIfCut
<1> SUFFICES ASSUME CollectorInv, mpc = "done", summary = BoundsError
             PROVE  interrupted /\ Len(prices) = n_ticks - 1 /\ rest = Len(prices)
  BY DEF Grading!UngradedOnlyIfCut
<1>1. ~PricesThere
  <2> SUFFICES ASSUME PricesThere PROVE FALSE
    OBVIOUS
  <2> DEFINE a == [t \in Rows |-> scores[t]]
             r == [t \in Rows |-> Grading!Return(prices, t)]
  <2>1. IsFiniteSet(Rows) /\ a \in [Rows -> Grading!Signs] /\ r \in [Rows -> Int]
    BY RowsGraded
  <2>2. \A t \in 1..(n_ticks - Horizon) : a[t] = scores[t] /\ r[t] = Grading!Return(prices, t)
    BY DEF Rows
  <2> HIDE DEF a, r
  <2>3. Summary = GradeOf(Rows, a, r)
    BY <2>2, GradeIs DEF Summary, Rows
  <2>4. Summary \in [labeled : Nat, hits : Nat, pnl : Int]
    BY <2>1, <2>3, GradeType
  <2>5. Summary = BoundsError
    BY DEF CollectorInv, SummaryIs
  <2> QED
    BY <2>4, <2>5, GradingAssumption DEF Grading!MetricsConstants
<1> QED
  BY <1>1, GradingAssumption
  DEF PricesThere, RowCut, RowsLeft, CollectorInv, CollectorTypeOK, Grading!MetricsConstants

-----------------------------------------------------------------------------
\* The least latency first: order puts the column xs of n rows in order.
Orders(order, xs, n) ==
  /\ order \in Bijection(1..n, 1..n)
  /\ \A i, j \in 1..n : i < j => xs[order[i]] <= xs[order[j]]

(* The sorted column is the column, in such an order.                      *)
LEMMA SortedIs ==
  ASSUME NEW n \in Nat, NEW xs \in [1..n -> Nat]
  PROVE  \E order : Orders(order, xs, n) /\ Grading!Sorted(xs) = [i \in 1..n |-> xs[order[i]]]
<1> DEFINE R(p) == \A i, j \in DOMAIN xs : i < j => xs[p[i]] <= xs[p[j]]
           order == CHOOSE p \in Grading!Bijection(DOMAIN xs, DOMAIN xs) : R(p)
<1>1. DOMAIN xs = 1..n /\ xs \in [1..n -> Int]
  OBVIOUS
<1>2. \E p \in Bijection(DOMAIN xs, DOMAIN xs) : R(p)
  BY <1>1, SortingExists
<1>3. Grading!Bijection(DOMAIN xs, DOMAIN xs) = Bijection(DOMAIN xs, DOMAIN xs)
  BY DEF Grading!Bijection, Grading!Injection, Grading!Surjection, Grading!IsInjective,
         Bijection, Injection, Surjection, IsInjective
<1>4. Grading!Sorted(xs) = [i \in DOMAIN xs |-> xs[order[i]]]
  BY DEF Grading!Sorted
<1>5. order \in Bijection(DOMAIN xs, DOMAIN xs) /\ R(order)
  <2> HIDE DEF R
  <2> QED
    BY <1>2, <1>3
<1> HIDE DEF order
<1>6. Orders(order, xs, n)
  BY <1>1, <1>5 DEF Orders
<1> QED
  BY <1>1, <1>4, <1>6

\* How many of the rows of xs are no more than v.
Below(xs, n, v) == {t \in 1..n : xs[t] <= v}

(* The k-th in order has at least k rows below it, itself among them, and  *)
(* what is less than it has fewer.                                         *)
LEMMA RankOf ==
  ASSUME NEW n \in Nat, NEW xs \in [1..n -> Nat], NEW order, Orders(order, xs, n)
  PROVE  \A k \in 1..n, v \in Nat :
           /\ Cardinality(Below(xs, n, v)) \in Nat
           /\ xs[order[k]] <= v => k <= Cardinality(Below(xs, n, v))
           /\ v < xs[order[k]] => Cardinality(Below(xs, n, v)) <= k - 1
<1> TAKE k \in 1..n, v \in Nat
<1> DEFINE w == xs[order[k]]
           S == Below(xs, n, v)
           ys == [i \in 1..n |-> xs[order[i]]]
<1>1. /\ order \in [1..n -> 1..n]
      /\ \A i, j \in 1..n : order[i] = order[j] => i = j
      /\ \A t \in 1..n : \E i \in 1..n : order[i] = t
      /\ \A i, j \in 1..n : i < j => xs[order[i]] <= xs[order[j]]
  BY DEF Orders, Bijection, Injection, Surjection, IsInjective
<1>2. /\ \A i \in 1..n : order[i] \in 1..n /\ ys[i] = xs[order[i]] /\ ys[i] \in Nat
      /\ \A i, j \in 1..n : i < j => ys[i] <= ys[j]
      /\ w = ys[k]
  BY <1>1
<1> HIDE DEF ys, w
<1>3. IsFiniteSet(S) /\ Cardinality(S) \in Nat
  <2>1. S \in SUBSET (1..n) /\ IsFiniteSet(1..n)
    BY FS_Interval DEF Below
  <2> QED
    BY <2>1, FS_Subset, FS_CardinalityType
<1>4. ASSUME w <= v PROVE k <= Cardinality(S)
  <2> DEFINE first == [i \in 1..k |-> order[i]]
  <2>1. \A i \in 1..k : i \in 1..n /\ order[i] \in S
    <3> TAKE i \in 1..k
    <3>1. i \in 1..n /\ (i = k \/ i < k)
      OBVIOUS
    <3>2. ys[i] <= ys[k]
      BY <1>2, <3>1
    <3> QED
      BY <1>2, <1>4, <3>1, <3>2 DEF Below
  <2>2. first \in Injection(1..k, S)
    BY <1>1, <2>1 DEF Injection, IsInjective
  <2>3. Cardinality(1..k) <= Cardinality(S)
    BY <1>3, <2>2, FS_Injection
  <2> QED
    BY <2>3, FS_Interval
<1>5. ASSUME v < w PROVE Cardinality(S) <= k - 1
  <2> DEFINE place == [t \in S |-> CHOOSE i \in 1..n : order[i] = t]
  <2>1. ASSUME NEW t \in S PROVE place[t] \in 1..(k - 1) /\ order[place[t]] = t
    <3>1. t \in 1..n /\ xs[t] <= v
      BY DEF Below
    <3>2. place[t] \in 1..n /\ order[place[t]] = t
      BY <1>1, <3>1
    <3> HIDE DEF place
    <3>3. PICK i \in 1..n : i = place[t] /\ order[i] = t
      BY <3>2
    <3>4. ys[i] <= v
      BY <1>2, <3>1, <3>3
    <3>5. ~(k < i) /\ i # k
      BY <1>2, <1>5, <3>4
    <3> QED
      BY <3>3, <3>5
  <2>2. place \in [S -> 1..(k - 1)]
    BY <2>1
  <2> HIDE DEF place
  <2>3. \A s, t \in S : place[s] = place[t] => s = t
    BY <2>1, Zenon
  <2>4. place \in Injection(S, 1..(k - 1))
    BY <2>2, <2>3 DEF Injection, IsInjective
  <2>5. IsFiniteSet(1..(k - 1)) /\ Cardinality(1..(k - 1)) = k - 1
    <3>1. PICK m \in Nat : m = k - 1
      OBVIOUS
    <3>2. IsFiniteSet(1..m) /\ Cardinality(1..m) = m
      BY FirstNumbers
    <3> QED
      BY <3>1, <3>2
  <2> QED
    BY <2>4, <2>5, FS_Injection
<1> QED
  BY <1>3, <1>4, <1>5 DEF w

LEMMA PercentilesAreRanks == CollectorInv => Grading!NearestRank
<1> SUFFICES ASSUME CollectorInv, latencies # <<>> PROVE Grading!NearestRank
  BY DEF Grading!NearestRank
<1> DEFINE n == Len(latencies)
           xs == latencies
<1>1. n \in Nat \ {0} /\ xs \in [1..n -> Nat] /\ DOMAIN xs = 1..n
  <2>1. latencies \in Seq(Latencies) /\ Latencies \subseteq Nat
    BY GradingAssumption DEF CollectorInv, CollectorTypeOK, Grading!MetricsConstants
  <2>2. Len(latencies) # 0
    BY <2>1, EmptySeq
  <2>3. \A t \in 1..Len(latencies) : latencies[t] \in Nat
    BY <2>1, ElementOfSeq
  <2> QED
    BY <2>1, <2>2, <2>3
<1> HIDE DEF n, xs
<1>2. PICK order : Orders(order, xs, n) /\ Grading!Sorted(xs) = [i \in 1..n |-> xs[order[i]]]
  BY <1>1, SortedIs
<1>3. ASSUME NEW p \in {50, 99}
      PROVE  \E k \in 1..n : /\ Grading!Pct(xs, p) = xs[order[k]]
                             /\ 100 * k >= p * n /\ 100 * (k - 1) < p * n
  <2> DEFINE m == p * n + 99
             idx == m \div 100
  <2>1. /\ m \in Nat /\ 99 < m /\ p * n <= m
        /\ idx \in Nat /\ 100 * idx <= m /\ m < 100 * idx + 100 /\ p * n <= 100 * n
    BY <1>1
  <2>2. m = p * n + 99
    OBVIOUS
  <2>3. p * n \in Nat
    BY <1>1
  <2> HIDE DEF m, idx
  <2>4. idx \in 1..n /\ 100 * idx >= p * n /\ 100 * (idx - 1) < p * n
    BY <1>1, <2>1, <2>2, <2>3
  <2>5. Grading!Pct(xs, p) = Grading!Sorted(xs)[idx]
    BY <2>4 DEF Grading!Pct, idx, m, n, xs
  <2> QED
    BY <1>2, <2>4, <2>5
<1> DEFINE Covers(v, p) == 100 * Cardinality(Below(xs, n, v)) >= p * n
<1>4. ASSUME NEW p \in {50, 99}
      PROVE  /\ Covers(Grading!Pct(xs, p), p)
             /\ \A t \in 1..n : Covers(xs[t], p) => Grading!Pct(xs, p) <= xs[t]
  <2>1. PICK k \in 1..n : /\ Grading!Pct(xs, p) = xs[order[k]]
                          /\ 100 * k >= p * n /\ 100 * (k - 1) < p * n
    BY <1>3
  <2>2. PICK v \in Nat : v = Grading!Pct(xs, p) /\ v = xs[order[k]]
    <3>1. order[k] \in 1..n
      BY <1>2 DEF Orders, Bijection, Injection
    <3> QED
      BY <1>1, <2>1, <3>1
  <2>0. ASSUME NEW u \in Nat
        PROVE  /\ Cardinality(Below(xs, n, u)) \in Nat
               /\ v <= u => k <= Cardinality(Below(xs, n, u))
               /\ u < v => Cardinality(Below(xs, n, u)) <= k - 1
    <3>1. \A i \in 1..n, z \in Nat :
            /\ Cardinality(Below(xs, n, z)) \in Nat
            /\ xs[order[i]] <= z => i <= Cardinality(Below(xs, n, z))
            /\ z < xs[order[i]] => Cardinality(Below(xs, n, z)) <= i - 1
      BY <1>1, <1>2, RankOf
    <3> QED
      BY <2>2, <3>1
  <2>3. Covers(v, p)
    <3>1. k <= Cardinality(Below(xs, n, v)) /\ Cardinality(Below(xs, n, v)) \in Nat
      BY <2>0
    <3> QED
      BY <1>1, <2>1, <3>1
  <2>4. ASSUME NEW t \in 1..n, Covers(xs[t], p) PROVE v <= xs[t]
    <3>1. PICK u \in Nat : u = xs[t]
      BY <1>1
    <3>2. /\ Cardinality(Below(xs, n, u)) \in Nat
          /\ u < v => Cardinality(Below(xs, n, u)) <= k - 1
      BY <2>0
    <3>3. 100 * Cardinality(Below(xs, n, u)) >= p * n
      BY <2>4, <3>1
    <3> QED
      BY <1>1, <2>1, <3>1, <3>2, <3>3
  <2> QED
    BY <2>2, <2>3, <2>4
<1>5. \A v : Grading!Cardinality({t \in DOMAIN latencies : latencies[t] <= v}) =
               Cardinality(Below(xs, n, v))
  BY <1>1, GradeCount DEF Below, xs
<1> DEFINE Counted(v, p) ==
             100 * Grading!Cardinality({t \in DOMAIN latencies : latencies[t] <= v})
               >= p * Len(latencies)
<1>6. \A v, p : Counted(v, p) <=> Covers(v, p)
  BY <1>5 DEF n
<1> HIDE DEF Covers, Counted
<1>7. ASSUME NEW p \in {50, 99}
      PROVE  /\ Counted(Grading!Pct(latencies, p), p)
             /\ \A v \in {latencies[t] : t \in DOMAIN latencies} :
                  Counted(v, p) => Grading!Pct(latencies, p) <= v
  BY <1>1, <1>4, <1>6 DEF xs
<1> QED
  BY <1>7 DEF Grading!NearestRank, Counted

(* The summary of a finished run is fair: the grade favours neither side,  *)
(* the latency percentiles are nearest ranks, and only an interrupt inside *)
(* record_tick! leaves the run without a grade (brain/metrics.jl:92).      *)
THEOREM TheSummaryIsFair == RunSpec => []SummaryFair
<1>1. CollectorInv => SummaryFair
  BY FairToBothSides, PercentilesAreRanks, GradedUnlessInterrupted DEF SummaryFair
<1> QED
  BY <1>1, CollectorInvariant, PTL
===============================================================================
