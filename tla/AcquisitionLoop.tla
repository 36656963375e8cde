--------------------------- MODULE AcquisitionLoop ---------------------------
(***************************************************************************)
(* collector/collector.py _run_loop with collector/simulator.py: what one  *)
(* acquisition thread reads, numbers and labels.                           *)
(*                                                                         *)
(* One thread runs this loop alone; what other threads do to it is the     *)
(* subject of module Collector.  A sample of an IQ file is its position in *)
(* the file, a sample of the device has no identity.  One pass through the *)
(* loop body is two steps: hop or not, then read, label and emit.          *)
(***************************************************************************)
EXTENDS Integers, Sequences

CONSTANTS MaxTotal,       \* IQ files of 0..MaxTotal samples
          MaxChunk,       \* buffer_size from 1..MaxChunk
          FramesPerBurst, \* 200 in the code
          Frequencies,    \* config.frequencies, a sequence
          MaxFrames       \* bound: frames emitted

ASSUME SizeAssumption == MaxTotal \in Nat \ {0} /\ MaxChunk \in Nat \ {0}
ASSUME BurstAssumption == FramesPerBurst \in Nat \ {0}
ASSUME FrequencyAssumption == Frequencies \in Seq(Nat \ {0}) /\ Frequencies # <<>>

VARIABLES source,     \* "simulator" or "device"
          total,      \* samples in the simulator's file
          chunk,      \* config.buffer_size
          loopPlay,   \* config.loop_play
          pos,        \* simulator._pos
          freqIndex,  \* _freq_index
          tuned,      \* the device's receive frequency
          frameId,    \* _frame_id
          burstId,    \* _burst_id
          stage,      \* "top", "read" or "done"
          emitted     \* history: the frames handed to the callbacks

fileVars == <<source, total, chunk, loopPlay>>
tuneVars == <<freqIndex, tuned>>
countVars == <<frameId, burstId, emitted>>
vars == <<source, total, chunk, loopPlay, pos, freqIndex, tuned,
          frameId, burstId, stage, emitted>>

\* start() has reset the counters; _apply_config has tuned the device to the
\* first frequency.
Init ==
    /\ source \in {"simulator", "device"}
    /\ total \in 0 .. MaxTotal
    /\ chunk \in 1 .. MaxChunk
    /\ loopPlay \in BOOLEAN
    /\ pos = 0
    /\ freqIndex = 0
    /\ tuned = Frequencies[1]
    /\ frameId = 0
    /\ burstId = 0
    /\ stage = "top"
    /\ emitted = <<>>
-----------------------------------------------------------------------------
(* simulator.read_chunk *)

\* The position after n samples from p: back to 0 at the end of the file.
NextPos(p, n) == IF p + n >= total THEN 0 ELSE p + n

\* File positions p, p+1, ... of n samples, without wrapping.
Slice(p, n) == [i \in 1 .. n |-> p + i - 1]

ReadLoopSkippingTail ==   \* faulty: a chunk the file cannot fill starts over
    LET from == IF total - pos >= chunk THEN pos ELSE 0
    IN  [samples |-> Slice(from, chunk), pos |-> NextPos(from, chunk)]

\* The while loop: take what is needed, or what the file has left and the rest
\* from its beginning.  The file is longer than the chunk, so that it does not
\* go round a third time.
ReadLoop ==
    LET available == total - pos
        needed == chunk - available
    IN  IF available >= chunk
          THEN [samples |-> Slice(pos, chunk), pos |-> NextPos(pos, chunk)]
          ELSE [samples |-> Slice(pos, available) \o Slice(0, needed),
                pos     |-> NextPos(0, needed)]

\* A request for the whole file or more gets the file once.
ReadChunk ==
    IF chunk >= total
      THEN [samples |-> Slice(0, total), pos |-> 0]
      ELSE ReadLoop
-----------------------------------------------------------------------------
(* _run_loop *)

LastIndex == Len(Frequencies) - 1

\* The loop body begins.  With several frequencies and the interval over, it
\* hops first; set_frequency may raise, which ends the thread.
BeginPass ==
    /\ stage = "top"
    /\ \/ /\ stage' = "read"
          /\ UNCHANGED tuneVars
       \/ /\ Len(Frequencies) > 1
          /\ freqIndex' = (freqIndex + 1) % Len(Frequencies)
          /\ IF source = "device"
               THEN \/ tuned' = Frequencies[freqIndex' + 1] /\ stage' = "read"
                    \/ tuned' = tuned /\ stage' = "done"
               ELSE tuned' = tuned /\ stage' = "read"
    /\ UNCHANGED <<fileVars, pos, countVars>>

\* The frame's centre frequency: 0 for the simulator, read back from the
\* device after the samples; the configured one if reading back raises.
Labels ==
    IF source = "simulator" THEN {0} ELSE {tuned, Frequencies[freqIndex + 1]}

EmitInOneBurst(samples, label) ==   \* faulty: a new burst is not counted
    /\ emitted' = Append(emitted, [frame |-> frameId, burst |-> burstId,
                                   samples |-> samples, freq |-> label, at |-> tuned])
    /\ frameId' = (frameId + 1) % FramesPerBurst
    /\ stage' = "top"
    /\ UNCHANGED burstId

\* Build the frame, count it, hand it to the callbacks.
Emit(samples, label) ==
    /\ emitted' = Append(emitted, [frame |-> frameId, burst |-> burstId,
                                   samples |-> samples, freq |-> label, at |-> tuned])
    /\ frameId' = (frameId + 1) % FramesPerBurst
    /\ burstId' = IF frameId' = 0 THEN burstId + 1 ELSE burstId
    /\ stage' = "top"

\* An empty chunk ends playback unless loop_play is set.
ReadSimulator ==
    /\ stage = "read" /\ source = "simulator"
    /\ Len(emitted) < MaxFrames
    /\ pos' = ReadChunk.pos
    /\ IF ReadChunk.samples = <<>> /\ ~loopPlay
         THEN stage' = "done" /\ UNCHANGED countVars
         ELSE Emit(ReadChunk.samples, 0)
    /\ UNCHANGED <<fileVars, tuneVars>>

\* The device delivers chunk samples, or half a sample too many, which skips
\* the frame, or raises.
ReadDevice ==
    /\ stage = "read" /\ source = "device"
    /\ Len(emitted) < MaxFrames
    /\ \/ \E label \in Labels : Emit(Slice(0, chunk), label)
       \/ stage' = "top" /\ UNCHANGED countVars
       \/ stage' = "done" /\ UNCHANGED countVars
    /\ UNCHANGED <<fileVars, pos, tuneVars>>

\* The stop event is seen at the top of the loop.
SeeStop ==
    /\ stage = "top"
    /\ stage' = "done"
    /\ UNCHANGED <<fileVars, pos, tuneVars, countVars>>

Next ==
    \/ BeginPass
    \/ ReadSimulator
    \/ ReadDevice
    \/ SeeStop

Spec == Init /\ [][Next]_vars
-----------------------------------------------------------------------------
FrameType == [frame : Nat, burst : Nat, samples : Seq(Nat), freq : Nat, at : Nat]

(* Type invariant; the read position stays inside the file. *)
TypeOK ==
    /\ source \in {"simulator", "device"}
    /\ total \in 0 .. MaxTotal
    /\ chunk \in 1 .. MaxChunk
    /\ loopPlay \in BOOLEAN
    /\ pos \in Nat /\ (total > 0 => pos < total)
    /\ freqIndex \in 0 .. LastIndex
    /\ tuned \in Nat
    /\ frameId \in 0 .. FramesPerBurst - 1
    /\ burstId \in Nat
    /\ stage \in {"top", "read", "done"}
    /\ emitted \in Seq(FrameType)

\* The position in the file after that of the last of some samples.
After(samples) == (samples[Len(samples)] + 1) % total

(* The frames played from a file are the file over and over, with nothing  *)
(* skipped and nothing repeated at the seam, for every file length and     *)
(* chunk size, whether a chunk ends at, before or after the end of the     *)
(* file (read_chunk 105-138): the first frame begins the file, each begins *)
(* after the one before it, and only an empty file gives empty frames.     *)
TapeIsContinuous ==
    source = "simulator" =>
        \A i \in 1 .. Len(emitted) :
            LET samples == emitted[i].samples
            IN  /\ samples = <<>> <=> total = 0
                /\ samples # <<>> =>
                      samples[1] = IF i = 1 THEN 0 ELSE After(emitted[i - 1].samples)
                /\ \A k \in 1 .. Len(samples) - 1 : samples[k + 1] = (samples[k] + 1) % total

(* frame_id starts over in every burst, but (burst_id, frame_id) orders    *)
(* the frames of a session and never repeats (570-573).                    *)
FramesAreOrdered ==
    \A i, j \in 1 .. Len(emitted) : i < j =>
        \/ emitted[i].burst < emitted[j].burst
        \/ /\ emitted[i].burst = emitted[j].burst
           /\ emitted[i].frame < emitted[j].frame

(* A device frame is labelled with the frequency it was received at, over  *)
(* all hops and also when reading the frequency back fails (515-559).      *)
LabelsAreTrue ==
    source = "device" =>
        \A i \in 1 .. Len(emitted) : emitted[i].freq = emitted[i].at

(* A frame is complete, also the one that spans the end of the file, if    *)
(* the file is longer than a chunk (read_chunk 114-136).  A file that is   *)
(* not gives shorter frames.                                               *)
FramesAreComplete ==
    total > chunk => \A i \in 1 .. Len(emitted) : Len(emitted[i].samples) = chunk

(* Together: what is played, and what is said of each frame.               *)
PlaybackIsTrue == TypeOK /\ TapeIsContinuous /\ FramesAreComplete
HeadersAreTrue == FramesAreOrdered /\ LabelsAreTrue
=============================================================================
