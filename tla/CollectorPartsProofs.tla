------------------------- MODULE CollectorPartsProofs --------------------------
(***************************************************************************)
(* What holds of three parts of the collector for any instance of them:    *)
(* what it plays, the settings of its radio, and the start of its data     *)
(* servers.  They share no variable; each is proved about by itself.       *)
(***************************************************************************)
EXTENDS MCCollectorParts, SequenceTheorems, TLAPS

(***************************************************************************)
(* The emitted frames, for any list of frequencies, any burst length, any  *)
(* file and chunk, and any number of frames.                               *)
(*                                                                         *)
(* Order and labels are about the frames already emitted; the invariant    *)
(* adds what the next one will be given: its number is beyond all others   *)
(* (NextIsBeyond), and the device is tuned to the frequency the loop       *)
(* believes it is tuned to (TunedAsIndexed).                               *)
(***************************************************************************)

\* The types that the headers need; the samples have any.
HeaderTypes ==
    /\ burstId \in Nat
    /\ frameId \in 0 .. FramesPerBurst - 1
    /\ freqIndex \in 0 .. LastIndex
    /\ \E R : emitted \in Seq(R)

\* The number the next frame will have is beyond those of all emitted ones.
NextIsBeyond ==
    \A i \in 1 .. Len(emitted) :
        /\ emitted[i].burst \in Nat /\ emitted[i].frame \in Nat
        /\ \/ emitted[i].burst < burstId
           \/ emitted[i].burst = burstId /\ emitted[i].frame < frameId

\* While the thread lives, a device is tuned to the indexed frequency.
TunedAsIndexed ==
    /\ tuned \in Nat
    /\ source = "device" /\ stage # "done" => tuned = Frequencies[freqIndex + 1]

LoopInv == HeaderTypes /\ NextIsBeyond /\ TunedAsIndexed /\ HeadersAreTrue

\* An index within the list names a frequency.
LEMMA IndexNames ==
  ASSUME NEW i \in 0 .. LastIndex
  PROVE  Frequencies[i + 1] \in Nat
<1>1. Len(Frequencies) \in Nat /\ i + 1 \in 1 .. Len(Frequencies)
  BY FrequencyAssumption DEF LastIndex
<1> QED
  BY <1>1, FrequencyAssumption

LEMMA LoopInit == Init => LoopInv
<1> SUFFICES ASSUME Init PROVE LoopInv
  OBVIOUS
<1>1. 0 \in 0 .. LastIndex
  BY FrequencyAssumption DEF LastIndex
<1>2. HeaderTypes
  <2>1. emitted \in Seq({})
    BY DEF Init
  <2> QED
    BY <1>1, <2>1, BurstAssumption DEF Init, HeaderTypes
<1>3. TunedAsIndexed
  BY <1>1, IndexNames DEF Init, TunedAsIndexed
<1>4. emitted = <<>> /\ Len(emitted) = 0
  BY DEF Init
<1>5. NextIsBeyond /\ HeadersAreTrue
  BY <1>4 DEF NextIsBeyond, HeadersAreTrue, FramesAreOrdered, LabelsAreTrue
<1> QED
  BY <1>2, <1>3, <1>5 DEF LoopInv

\* A frame whose label is true keeps the invariant, whatever its samples.
LEMMA EmitKeeps ==
  ASSUME NEW samples, NEW label \in Nat, LoopInv, Emit(samples, label),
         source = "device" => label = tuned,
         UNCHANGED <<source, freqIndex, tuned>>, stage # "done"
  PROVE  LoopInv'
<1> DEFINE frame == [frame |-> frameId, burst |-> burstId, samples |-> samples,
                     freq |-> label, at |-> tuned]
<1> USE DEF LoopInv
<1>1. PICK R : emitted \in Seq(R)
  BY DEF HeaderTypes
<1> DEFINE T == R \cup {frame}
<1>2. burstId \in Nat /\ frameId \in Nat /\ tuned \in Nat
  BY BurstAssumption DEF HeaderTypes, TunedAsIndexed
<1>3. emitted \in Seq(T) /\ frame \in T
  BY <1>1, SeqMonotonic
<1> HIDE DEF T
<1>4. /\ emitted' \in Seq(T)
      /\ Len(emitted') = Len(emitted) + 1 /\ Len(emitted) \in Nat
      /\ \A i \in 1 .. Len(emitted) : emitted'[i] = emitted[i]
      /\ emitted'[Len(emitted) + 1] = frame
  BY <1>3 DEF Emit
<1>5. /\ frame.frame = frameId /\ frame.burst = burstId
      /\ frame.freq = label /\ frame.at = tuned
  OBVIOUS
<1> HIDE DEF frame
<1>6. /\ frameId' \in 0 .. FramesPerBurst - 1 /\ burstId' \in Nat
      /\ \/ burstId < burstId'
         \/ burstId = burstId' /\ frameId < frameId'
  BY <1>2, BurstAssumption DEF Emit, HeaderTypes
<1>7. HeaderTypes'
  BY <1>4, <1>6 DEF HeaderTypes
<1>8. NextIsBeyond'
  <2> SUFFICES ASSUME NEW i \in 1 .. Len(emitted')
               PROVE  /\ emitted'[i].burst \in Nat /\ emitted'[i].frame \in Nat
                      /\ \/ emitted'[i].burst < burstId'
                         \/ emitted'[i].burst = burstId' /\ emitted'[i].frame < frameId'
    BY DEF NextIsBeyond
  <2>1. CASE i \in 1 .. Len(emitted)
    BY <1>2, <1>4, <1>6, <2>1 DEF NextIsBeyond
  <2>2. CASE i = Len(emitted) + 1
    BY <1>2, <1>4, <1>5, <1>6, <2>2
  <2> QED
    BY <1>4, <2>1, <2>2
<1>9. TunedAsIndexed'
  BY DEF TunedAsIndexed, Emit
<1>10. FramesAreOrdered'
  <2> SUFFICES ASSUME NEW i \in 1 .. Len(emitted'), NEW j \in 1 .. Len(emitted'), i < j
               PROVE  \/ emitted'[i].burst < emitted'[j].burst
                      \/ /\ emitted'[i].burst = emitted'[j].burst
                         /\ emitted'[i].frame < emitted'[j].frame
    BY DEF FramesAreOrdered
  <2>1. i \in 1 .. Len(emitted)
    BY <1>4
  <2>2. CASE j \in 1 .. Len(emitted)
    BY <1>4, <2>1, <2>2 DEF HeadersAreTrue, FramesAreOrdered
  <2>3. CASE j = Len(emitted) + 1
    BY <1>4, <1>5, <2>1, <2>3 DEF NextIsBeyond
  <2> QED
    BY <1>4, <2>2, <2>3
<1>11. LabelsAreTrue'
  <2> SUFFICES ASSUME source = "device", NEW i \in 1 .. Len(emitted')
               PROVE  emitted'[i].freq = emitted'[i].at
    BY DEF LabelsAreTrue
  <2>1. CASE i \in 1 .. Len(emitted)
    BY <1>4, <2>1 DEF HeadersAreTrue, LabelsAreTrue
  <2>2. CASE i = Len(emitted) + 1
    BY <1>4, <1>5, <2>2
  <2> QED
    BY <1>4, <2>1, <2>2
<1> QED
  BY <1>7, <1>8, <1>9, <1>10, <1>11 DEF HeadersAreTrue

\* A step that emits nothing keeps what is said of the emitted frames.
LEMMA QuietKeeps ==
  ASSUME LoopInv, UNCHANGED <<source, countVars>>, HeaderTypes', TunedAsIndexed'
  PROVE  LoopInv'
BY DEF LoopInv, countVars, NextIsBeyond, HeadersAreTrue, FramesAreOrdered, LabelsAreTrue

LEMMA LoopStep == LoopInv /\ [Next]_vars => LoopInv'
<1> SUFFICES ASSUME LoopInv, [Next]_vars
             PROVE  LoopInv'
  OBVIOUS
<1>1. CASE BeginPass
  \* Hopping moves the index and the tuning together, or ends the thread.
  <2>1. freqIndex' \in 0 .. LastIndex
    BY <1>1, FrequencyAssumption DEF BeginPass, tuneVars, LastIndex, LoopInv, HeaderTypes
  <2>2. HeaderTypes'
    BY <1>1, <2>1 DEF BeginPass, countVars, LoopInv, HeaderTypes
  <2>3. TunedAsIndexed'
    BY <1>1, <2>1, IndexNames
       DEF BeginPass, tuneVars, fileVars, LoopInv, TunedAsIndexed
  <2> QED
    BY <1>1, <2>2, <2>3, QuietKeeps DEF BeginPass, fileVars
<1>2. CASE ReadSimulator
  <2>1. CASE ReadChunk.samples = <<>> /\ ~loopPlay
    BY <1>2, <2>1, QuietKeeps
       DEF ReadSimulator, countVars, fileVars, tuneVars, LoopInv, HeaderTypes, TunedAsIndexed
  <2>2. CASE ~(ReadChunk.samples = <<>> /\ ~loopPlay)
    BY <1>2, <2>2, EmitKeeps DEF ReadSimulator, fileVars, tuneVars
  <2> QED
    BY <2>1, <2>2
<1>3. CASE ReadDevice
  <2>1. CASE \E label \in Labels : Emit(Slice(0, chunk), label)
    <3>1. PICK label \in Labels : Emit(Slice(0, chunk), label)
      BY <2>1
    <3>2. label = tuned /\ tuned \in Nat
      BY <1>3, <3>1 DEF ReadDevice, Labels, LoopInv, TunedAsIndexed
    <3> QED
      BY <1>3, <3>1, <3>2, EmitKeeps DEF ReadDevice, fileVars, tuneVars
  <2>2. CASE stage' \in {"top", "done"} /\ UNCHANGED countVars
    BY <1>3, <2>2, QuietKeeps
       DEF ReadDevice, countVars, fileVars, tuneVars, LoopInv, HeaderTypes, TunedAsIndexed
  <2> QED
    BY <1>3, <2>1, <2>2 DEF ReadDevice
<1>4. CASE SeeStop
  BY <1>4, QuietKeeps
     DEF SeeStop, countVars, fileVars, tuneVars, LoopInv, HeaderTypes, TunedAsIndexed
<1>5. CASE UNCHANGED vars
  BY <1>5, QuietKeeps DEF vars, countVars, LoopInv, HeaderTypes, TunedAsIndexed
<1> QED
  BY <1>1, <1>2, <1>3, <1>4, <1>5 DEF Next
-----------------------------------------------------------------------------
(* Frames are numbered in order without repetition, and a device frame is  *)
(* labelled with the frequency it was received at, over all hops and also  *)
(* when reading the frequency back fails (collector.py 515-573).           *)
THEOREM HeadersAreTrueHolds == Spec => []HeadersAreTrue
<1>1. LoopInv => HeadersAreTrue
  BY DEF LoopInv
<1> QED
  BY LoopInit, LoopStep, <1>1, PTL DEF Spec
-----------------------------------------------------------------------------
(* What is played.  The next frame begins where the last one ended, and a  *)
(* chunk as long as the file or longer always begins it.                   *)

PlayInv ==
    /\ TypeOK /\ TapeIsContinuous /\ FramesAreComplete
    /\ chunk >= total => pos = 0
    /\ source = "simulator" /\ total > 0 =>
          pos = IF emitted = <<>> THEN 0 ELSE After(emitted[Len(emitted)].samples)

\* The position after one in a file.
LEMMA ModNext ==
  ASSUME NEW t \in Nat \ {0}, NEW x \in 0 .. t - 1
  PROVE  (x + 1) % t = IF x + 1 = t THEN 0 ELSE x + 1
OBVIOUS

\* A slice of a file.
LEMMA SliceIs ==
  ASSUME NEW p \in Nat, NEW n \in Nat
  PROVE  /\ Slice(p, n) \in Seq(Nat) /\ Len(Slice(p, n)) = n
         /\ \A i \in 1 .. n : Slice(p, n)[i] = p + i - 1
<1> DEFINE f == [i \in 1 .. n |-> p + i - 1]
<1>1. \A i \in 1 .. n : p + i - 1 \in Nat
  OBVIOUS
<1>2. f \in Seq(Nat)
  BY <1>1, SeqDef
<1>3. Len(f) = n
  OBVIOUS
<1> QED
  BY <1>2, <1>3 DEF Slice

\* What read_chunk returns, s, and where it leaves off, p: the samples from
\* the position on, round the end of the file, as many as were asked for.
IsRun(s, p) ==
    /\ s \in Seq(Nat) /\ p \in Nat
    /\ s = <<>> <=> total = 0
    /\ s # <<>> => s[1] = pos
    /\ \A k \in 1 .. Len(s) - 1 : s[k + 1] = (s[k] + 1) % total
    /\ total > 0 => p < total /\ p = After(s)
    /\ total > chunk => Len(s) = chunk
    /\ chunk >= total => p = 0

Positions ==
    /\ total \in Nat /\ chunk \in Nat \ {0} /\ pos \in Nat
    /\ total > 0 => pos < total
    /\ chunk >= total => pos = 0

\* The whole file.
LEMMA WholeIsRun ==
  ASSUME Positions, chunk >= total
  PROVE  IsRun(Slice(0, total), 0)
<1> DEFINE s == Slice(0, total)
<1>1. /\ s \in Seq(Nat) /\ Len(s) = total /\ total \in Nat /\ pos = 0
      /\ \A i \in 1 .. total : s[i] = i - 1
  BY SliceIs DEF Positions
<1> HIDE DEF s
<1>2. s = <<>> <=> total = 0
  BY <1>1, EmptySeq
<1>3. ASSUME NEW k \in 1 .. total, k < total
      PROVE  s[k + 1] = (s[k] + 1) % total
  <2>1. s[k] = k - 1 /\ s[k + 1] = k /\ k - 1 \in 0 .. total - 1 /\ total \in Nat \ {0}
    BY <1>1, <1>3
  <2>2. ((k - 1) + 1) % total = (k - 1) + 1
    BY <2>1, <1>3, ModNext
  <2> QED
    BY <2>1, <2>2
<1>4. ASSUME total > 0
      PROVE  After(s) = 0
  <2>1. s[total] = total - 1 /\ total - 1 \in 0 .. total - 1 /\ total \in Nat \ {0}
    BY <1>1, <1>4
  <2>2. ((total - 1) + 1) % total = 0
    BY <2>1, ModNext
  <2> QED
    BY <1>1, <2>1, <2>2 DEF After
<1> QED
  BY <1>1, <1>2, <1>3, <1>4 DEF IsRun, Positions, s

\* A chunk that the file has.
LEMMA ChunkIsRun ==
  ASSUME Positions, chunk < total, total - pos >= chunk
  PROVE  IsRun(Slice(pos, chunk), NextPos(pos, chunk))
<1> DEFINE s == Slice(pos, chunk)
<1>1. /\ total \in Nat \ {0} /\ chunk \in Nat \ {0} /\ pos \in Nat
  BY DEF Positions
<1>2. /\ s \in Seq(Nat) /\ Len(s) = chunk
      /\ \A i \in 1 .. chunk : s[i] = pos + i - 1
  BY <1>1, SliceIs
<1> HIDE DEF s
<1>3. s # <<>> /\ s[1] = pos
  BY <1>1, <1>2, EmptySeq
<1>4. ASSUME NEW k \in 1 .. chunk, k < chunk
      PROVE  s[k + 1] = (s[k] + 1) % total
  <2>1. /\ s[k] = pos + k - 1 /\ s[k + 1] = pos + k
        /\ pos + k - 1 \in 0 .. total - 1 /\ pos + k < total
    BY <1>1, <1>2, <1>4
  <2> DEFINE x == pos + k - 1
  <2>2. x + 1 = pos + k /\ x \in 0 .. total - 1
    BY <1>1, <2>1
  <2> HIDE DEF x
  <2>3. (x + 1) % total = IF x + 1 = total THEN 0 ELSE x + 1
    BY <1>1, <2>2, ModNext
  <2> QED
    BY <2>1, <2>2, <2>3 DEF x
<1>5. After(s) = NextPos(pos, chunk)
  <2>1. s[chunk] = pos + chunk - 1 /\ pos + chunk - 1 \in 0 .. total - 1
    BY <1>1, <1>2
  <2>2. ((pos + chunk - 1) + 1) % total = IF (pos + chunk - 1) + 1 = total THEN 0 ELSE (pos + chunk - 1) + 1
    BY <1>1, <2>1, ModNext
  <2> QED
    BY <1>1, <1>2, <2>1, <2>2 DEF After, NextPos
<1>6. NextPos(pos, chunk) \in Nat /\ NextPos(pos, chunk) < total
  BY <1>1 DEF NextPos
<1> QED
  BY <1>1, <1>2, <1>3, <1>4, <1>5, <1>6 DEF IsRun, s

\* A chunk that goes round the end of the file.
LEMMA SeamIsRun ==
  ASSUME Positions, chunk < total, total - pos < chunk
  PROVE  IsRun(Slice(pos, total - pos) \o Slice(0, chunk - (total - pos)),
               NextPos(0, chunk - (total - pos)))
<1> DEFINE a == total - pos
           n == chunk - a
           l == Slice(pos, a)
           r == Slice(0, n)
           s == l \o r
<1>1. /\ total \in Nat \ {0} /\ chunk \in Nat \ {0} /\ pos \in Nat /\ pos = total - a
      /\ a \in Nat \ {0} /\ n \in Nat \ {0} /\ n < total /\ a + n = chunk
  BY DEF Positions
<1> HIDE DEF a, n
<1>2. /\ l \in Seq(Nat) /\ Len(l) = a /\ \A i \in 1 .. a : l[i] = pos + i - 1
      /\ r \in Seq(Nat) /\ Len(r) = n /\ \A i \in 1 .. n : r[i] = i - 1
  <2>1. /\ l \in Seq(Nat) /\ Len(l) = a /\ \A i \in 1 .. a : l[i] = pos + i - 1
    BY <1>1, SliceIs
  <2>2. /\ r \in Seq(Nat) /\ Len(r) = n /\ \A i \in 1 .. n : r[i] = 0 + i - 1
    BY <1>1, SliceIs
  <2> QED
    BY <2>1, <2>2
<1> HIDE DEF l, r
<1>3. /\ s \in Seq(Nat) /\ Len(s) = Len(l) + Len(r)
      /\ \A i \in 1 .. Len(l) + Len(r) : s[i] = IF i <= Len(l) THEN l[i] ELSE r[i - Len(l)]
  BY <1>2, ConcatProperties
<1> HIDE DEF s
<1>4. /\ Len(s) = chunk
      /\ \A i \in 1 .. a : s[i] = pos + i - 1
      /\ \A i \in a + 1 .. chunk : s[i] = i - a - 1
  <2>1. Len(s) = chunk
    BY <1>1, <1>2, <1>3
  <2>2. ASSUME NEW i \in 1 .. a PROVE s[i] = pos + i - 1
    BY <1>1, <1>2, <1>3
  <2>3. ASSUME NEW i \in a + 1 .. chunk PROVE s[i] = i - a - 1
    <3>1. i - a \in 1 .. n /\ i \in 1 .. a + n /\ ~(i <= a)
      BY <1>1
    <3> QED
      BY <1>2, <1>3, <3>1
  <2> QED
    BY <2>1, <2>2, <2>3
<1>5. s # <<>> /\ s[1] = pos
  BY <1>1, <1>4, EmptySeq
<1>6. ASSUME NEW k \in 1 .. chunk, k < chunk
      PROVE  s[k + 1] = (s[k] + 1) % total
  <2>1. CASE k <= a
    <3>1. s[k] = pos + k - 1 /\ pos + k - 1 \in 0 .. total - 1
      BY <1>1, <1>4, <2>1
    <3>2. ((pos + k - 1) + 1) % total = IF (pos + k - 1) + 1 = total THEN 0 ELSE (pos + k - 1) + 1
      BY <1>1, <3>1, ModNext
    <3>3. s[k + 1] = IF k = a THEN 0 ELSE pos + k
      BY <1>1, <1>4, <1>6, <2>1
    <3> QED
      BY <1>1, <3>1, <3>2, <3>3
  <2>2. CASE k > a
    <3>1. /\ s[k] = k - a - 1 /\ s[k + 1] = k - a
          /\ k - a - 1 \in 0 .. total - 1 /\ k - a < total
      BY <1>1, <1>4, <1>6, <2>2
    <3>2. ((k - a - 1) + 1) % total = (k - a - 1) + 1
      BY <1>1, <3>1, ModNext
    <3> QED
      BY <1>1, <3>1, <3>2
  <2> QED
    BY <1>1, <2>1, <2>2
<1>7. After(s) = NextPos(0, n)
  <2>1. s[chunk] = n - 1 /\ n - 1 \in 0 .. total - 1
    BY <1>1, <1>4
  <2>2. ((n - 1) + 1) % total = (n - 1) + 1
    BY <1>1, <2>1, ModNext
  <2> QED
    BY <1>1, <1>4, <2>1, <2>2 DEF After, NextPos
<1>8. NextPos(0, n) \in Nat /\ NextPos(0, n) < total
  BY <1>1 DEF NextPos
<1>9. IsRun(s, NextPos(0, n))
  <2>1. total # 0 /\ ~(chunk >= total)
    BY <1>1
  <2>2. \A k \in 1 .. Len(s) - 1 : s[k + 1] = (s[k] + 1) % total
    BY <1>1, <1>4, <1>6
  <2> QED
    BY <1>3, <1>4, <1>5, <1>7, <1>8, <2>1, <2>2 DEF IsRun
<1> QED
  BY <1>9 DEF s, l, r, n, a

(* read_chunk plays a run of the file. *)
LEMMA ReadIsRun == ASSUME Positions PROVE IsRun(ReadChunk.samples, ReadChunk.pos)
<1>1. CASE chunk >= total
  <2>1. ReadChunk.samples = Slice(0, total) /\ ReadChunk.pos = 0
    BY <1>1 DEF ReadChunk
  <2> QED
    BY <1>1, <2>1, WholeIsRun
<1>2. CASE chunk < total /\ total - pos >= chunk
  <2>1. ReadChunk.samples = Slice(pos, chunk) /\ ReadChunk.pos = NextPos(pos, chunk)
    BY <1>2 DEF ReadChunk, ReadLoop, Positions
  <2> QED
    BY <1>2, <2>1, ChunkIsRun
<1>3. CASE chunk < total /\ total - pos < chunk
  <2>1. /\ ReadChunk.samples = Slice(pos, total - pos) \o Slice(0, chunk - (total - pos))
        /\ ReadChunk.pos = NextPos(0, chunk - (total - pos))
    BY <1>3 DEF ReadChunk, ReadLoop, Positions
  <2> QED
    BY <1>3, <2>1, SeamIsRun
<1> QED
  BY <1>1, <1>2, <1>3 DEF Positions

\* What TapeIsContinuous says of frame i of the frames ems.
Continues(ems, i) ==
    LET samples == ems[i].samples
    IN  /\ samples = <<>> <=> total = 0
        /\ samples # <<>> =>
              samples[1] = IF i = 1 THEN 0 ELSE After(ems[i - 1].samples)
        /\ \A k \in 1 .. Len(samples) - 1 : samples[k + 1] = (samples[k] + 1) % total

(* Before the first frame the invariant holds. *)
LEMMA PlayInit == Init => PlayInv
<1> SUFFICES ASSUME Init PROVE PlayInv
  OBVIOUS
<1>1. emitted = <<>> /\ Len(emitted) = 0 /\ emitted \in Seq(FrameType)
  BY DEF Init
<1>2. /\ Len(Frequencies) \in Nat \ {0} /\ Frequencies[1] \in Nat
  BY FrequencyAssumption
<1>3. TypeOK
  BY <1>1, <1>2, SizeAssumption, BurstAssumption DEF Init, TypeOK, LastIndex
<1>4. TapeIsContinuous /\ FramesAreComplete
  BY <1>1 DEF TapeIsContinuous, FramesAreComplete
<1> QED
  BY <1>1, <1>3, <1>4 DEF Init, PlayInv

\* What the invariant says of the file.
LEMMA PlayPositions == ASSUME PlayInv PROVE Positions
BY SizeAssumption DEF PlayInv, TypeOK, Positions

\* A frame emitted, of any source.
LEMMA EmitIs ==
  ASSUME TypeOK, NEW samples \in Seq(Nat), NEW label \in Nat, Emit(samples, label)
  PROVE  /\ emitted' \in Seq(FrameType)
         /\ Len(emitted') = Len(emitted) + 1 /\ Len(emitted) \in Nat
         /\ emitted' # <<>>
         /\ \A i \in 1 .. Len(emitted) : emitted'[i] = emitted[i]
         /\ emitted'[Len(emitted) + 1].samples = samples
         /\ frameId' \in 0 .. FramesPerBurst - 1 /\ burstId' \in Nat /\ stage' = "top"
<1> DEFINE frame == [frame |-> frameId, burst |-> burstId, samples |-> samples,
                     freq |-> label, at |-> tuned]
<1>1. /\ emitted \in Seq(FrameType) /\ tuned \in Nat
      /\ burstId \in Nat /\ frameId \in 0 .. FramesPerBurst - 1
  BY DEF TypeOK
<1>2. frame \in FrameType
  BY <1>1, BurstAssumption DEF FrameType
<1>3. frame.samples = samples
  OBVIOUS
<1> HIDE DEF frame
<1>4. /\ emitted' \in Seq(FrameType) /\ Len(emitted') = Len(emitted) + 1 /\ Len(emitted) \in Nat
      /\ emitted' # <<>>
      /\ \A i \in 1 .. Len(emitted) : emitted'[i] = emitted[i]
      /\ emitted'[Len(emitted) + 1] = frame
  BY <1>1, <1>2, AppendProperties DEF Emit, frame
<1>5. frameId' \in 0 .. FramesPerBurst - 1 /\ burstId' \in Nat /\ stage' = "top"
  BY <1>1, BurstAssumption DEF Emit
<1> QED
  BY <1>3, <1>4, <1>5

\* A step that emits nothing and does not move in the file.
LEMMA QuietPlay ==
  ASSUME PlayInv, TypeOK', UNCHANGED <<source, total, chunk, pos, emitted>>
  PROVE  PlayInv'
BY DEF PlayInv, TapeIsContinuous, FramesAreComplete, After

\* A chunk of the file.
LEMMA ReadPlays == ASSUME PlayInv, ReadSimulator PROVE PlayInv'
<1> DEFINE s == ReadChunk.samples
           p == ReadChunk.pos
           m == Len(emitted)
<1>1. Positions /\ TypeOK
  BY PlayPositions DEF PlayInv
<1>2. IsRun(s, p)
  BY <1>1, ReadIsRun
<1>3. /\ UNCHANGED <<source, total, chunk, loopPlay, freqIndex, tuned>>
      /\ pos' = p /\ source = "simulator"
  BY DEF ReadSimulator, fileVars, tuneVars
<1>4. p \in Nat /\ (total > 0 => p < total) /\ (chunk >= total => p = 0) /\ total \in Nat
  BY <1>1, <1>2 DEF IsRun, Positions
<1>5. CASE s = <<>> /\ ~loopPlay
  <2>1. UNCHANGED <<frameId, burstId, emitted>> /\ stage' = "done"
    BY <1>5 DEF ReadSimulator, countVars
  <2>2. total = 0
    BY <1>2, <1>5 DEF IsRun
  <2>3. pos' = pos
    BY <1>1, <1>3, <1>4, <2>2 DEF Positions
  <2>4. TypeOK'
    BY <1>1, <1>3, <2>1, <2>3 DEF TypeOK, LastIndex
  <2> QED
    BY <1>3, <2>1, <2>3, <2>4, QuietPlay
<1>6. CASE ~(s = <<>> /\ ~loopPlay)
  <2>1. Emit(s, 0) /\ s \in Seq(Nat)
    BY <1>2, <1>6 DEF ReadSimulator, IsRun
  <2> HIDE DEF s, p
  <2>2. /\ emitted' \in Seq(FrameType) /\ Len(emitted') = m + 1 /\ m \in Nat /\ emitted' # <<>>
        /\ \A i \in 1 .. m : emitted'[i] = emitted[i]
        /\ emitted'[m + 1].samples = s
        /\ frameId' \in 0 .. FramesPerBurst - 1 /\ burstId' \in Nat /\ stage' = "top"
    BY <1>1, <2>1, EmitIs
  <2>3. emitted = <<>> <=> m = 0
    BY <1>1, EmptySeq DEF TypeOK
  <2> HIDE DEF m
  <2>4. TypeOK'
    BY <1>1, <1>3, <1>4, <2>2 DEF TypeOK, LastIndex
  <2>5. ASSUME NEW i \in 1 .. m + 1
        PROVE  Continues(emitted', i)
    <3>1. CASE i \in 1 .. m
      <4>1. Continues(emitted, i)
        BY <1>3, <3>1 DEF PlayInv, TapeIsContinuous, Continues, m
      <4>2. emitted'[i] = emitted[i] /\ (i # 1 => emitted'[i - 1] = emitted[i - 1])
        BY <2>2, <3>1
      <4> QED
        BY <4>1, <4>2 DEF Continues
    <3>2. CASE i = m + 1
      <4>1. total > 0 => pos = IF m = 0 THEN 0 ELSE After(emitted[m].samples)
        BY <1>3, <2>3 DEF PlayInv, m
      <4>2. m # 0 => emitted'[m] = emitted[m]
        BY <2>2
      <4>3. /\ s = <<>> <=> total = 0
            /\ \A k \in 1 .. Len(s) - 1 : s[k + 1] = (s[k] + 1) % total
            /\ s # <<>> => s[1] = pos
        BY <1>2 DEF IsRun, s, p
      <4>4. s # <<>> => s[1] = IF i = 1 THEN 0 ELSE After(emitted'[i - 1].samples)
        BY <1>4, <2>2, <3>2, <4>1, <4>2, <4>3
      <4>5. emitted'[i].samples = s
        BY <2>2, <3>2
      <4> QED
        BY <4>3, <4>4, <4>5 DEF Continues
    <3> QED
      BY <2>2, <3>1, <3>2
  <2>6. TapeIsContinuous'
    <3>1. Len(emitted') = m + 1
      BY <2>2
    <3> QED
      BY <1>3, <2>5, <3>1 DEF TapeIsContinuous, Continues, After
  <2>7. FramesAreComplete'
    <3>1. total > chunk => Len(s) = chunk
      BY <1>2 DEF IsRun, s, p
    <3>2. total > chunk => \A i \in 1 .. m : Len(emitted[i].samples) = chunk
      BY DEF PlayInv, FramesAreComplete, m
    <3> QED
      BY <1>3, <2>2, <3>1, <3>2 DEF FramesAreComplete
  <2>8. total > 0 => pos' = After(emitted'[Len(emitted')].samples)
    BY <1>2, <1>3, <2>2 DEF IsRun, s, p
  <2>9. chunk' >= total' => pos' = 0
    BY <1>3, <1>4
  <2> QED
    BY <1>3, <2>2, <2>4, <2>6, <2>7, <2>8, <2>9 DEF PlayInv, After
<1> QED
  BY <1>5, <1>6

\* A buffer of the device.
LEMMA DevicePlays == ASSUME PlayInv, ReadDevice, tuned \in Nat PROVE PlayInv'
<1>1. Positions /\ TypeOK
  BY PlayPositions DEF PlayInv
<1>2. UNCHANGED <<source, total, chunk, loopPlay, freqIndex, tuned, pos>> /\ source = "device"
  BY DEF ReadDevice, fileVars, tuneVars
<1>3. CASE stage' \in {"top", "done"} /\ UNCHANGED countVars
  <2>1. TypeOK'
    BY <1>1, <1>2, <1>3 DEF TypeOK, LastIndex, countVars
  <2> QED
    BY <1>2, <1>3, <2>1, QuietPlay DEF countVars
<1>4. CASE \E label \in Labels : Emit(Slice(0, chunk), label)
  <2>1. PICK label \in Labels : Emit(Slice(0, chunk), label)
    BY <1>4
  <2>2. label \in Nat
    <3>1. Frequencies[freqIndex + 1] \in Nat
      BY <1>1, IndexNames DEF TypeOK
    <3> QED
      BY <1>2, <2>1, <3>1 DEF Labels
  <2> DEFINE s == Slice(0, chunk)
             m == Len(emitted)
  <2>3. s \in Seq(Nat) /\ Len(s) = chunk
    BY <1>1, SliceIs DEF Positions
  <2> HIDE DEF s
  <2>4. /\ emitted' \in Seq(FrameType) /\ Len(emitted') = m + 1 /\ m \in Nat /\ emitted' # <<>>
        /\ \A i \in 1 .. m : emitted'[i] = emitted[i]
        /\ emitted'[m + 1].samples = s
        /\ frameId' \in 0 .. FramesPerBurst - 1 /\ burstId' \in Nat /\ stage' = "top"
    BY <1>1, <2>1, <2>2, <2>3, EmitIs DEF s
  <2>5. TypeOK'
    BY <1>1, <1>2, <2>4 DEF TypeOK, LastIndex
  <2>6. total > chunk => \A i \in 1 .. m : Len(emitted[i].samples) = chunk
    BY DEF PlayInv, FramesAreComplete
  <2> HIDE DEF m
  <2>7. FramesAreComplete'
    BY <1>2, <2>3, <2>4, <2>6 DEF FramesAreComplete
  <2>8. TapeIsContinuous'
    BY <1>2 DEF TapeIsContinuous
  <2> QED
    BY <1>2, <2>5, <2>7, <2>8 DEF PlayInv
<1> QED
  BY <1>3, <1>4 DEF ReadDevice

(* Together: the invariant is inductive. *)
LEMMA PlayStep == PlayInv /\ LoopInv /\ LoopInv' /\ [Next]_vars => PlayInv'
<1> SUFFICES ASSUME PlayInv, LoopInv, LoopInv', [Next]_vars
             PROVE  PlayInv'
  OBVIOUS
<1>1. TypeOK /\ tuned' \in Nat /\ freqIndex' \in 0 .. LastIndex /\ tuned \in Nat
  BY DEF PlayInv, LoopInv, HeaderTypes, TunedAsIndexed, LastIndex
<1>2. CASE BeginPass
  <2>1. /\ UNCHANGED <<source, total, chunk, loopPlay, pos, frameId, burstId, emitted>>
        /\ stage' \in {"read", "done"}
    BY <1>2 DEF BeginPass, fileVars, countVars
  <2>2. TypeOK'
    BY <1>1, <2>1 DEF TypeOK, LastIndex
  <2> QED
    BY <2>1, <2>2, QuietPlay
<1>3. CASE ReadSimulator
  BY <1>3, ReadPlays
<1>4. CASE ReadDevice
  BY <1>1, <1>4, DevicePlays
<1>5. CASE SeeStop
  <2>1. /\ UNCHANGED <<source, total, chunk, loopPlay, pos, freqIndex, tuned, frameId, burstId, emitted>>
        /\ stage' = "done"
    BY <1>5 DEF SeeStop, fileVars, tuneVars, countVars
  <2>2. TypeOK'
    BY <1>1, <2>1 DEF TypeOK, LastIndex
  <2> QED
    BY <2>1, <2>2, QuietPlay
<1>6. CASE UNCHANGED vars
  <2>1. TypeOK'
    BY <1>1, <1>6 DEF TypeOK, LastIndex, vars
  <2> QED
    BY <1>6, <2>1, QuietPlay DEF vars
<1> QED
  BY <1>2, <1>3, <1>4, <1>5, <1>6 DEF Next

(* A file is played without a gap or a repetition, in whole frames if it is *)
(* longer than one (read_chunk 105-138).                                    *)
THEOREM PlaybackIsTrueHolds == Spec => []PlaybackIsTrue
<1>1. PlayInv => PlaybackIsTrue
  BY DEF PlayInv, PlaybackIsTrue
<1> QED
  BY LoopInit, LoopStep, PlayInit, PlayStep, <1>1, PTL DEF Spec
-----------------------------------------------------------------------------
(***************************************************************************)
(* The settings of the radio, for any radios, any configurations, any      *)
(* number of handles and threads, and any number of faults.                *)
(*                                                                         *)
(* OneWriter is nearly inductive, RunningIsConfigured is far from it: that *)
(* a radio has its settings when its thread is made needs to know, at each *)
(* line of _apply_config, which of them it has already (ApplyInv),         *)
(* and that no thread undoes one (OnlyWriter, which holds only because a   *)
(* thread lives while the collector runs and no start is under way:        *)
(* LifeInv).  A handle's radio must be the one that was plugged in when it *)
(* was opened, or the settings are gone (PresentInv).                      *)
(***************************************************************************)

DeviceTypes ==
    /\ plugged \subseteq Uris
    /\ radio \in [Uris -> [D!OnRadio -> Int]]
    /\ handle \in [Handles -> HandleType \cup {None}]
    /\ device \in Handles \cup {None}
    /\ state \in {"idle", "running", "error"} /\ config \in Configs \cup {None}
    /\ pending \in Seq(D!Settings)
    /\ thread \in Threads \cup {None}
    /\ loop \in [Threads -> LoopType \cup {None}]
    /\ stray \in BOOLEAN /\ faults \in 0 .. MaxFaults

\* What is referred to is there, and only a plugged radio has a whole handle.
PresentInv ==
    /\ device # None => handle[device] # None /\ handle[device].sdr
    /\ ~D!Ready => device # None /\ config # None
    /\ thread # None => loop[thread] # None
    /\ \A t \in Threads : loop[t] # None => handle[loop[t].handle] # None
    /\ \A h \in Handles : handle[h] # None /\ ~handle[h].broken => handle[h].uri \in plugged

\* The threads that can still set a radio: the collector's own, on its device.
OnlyWriter ==
    \A t \in Threads :
        D!Lives(t) /\ D!Usable(loop[t].handle) => t = thread /\ loop[t].handle = device

\* The collector's thread lives only while it runs, with its configuration.
LifeInv ==
    thread # None /\ D!Lives(thread) =>
        state = "running" /\ D!Ready /\ loop[thread].config = config

\* Every setting is still to be written or is what it should be.
PendingIsMissing ==
    \A s \in D!Settings \ Ignored :
       \/ \E i \in 1 .. Len(pending) : pending[i] = s
       \/ D!Actual(device, s) = D!Wanted(s)

\* A start that is under way has set all settings but the pending ones.
ApplyInv ==
    /\ ~D!Ready => state = "running"
    /\ ~D!Ready /\ D!Usable(device) => PendingIsMissing

DevicesInv ==
    /\ DeviceTypes /\ PresentInv
    /\ ~stray => OnlyWriter /\ LifeInv /\ ApplyInv
    /\ D!RunningIsConfigured /\ D!CopiesAreTrue
-----------------------------------------------------------------------------
(* Before the first step the invariant holds. *)
LEMMA DevicesInit == D!Init => DevicesInv
<1> SUFFICES ASSUME D!Init PROVE DevicesInv
  OBVIOUS
<1>1. DeviceTypes
  <2>1. radio \in [Uris -> [D!OnRadio -> Int]]
    BY ConfigsAssumption DEF D!Init
  <2>2. faults \in 0 .. MaxFaults /\ pending \in Seq(D!Settings)
    BY ConfigsAssumption DEF D!Init
  <2>3. handle \in [Handles -> HandleType \cup {None}] /\ loop \in [Threads -> LoopType \cup {None}]
    BY DEF D!Init
  <2> QED
    BY <2>1, <2>2, <2>3 DEF D!Init, DeviceTypes
<1>2. PresentInv /\ OnlyWriter /\ LifeInv /\ ApplyInv
  BY DEF D!Init, PresentInv, OnlyWriter, LifeInv, ApplyInv, D!Ready, D!Lives
<1>3. D!RunningIsConfigured /\ D!CopiesAreTrue
  BY DEF D!Init, D!RunningIsConfigured, D!CopiesAreTrue
<1> QED
  BY <1>1, <1>2, <1>3 DEF DevicesInv

\* What a handle will read with.
NextActual(h, s) ==
    IF s = "buffer_size" THEN handle'[h].buffer ELSE radio'[handle'[h].uri][s]

\* What a setter changes: one setting, if it is not ignored, and the copy of it.
LEMMA WriteSets ==
  ASSUME DeviceTypes, NEW h \in Handles, handle[h] # None,
         NEW s \in D!Settings, NEW v \in Int, NEW raises \in BOOLEAN, D!Write(h, s, v, raises)
  PROVE  /\ radio' \in [Uris -> [D!OnRadio -> Int]]
         /\ handle' \in [Handles -> HandleType \cup {None}]
         /\ \A g \in Handles :
               /\ handle'[g] # None <=> handle[g] # None
               /\ handle[g] # None => /\ handle'[g].uri = handle[g].uri
                                      /\ handle'[g].sdr = handle[g].sdr
                                      /\ handle'[g].broken = handle[g].broken
               /\ g # h => handle'[g] = handle[g]
         /\ raises => UNCHANGED <<handle, radio>>
         /\ ~raises =>
               /\ handle'[h].noted = D!Noted(h, s, v)
               /\ s \notin Ignored => NextActual(h, s) = v
               /\ \A g \in Handles : \A x \in D!Settings :
                     handle[g] # None /\ x # s => NextActual(g, x) = D!Actual(g, x)
<1> USE NoneAssumption DEF HandleType
<1>1. handle[h] \in HandleType
  BY DEF DeviceTypes
<1>2. CASE raises
  BY <1>2 DEF D!Write, DeviceTypes
<1>3. CASE ~raises
  <2> DEFINE b == IF s = "buffer_size" THEN v ELSE handle[h].buffer
  <2>1. /\ radio' = IF s \in D!OnRadio \ Ignored
                      THEN [radio EXCEPT ![handle[h].uri][s] = v] ELSE radio
        /\ handle' = [handle EXCEPT ![h].noted = D!Noted(h, s, v), ![h].buffer = b]
    BY <1>3 DEF D!Write, D!TakeOver
  <2>2. handle[h].uri \in Uris
    BY <1>1
  <2>3. D!Noted(h, s, v) \in SUBSET (D!Settings \X Int) /\ b \in Int
    BY <1>1 DEF D!Noted
  <2>4. /\ handle'[h] = [handle[h] EXCEPT !.noted = D!Noted(h, s, v), !.buffer = b]
        /\ \A g \in Handles : g # h => handle'[g] = handle[g]
    BY <1>1, <2>1 DEF DeviceTypes
  <2>5. handle'[h] \in HandleType
    BY <1>1, <2>3, <2>4
  <2>6. handle' \in [Handles -> HandleType \cup {None}]
    BY <2>1, <2>4, <2>5 DEF DeviceTypes
  <2>7. /\ handle'[h] # None
        /\ handle'[h].uri = handle[h].uri /\ handle'[h].sdr = handle[h].sdr
        /\ handle'[h].broken = handle[h].broken /\ handle'[h].noted = D!Noted(h, s, v)
        /\ handle'[h].buffer = b
    BY <1>1, <2>4, <2>5
  <2>8. /\ radio' \in [Uris -> [D!OnRadio -> Int]]
        /\ s \in D!OnRadio \ Ignored => radio'[handle[h].uri][s] = v
        /\ \A u \in Uris : \A x \in D!OnRadio : x # s => radio'[u][x] = radio[u][x]
    <3>1. CASE s \in D!OnRadio \ Ignored
      BY <2>1, <2>2, <3>1 DEF DeviceTypes
    <3>2. CASE s \notin D!OnRadio \ Ignored
      BY <2>1, <3>2 DEF DeviceTypes
    <3> QED
      BY <3>1, <3>2
  <2> HIDE DEF b
  <2>9. s \notin Ignored => NextActual(h, s) = v
    <3>1. CASE s = "buffer_size"
      BY <2>7, <3>1 DEF D!Actual, NextActual, b
    <3>2. CASE s # "buffer_size"
      BY <2>7, <2>8, <3>2 DEF D!Actual, NextActual, D!OnRadio
    <3> QED
      BY <3>1, <3>2
  <2>10. ASSUME NEW g \in Handles, NEW x \in D!Settings, handle[g] # None, x # s
         PROVE  NextActual(g, x) = D!Actual(g, x)
    <3>1. handle'[g].uri = handle[g].uri /\ handle[g].uri \in Uris
      BY <2>4, <2>7, <2>10 DEF DeviceTypes
    <3>2. x = "buffer_size" => handle'[g].buffer = handle[g].buffer
      BY <2>4, <2>7, <2>10 DEF b
    <3>3. x # "buffer_size" => x \in D!OnRadio
      BY DEF D!OnRadio
    <3> QED
      BY <2>8, <2>10, <3>1, <3>2, <3>3 DEF D!Actual, NextActual
  <2> QED
    BY <1>3, <2>4, <2>6, <2>7, <2>8, <2>9, <2>10
<1> QED
  BY <1>2, <1>3

\* A handle that is made anew, where there was none.
LEMMA OpenMakes ==
  ASSUME DeviceTypes, NEW u \in Uris, D!Open(u)
  PROVE  /\ u \in plugged /\ device' \in Handles /\ device' # None /\ handle[device'] = None
         /\ handle' \in [Handles -> HandleType \cup {None}]
         /\ handle'[device'] # None /\ handle'[device'].uri = u /\ handle'[device'].sdr
         /\ ~handle'[device'].broken /\ handle'[device'].noted = {}
         /\ \A g \in Handles : g # device' => handle'[g] = handle[g]
<1> PICK h \in Handles : /\ handle[h] = None /\ u \in plugged
                         /\ handle' = [handle EXCEPT ![h] = D!NewHandle(u)]
                         /\ device' = h
  BY DEF D!Open
<1>1. /\ D!NewHandle(u) \in HandleType
      /\ D!NewHandle(u).uri = u /\ D!NewHandle(u).sdr /\ ~D!NewHandle(u).broken
      /\ D!NewHandle(u).noted = {}
  BY ConfigsAssumption DEF D!NewHandle, HandleType
<1> QED
  BY <1>1, NoneAssumption DEF DeviceTypes

\* A handle that is disconnected.
LEMMA DropTakes ==
  ASSUME DeviceTypes, NEW h \in Handles, handle[h] # None, D!Drop(h)
  PROVE  /\ handle' \in [Handles -> HandleType \cup {None}]
         /\ handle'[h] # None /\ handle'[h].sdr = FALSE
         /\ handle'[h].uri = handle[h].uri /\ handle'[h].broken = handle[h].broken
         /\ \A g \in Handles : g # h => handle'[g] = handle[g]
<1>1. handle[h] \in HandleType /\ handle' = [handle EXCEPT ![h].sdr = FALSE]
  BY DEF DeviceTypes, D!Drop
<1>2. handle'[h] \in HandleType /\ handle'[h] = [handle[h] EXCEPT !.sdr = FALSE]
  BY <1>1 DEF DeviceTypes, HandleType
<1> QED
  BY <1>1, <1>2, NoneAssumption DEF DeviceTypes, HandleType
-----------------------------------------------------------------------------
(* Every step keeps the types. *)
LEMMA DeviceTypesStep == DevicesInv /\ [D!Next]_(D!vars) => DeviceTypes'
<1> SUFFICES ASSUME DevicesInv, [D!Next]_(D!vars) PROVE DeviceTypes'
  OBVIOUS
<1> USE DEF D!collector, D!Ready
<1>1. DeviceTypes /\ PresentInv
  BY DEF DevicesInv
<1>2. ASSUME NEW u \in Uris, D!Pull(u) PROVE DeviceTypes'
  <2>1. ASSUME NEW h \in Handles PROVE handle'[h] \in HandleType \cup {None}
    BY <1>1, <1>2 DEF D!Pull, DeviceTypes, HandleType
  <2>2. handle' \in [Handles -> HandleType \cup {None}]
    BY <1>2, <2>1 DEF D!Pull
  <2> QED
    BY <1>1, <1>2, <2>2, ConfigsAssumption DEF D!Pull, DeviceTypes
<1>3. ASSUME NEW u \in Uris, D!Plug(u) PROVE DeviceTypes'
  <2>1. radio' \in [Uris -> [D!OnRadio -> Int]]
    BY <1>1, <1>3, ConfigsAssumption DEF D!Plug, DeviceTypes
  <2> QED
    BY <1>1, <1>3, <2>1, ConfigsAssumption DEF D!Plug, DeviceTypes
<1>4. ASSUME NEW u \in Uris, D!Connect(u) PROVE DeviceTypes'
  BY <1>1, <1>4, OpenMakes DEF D!Connect, DeviceTypes
<1>5. CASE D!Disconnect
  BY <1>1, <1>5, DropTakes DEF D!Disconnect, DeviceTypes, PresentInv
<1>6. CASE D!Apply
  <2>1. /\ device \in Handles /\ handle[device] # None /\ config \in Configs
        /\ Head(pending) \in D!Settings /\ pending' \in Seq(D!Settings)
    BY <1>1, <1>6 DEF D!Apply, DeviceTypes, PresentInv
  <2>2. D!Wanted(Head(pending)) \in Int
    BY <2>1, ConfigsAssumption DEF D!Wanted, ConfigType, D!Settings, D!Rest
  <2>3. /\ radio' \in [Uris -> [D!OnRadio -> Int]]
        /\ handle' \in [Handles -> HandleType \cup {None}]
    BY <1>1, <1>6, <2>1, <2>2, WriteSets DEF D!Apply
  <2>4. thread' \in Threads \cup {None} /\ loop' \in [Threads -> LoopType \cup {None}]
    <3>1. CASE pending' # <<>>
      BY <1>1, <1>6, <3>1 DEF D!Apply, DeviceTypes
    <3>2. CASE pending' = <<>>
      <4> DEFINE l == [handle |-> device, config |-> config, hop |-> 1, alive |-> TRUE, told |-> FALSE]
      <4>1. l \in LoopType
        BY <2>1 DEF LoopType
      <4>2. PICK t \in Threads : thread' = t /\ loop' = [loop EXCEPT ![t] = l]
        BY <1>6, <3>2 DEF D!Apply
      <4> QED
        BY <1>1, <4>1, <4>2 DEF DeviceTypes
    <3> QED
      BY <3>1, <3>2
  <2> QED
    BY <1>1, <1>6, <2>1, <2>3, <2>4 DEF D!Apply, DeviceTypes
<1>7. CASE D!ApplyFails
  BY <1>1, <1>7 DEF D!ApplyFails, D!Write, DeviceTypes
<1>8. CASE D!Stop
  <2>1. handle' \in [Handles -> HandleType \cup {None}]
    BY <1>1, <1>8, DropTakes DEF D!Stop, DeviceTypes, PresentInv
  <2>2. loop' \in [Threads -> LoopType \cup {None}]
    <3>1. CASE thread = None
      BY <1>1, <1>8, <3>1 DEF D!Stop, DeviceTypes
    <3>2. CASE thread # None
      <4>1. thread \in Threads /\ loop[thread] \in LoopType
        BY <1>1, <3>2 DEF DeviceTypes, PresentInv
      <4>2. PICK ended \in BOOLEAN : loop' = [loop EXCEPT
               ![thread].told = TRUE, ![thread].alive = loop[thread].alive /\ ~ended]
        BY <1>8, <3>2 DEF D!Stop
      <4> QED
        BY <1>1, <4>1, <4>2 DEF DeviceTypes, LoopType
    <3> QED
      BY <3>1, <3>2
  <2> QED
    BY <1>1, <1>8, <2>1, <2>2 DEF D!Stop, DeviceTypes
<1>9. ASSUME NEW c \in Configs, D!StartSimulator(c) \/ D!StartFails(c) PROVE DeviceTypes'
  BY <1>1, <1>9 DEF D!StartSimulator, D!StartFails, DeviceTypes
<1>10. ASSUME NEW c \in Configs, NEW u \in Uris, D!Start(u, c) PROVE DeviceTypes'
  <2>1. pending' \in Seq(D!Settings)
    BY <1>10 DEF D!Start, D!Settings, D!Rest
  <2>2. device' \in Handles \cup {None} /\ handle' \in [Handles -> HandleType \cup {None}]
    BY <1>1, <1>10, OpenMakes DEF D!Start, DeviceTypes
  <2> QED
    BY <1>1, <1>10, <2>1, <2>2 DEF D!Start, DeviceTypes
<1>11. ASSUME NEW t \in Threads, D!Ends(t) \/ D!ReadFails(t) PROVE DeviceTypes'
  <2>1. loop[t] \in LoopType /\ loop' = [loop EXCEPT ![t].alive = FALSE]
    BY <1>1, <1>11 DEF D!Ends, D!ReadFails, D!Lives, DeviceTypes
  <2>2. loop' \in [Threads -> LoopType \cup {None}]
    BY <1>1, <2>1 DEF DeviceTypes, LoopType
  <2> QED
    BY <1>1, <1>11, <2>2 DEF D!Ends, D!ReadFails, DeviceTypes
<1>12. ASSUME NEW t \in Threads, D!Hop(t) PROVE DeviceTypes'
  <2> DEFINE F == loop[t].config.frequencies
             k == (loop[t].hop % Len(F)) + 1
             h == loop[t].handle
  <2>1. /\ loop[t] \in LoopType /\ h \in Handles /\ handle[h] # None
        /\ F \in Seq(Int) /\ Len(F) > 1
    BY <1>1, <1>12, ConfigsAssumption DEF D!Hop, D!Lives, DeviceTypes, PresentInv, LoopType, ConfigType
  <2>2. k \in 1 .. Len(F) /\ F[k] \in Int /\ k \in Nat
    BY <2>1 DEF LoopType
  <2>3. PICK raises \in D!Raises(h, "frequency") :
           /\ D!Write(h, "frequency", F[k], raises)
           /\ loop' = [loop EXCEPT ![t].hop = k, ![t].alive = ~raises]
    BY <1>12 DEF D!Hop
  <2>4. raises \in BOOLEAN /\ "frequency" \in D!Settings
    BY DEF D!Raises, D!Settings
  <2> HIDE DEF k, h, F
  <2>5. /\ radio' \in [Uris -> [D!OnRadio -> Int]]
        /\ handle' \in [Handles -> HandleType \cup {None}]
    BY <1>1, <2>1, <2>2, <2>3, <2>4, WriteSets
  <2>6. loop' \in [Threads -> LoopType \cup {None}]
    BY <1>1, <2>1, <2>2, <2>3, <2>4 DEF DeviceTypes, LoopType
  <2> QED
    BY <1>1, <1>12, <2>5, <2>6 DEF D!Hop, DeviceTypes
<1>13. CASE UNCHANGED D!vars
  BY <1>1, <1>13 DEF D!vars, DeviceTypes
<1> QED
  BY <1>2, <1>3, <1>4, <1>5, <1>6, <1>7, <1>8, <1>9, <1>10, <1>11, <1>12, <1>13 DEF D!Next
-----------------------------------------------------------------------------
\* No handle is made or disconnected, none breaks or is mended.
KeptHandles ==
    \A g \in Handles :
        /\ handle'[g] # None <=> handle[g] # None
        /\ handle[g] # None => /\ handle'[g].uri = handle[g].uri
                               /\ handle'[g].sdr = handle[g].sdr
                               /\ handle'[g].broken = handle[g].broken

\* No thread is started, and none lives that did not.
KeptLoops ==
    \A x \in Threads :
        /\ loop'[x] # None <=> loop[x] # None
        /\ loop[x] # None => /\ loop'[x].handle = loop[x].handle
                             /\ loop'[x].config = loop[x].config
                             /\ loop'[x].alive => loop[x].alive

\* One setting is written, and noted by the handle it goes through.
Sets(h, s, v) ==
    /\ handle'[h].noted = D!Noted(h, s, v)
    /\ \A g \in Handles : g # h => handle'[g] = handle[g]
    /\ s \notin Ignored => NextActual(h, s) = v
    /\ \A g \in Handles : \A x \in D!Settings :
          handle[g] # None /\ x # s => NextActual(g, x) = D!Actual(g, x)

\* What a handle reads with does not change.
Unmoved(h) == \A s \in D!Settings : NextActual(h, s) = D!Actual(h, s)

LEMMA SameIsUnmoved ==
  ASSUME NEW h, handle'[h].uri = handle[h].uri, handle'[h].buffer = handle[h].buffer,
         radio'[handle[h].uri] = radio[handle[h].uri]
  PROVE  Unmoved(h)
BY DEF Unmoved, NextActual, D!Actual

\* A hop sets its radio to one of its frequencies, if it is still usable.
LEMMA HopKeeps ==
  ASSUME DeviceTypes, PresentInv, NEW t \in Threads, D!Hop(t)
  PROVE  /\ KeptHandles /\ KeptLoops /\ D!Lives(t)
         /\ \/ UNCHANGED <<handle, radio>>
            \/ /\ D!Usable(loop[t].handle)
               /\ \E k \in DOMAIN loop[t].config.frequencies :
                     Sets(loop[t].handle, "frequency", loop[t].config.frequencies[k])
<1> DEFINE F == loop[t].config.frequencies
           k == (loop[t].hop % Len(F)) + 1
           h == loop[t].handle
<1>1. /\ loop[t] \in LoopType /\ loop[t] # None /\ loop[t].alive
      /\ h \in Handles /\ handle[h] # None /\ F \in Seq(Int) /\ Len(F) > 1 /\ D!Lives(t)
  BY ConfigsAssumption DEF D!Hop, D!Lives, DeviceTypes, PresentInv, LoopType, ConfigType
<1>2. k \in DOMAIN F /\ F[k] \in Int /\ k \in Nat
  BY <1>1 DEF LoopType
<1>3. PICK raises \in D!Raises(h, "frequency") :
         /\ D!Write(h, "frequency", F[k], raises)
         /\ loop' = [loop EXCEPT ![t].hop = k, ![t].alive = ~raises]
  BY DEF D!Hop
<1>4. raises \in BOOLEAN /\ "frequency" \in D!Settings /\ (~raises => D!Usable(h))
  BY <1>1, IgnoredAssumption DEF D!Raises, D!Settings, D!Rest, D!Usable, DeviceTypes, HandleType
<1> HIDE DEF k, h, F
<1>5. /\ KeptHandles
      /\ raises => UNCHANGED <<handle, radio>>
      /\ ~raises => Sets(h, "frequency", F[k])
  BY <1>1, <1>2, <1>3, <1>4, WriteSets DEF KeptHandles, Sets
<1>6. /\ loop'[t] = [loop[t] EXCEPT !.hop = k, !.alive = ~raises]
      /\ \A x \in Threads : x # t => loop'[x] = loop[x]
  BY <1>1, <1>3 DEF DeviceTypes, LoopType
<1>7. loop'[t] \in LoopType /\ loop'[t].handle = loop[t].handle /\ loop'[t].config = loop[t].config
  BY <1>1, <1>2, <1>4, <1>6 DEF LoopType
<1>8. KeptLoops
  BY <1>1, <1>6, <1>7, NoneAssumption DEF KeptLoops
<1> QED
  BY <1>1, <1>2, <1>4, <1>5, <1>8 DEF k, h, F

(* Stopping a thread, or its end, makes none and revives none. *)
LEMMA ThreadsKeep ==
  ASSUME DeviceTypes, PresentInv,
         D!Stop \/ (\E t \in Threads : D!Ends(t) \/ D!ReadFails(t))
  PROVE  KeptLoops
<1>1. ASSUME NEW t \in Threads, loop[t] # None, NEW told, NEW alive, told \in BOOLEAN, alive \in BOOLEAN,
             alive => loop[t].alive,
             loop' = [loop EXCEPT ![t].told = told, ![t].alive = alive]
      PROVE  KeptLoops
  <2>1. loop[t] \in LoopType
    BY <1>1 DEF DeviceTypes
  <2>2. /\ loop'[t] = [loop[t] EXCEPT !.told = told, !.alive = alive]
        /\ \A x \in Threads : x # t => loop'[x] = loop[x]
    BY <1>1, <2>1 DEF DeviceTypes
  <2>3. loop'[t].handle = loop[t].handle /\ loop'[t].config = loop[t].config
    BY <2>1, <2>2 DEF LoopType
  <2>6. loop'[t].alive = alive
    BY <2>1, <2>2, Zenon DEF LoopType
  <2>4. ASSUME NEW x \in Threads, x # t PROVE loop'[x] = loop[x]
    BY <2>2, <2>4
  <2>5. loop'[t] # None /\ (loop'[t].alive => loop[t].alive)
    <3>1. loop'[t] = [handle |-> loop[t].handle, config |-> loop[t].config,
                       hop |-> loop[t].hop, alive |-> alive, told |-> told]
      BY <2>1, <2>2 DEF LoopType
    <3>2. loop[t].handle \in Handles /\ loop[t].config \in Configs /\ loop[t].hop \in Nat
      BY <2>1 DEF LoopType
    <3>3. loop'[t] \in LoopType
      <4>1. ASSUME NEW a \in BOOLEAN, NEW b \in BOOLEAN
            PROVE  [handle |-> loop[t].handle, config |-> loop[t].config,
                    hop |-> loop[t].hop, alive |-> a, told |-> b] \in LoopType
        BY <3>2 DEF LoopType
      <4> QED
        BY <1>1, <3>1, <4>1
    <3> QED
      BY <1>1, <2>6, <3>3, NoneAssumption
  <2> QED
    BY <1>1, <2>3, <2>4, <2>5 DEF KeptLoops
<1>2. CASE D!Stop
  <2>1. CASE thread = None
    BY <1>2, <2>1 DEF D!Stop, KeptLoops
  <2>2. CASE thread # None
    <3>1. thread \in Threads /\ loop[thread] # None /\ loop[thread] \in LoopType
      BY <2>2 DEF DeviceTypes, PresentInv
    <3>2. PICK ended \in BOOLEAN : loop' = [loop EXCEPT
             ![thread].told = TRUE, ![thread].alive = loop[thread].alive /\ ~ended]
      BY <1>2, <2>2 DEF D!Stop
    <3> QED
      BY <1>1, <3>1, <3>2 DEF LoopType
  <2> QED
    BY <2>1, <2>2
<1>3. ASSUME NEW t \in Threads, D!Ends(t) \/ D!ReadFails(t) PROVE KeptLoops
  <2>1. loop[t] # None /\ loop[t] \in LoopType /\ loop' = [loop EXCEPT ![t].alive = FALSE]
    BY <1>3 DEF D!Ends, D!ReadFails, D!Lives, DeviceTypes
  <2>2. /\ loop' = [loop EXCEPT ![t].told = loop[t].told, ![t].alive = FALSE]
        /\ loop[t].told \in BOOLEAN
    BY <2>1 DEF DeviceTypes, LoopType
  <2> QED
    BY <1>1, <2>1, <2>2
<1> QED
  BY <1>2, <1>3
-----------------------------------------------------------------------------
\* The step is one line of _apply_config, on the device in hand.
LEMMA ApplySets ==
  ASSUME DeviceTypes, PresentInv, D!Apply
  PROVE  /\ KeptHandles /\ device \in Handles /\ handle[device] \in HandleType
         /\ Sets(device, Head(pending), D!Wanted(Head(pending)))
         /\ \/ pending' # <<>> /\ UNCHANGED <<thread, loop>>
            \/ /\ pending' = <<>> /\ thread' \in Threads /\ loop[thread'] = None
               /\ loop'[thread'] # None
               /\ loop'[thread'].handle = device /\ loop'[thread'].config = config
               /\ \A x \in Threads : x # thread' => loop'[x] = loop[x]
<1>1. /\ device \in Handles /\ handle[device] # None /\ config \in Configs
      /\ Head(pending) \in D!Settings /\ handle[device] \in HandleType
  BY NoneAssumption DEF D!Apply, D!Ready, DeviceTypes, PresentInv
<1>2. D!Wanted(Head(pending)) \in Int
  BY <1>1, ConfigsAssumption DEF D!Wanted, ConfigType, D!Settings, D!Rest
<1>3. /\ KeptHandles
      /\ Sets(device, Head(pending), D!Wanted(Head(pending)))
  <2>1. D!Write(device, Head(pending), D!Wanted(Head(pending)), FALSE)
    BY DEF D!Apply
  <2> QED
    BY <1>1, <1>2, <2>1, WriteSets DEF KeptHandles, Sets
<1>4. CASE pending' # <<>>
  BY <1>1, <1>3, <1>4 DEF D!Apply
<1>5. CASE pending' = <<>>
  <2> DEFINE l == [handle |-> device, config |-> config, hop |-> 1, alive |-> TRUE, told |-> FALSE]
  <2>1. l \in LoopType
    BY <1>1 DEF LoopType
  <2>2. PICK t \in Threads : loop[t] = None /\ thread' = t /\ loop' = [loop EXCEPT ![t] = l]
    BY <1>5 DEF D!Apply
  <2>3. loop'[t] = l /\ \A x \in Threads : x # t => loop'[x] = loop[x]
    BY <2>2 DEF DeviceTypes
  <2>4. loop'[t] # None /\ loop'[t].handle = device /\ loop'[t].config = config
    <3>1. l.handle = device /\ l.config = config
      OBVIOUS
    <3> HIDE DEF l
    <3> QED
      BY <2>1, <2>3, <3>1, NoneAssumption
  <2> HIDE DEF l
  <2>5. \A x \in Threads : x # t => loop'[x] = loop[x]
    BY <2>3
  <2>6. thread' = t /\ loop[t] = None
    BY <2>2
  <2>7. /\ thread' \in Threads /\ loop[thread'] = None /\ loop'[thread'] # None
        /\ loop'[thread'].handle = device /\ loop'[thread'].config = config
    BY <2>6, <2>4
  <2>8. \A x \in Threads : x # thread' => loop'[x] = loop[x]
    BY <2>5, <2>6
  <2> QED
    BY <1>1, <1>3, <1>5, <2>7, <2>8
<1> QED
  BY <1>4, <1>5

(* Every step keeps what is referred to. *)
LEMMA PresentStep == DevicesInv /\ [D!Next]_(D!vars) => PresentInv'
<1> SUFFICES ASSUME DevicesInv, [D!Next]_(D!vars) PROVE PresentInv'
  OBVIOUS
<1> USE NoneAssumption DEF D!collector, D!Ready
<1>1. DeviceTypes /\ PresentInv
  BY DEF DevicesInv
<1>k. ASSUME KeptHandles, KeptLoops, UNCHANGED <<plugged, device, thread>>,
             pending' \in {pending, <<>>}, config' = config
      PROVE  PresentInv'
  <2>1. \A t \in Threads : loop[t] # None => loop[t].handle \in Handles
    BY <1>1 DEF DeviceTypes, LoopType
  <2> QED
    BY <1>1, <1>k, <2>1 DEF PresentInv, KeptHandles, KeptLoops, DeviceTypes
<1>2. ASSUME NEW u \in Uris, D!Pull(u) PROVE PresentInv'
  <2>1. ASSUME NEW h \in Handles
        PROVE  /\ handle'[h] # None <=> handle[h] # None
               /\ handle[h] # None => /\ handle'[h].uri = handle[h].uri
                                      /\ handle'[h].sdr = handle[h].sdr
                                      /\ handle[h].uri = u => handle'[h].broken
                                      /\ handle[h].uri # u => handle'[h] = handle[h]
    <3>1. handle'[h] = IF handle[h] # None /\ handle[h].uri = u
                         THEN [handle[h] EXCEPT !.broken = TRUE] ELSE handle[h]
      BY <1>2 DEF D!Pull
    <3>2. CASE handle[h] # None
      <4>1. handle[h] \in HandleType
        BY <1>1, <3>2 DEF DeviceTypes
      <4>2. CASE handle[h].uri = u
        <5>1. handle'[h] = [handle[h] EXCEPT !.broken = TRUE]
          BY <3>1, <3>2, <4>2
        <5>2. handle'[h] \in HandleType
          BY <4>1, <5>1 DEF HandleType
        <5> QED
          BY <3>2, <4>1, <4>2, <5>1, <5>2 DEF HandleType
      <4> QED
        BY <3>1, <4>2
    <3> QED
      BY <3>1, <3>2
  <2>2. \A t \in Threads : loop[t] # None => loop[t].handle \in Handles
    BY <1>1 DEF DeviceTypes, LoopType
  <2> QED
    BY <1>1, <1>2, <2>1, <2>2 DEF D!Pull, PresentInv, DeviceTypes
<1>3. ASSUME NEW u \in Uris, D!Plug(u) PROVE PresentInv'
  BY <1>1, <1>3 DEF D!Plug, PresentInv
<1>4. ASSUME NEW u \in Uris, D!Open(u), UNCHANGED <<plugged, thread, loop>>,
             config' # None \/ pending' = <<>>
      PROVE  PresentInv'
  <2>1. \A t \in Threads : loop[t] # None => loop[t].handle # device'
    BY <1>1, <1>4, OpenMakes DEF PresentInv
  <2>2. \A t \in Threads : loop[t] # None => loop[t].handle \in Handles
    BY <1>1 DEF DeviceTypes, LoopType
  <2>3. ASSUME NEW t \in Threads, loop'[t] # None PROVE handle'[loop'[t].handle] # None
    <3>1. loop'[t] = loop[t] /\ handle[loop[t].handle] # None
      BY <1>1, <1>4, <2>3 DEF PresentInv
    <3>2. handle'[loop[t].handle] = handle[loop[t].handle]
      BY <1>1, <1>4, <2>1, <2>2, <2>3, <3>1, OpenMakes
    <3> QED
      BY <3>1, <3>2
  <2>4. handle'[device'] # None /\ handle'[device'].sdr /\ handle'[device'].uri = u /\ device' # None
    BY <1>1, <1>4, OpenMakes
  <2>5. ASSUME NEW h \in Handles, handle'[h] # None, ~handle'[h].broken PROVE handle'[h].uri \in plugged'
    <3>1. CASE h = device'
      BY <1>1, <1>4, <2>4, <3>1, OpenMakes
    <3>2. CASE h # device'
      BY <1>1, <1>4, <2>5, <3>2, OpenMakes DEF PresentInv
    <3> QED
      BY <3>1, <3>2
  <2> QED
    BY <1>1, <1>4, <2>3, <2>4, <2>5 DEF PresentInv
<1>5. ASSUME device # None, D!Drop(device), UNCHANGED <<plugged, config, pending>>, device' = None,
             thread' \in {thread, None}, KeptLoops, D!Ready
      PROVE  PresentInv'
  <2>1. \A t \in Threads : loop[t] # None => loop[t].handle \in Handles
    BY <1>1 DEF DeviceTypes, LoopType
  <2>2. device \in Handles /\ handle[device] # None
    BY <1>1, <1>5 DEF DeviceTypes, PresentInv
  <2>3. \A h \in Handles :
           /\ handle'[h] # None <=> handle[h] # None
           /\ handle[h] # None => handle'[h].uri = handle[h].uri /\ handle'[h].broken = handle[h].broken
    BY <1>1, <1>5, <2>2, DropTakes
  <2>4. \A t \in Threads : loop'[t] # None => handle'[loop'[t].handle] # None
    BY <1>1, <1>5, <2>1, <2>3 DEF PresentInv, KeptLoops
  <2>5. thread' # None => loop'[thread'] # None
    BY <1>1, <1>5 DEF PresentInv, KeptLoops, DeviceTypes
  <2> QED
    BY <1>1, <1>5, <2>3, <2>4, <2>5 DEF PresentInv
<1>6. CASE D!Disconnect
  BY <1>5, <1>6 DEF D!Disconnect, KeptLoops
<1>7. CASE D!Apply
  <2>1. config # None /\ UNCHANGED <<plugged, device, config>> /\ handle[device] # None
    BY <1>1, <1>7 DEF D!Apply, PresentInv
  <2>2. \A t \in Threads : loop[t] # None => loop[t].handle \in Handles
    BY <1>1 DEF DeviceTypes, LoopType
  <2>3. KeptHandles /\ device \in Handles
    BY <1>1, <1>7, ApplySets
  <2>4. /\ \A t \in Threads : loop'[t] # None => handle'[loop'[t].handle] # None
        /\ thread' # None => loop'[thread'] # None
    <3>1. CASE UNCHANGED <<thread, loop>>
      BY <1>1, <2>2, <2>3, <3>1 DEF PresentInv, KeptHandles
    <3>2. CASE /\ thread' \in Threads /\ loop'[thread'] # None /\ loop'[thread'].handle = device
               /\ \A x \in Threads : x # thread' => loop'[x] = loop[x]
      BY <1>1, <2>1, <2>2, <2>3, <3>2 DEF PresentInv, KeptHandles
    <3> QED
      BY <1>1, <1>7, <3>1, <3>2, ApplySets
  <2>5. \A h \in Handles : handle'[h] # None /\ ~handle'[h].broken => handle'[h].uri \in plugged'
    BY <1>1, <2>1, <2>3 DEF PresentInv, KeptHandles
  <2> QED
    BY <1>1, <2>1, <2>3, <2>4, <2>5 DEF PresentInv, KeptHandles
<1>8. CASE D!ApplyFails
  BY <1>1, <1>8, <1>k DEF D!ApplyFails, D!Write, KeptHandles, KeptLoops
<1>9. CASE D!Stop
  <2>1. CASE device = None
    <3>1. KeptLoops /\ UNCHANGED <<plugged, handle, config, pending>> /\ device' = None /\ thread' = None
      BY <1>1, <1>9, <2>1, ThreadsKeep DEF D!Stop
    <3>2. \A t \in Threads : loop[t] # None => loop[t].handle \in Handles
      BY <1>1 DEF DeviceTypes, LoopType
    <3> QED
      BY <1>1, <1>9, <3>1, <3>2 DEF D!Stop, PresentInv, KeptLoops
  <2>2. CASE device # None
    BY <1>1, <1>5, <1>9, <2>2, ThreadsKeep DEF D!Stop
  <2> QED
    BY <2>1, <2>2
<1>10. ASSUME NEW c \in Configs, D!StartSimulator(c) \/ D!StartFails(c) PROVE PresentInv'
  BY <1>1, <1>10 DEF D!StartSimulator, D!StartFails, PresentInv
<1>11. ASSUME NEW c \in Configs, NEW u \in Uris, D!Start(u, c) PROVE PresentInv'
  <2>1. CASE device = None
    BY <1>4, <1>11, <2>1 DEF D!Start
  <2>2. CASE device # None
    BY <1>1, <1>11, <2>2 DEF D!Start, PresentInv
  <2> QED
    BY <2>1, <2>2
<1>12. ASSUME NEW t \in Threads, D!Ends(t) \/ D!ReadFails(t) PROVE PresentInv'
  BY <1>1, <1>12, <1>k, ThreadsKeep DEF D!Ends, D!ReadFails, KeptHandles
<1>13. ASSUME NEW t \in Threads, D!Hop(t) PROVE PresentInv'
  BY <1>1, <1>13, <1>k, HopKeeps DEF D!Hop
<1>14. ASSUME NEW u \in Uris, D!Connect(u) PROVE PresentInv'
  BY <1>4, <1>14 DEF D!Connect
<1>15. CASE UNCHANGED D!vars
  BY <1>1, <1>15 DEF D!vars, PresentInv
<1> QED
  BY <1>2, <1>3, <1>6, <1>7, <1>8, <1>9, <1>10, <1>11, <1>12, <1>13, <1>14, <1>15 DEF D!Next
-----------------------------------------------------------------------------
\* No thread of an earlier session can still set a radio while the device in hand
\* is none, is being configured, or the collector does not run.
LEMMA NobodyWrites ==
  ASSUME DevicesInv, ~stray, device = None \/ ~D!Ready \/ state # "running",
         NEW t \in Threads, D!Lives(t)
  PROVE  ~D!Usable(loop[t].handle)
<1>1. loop[t].handle \in Handles
  BY DEF DevicesInv, DeviceTypes, D!Lives, LoopType
<1> QED
  BY <1>1, NoneAssumption DEF DevicesInv, OnlyWriter, LifeInv, D!Lives

\* Whether a handle will be usable.
StaysUsable(h) == handle'[h].sdr /\ ~handle'[h].broken

\* A step that takes radios from handles, ends threads and makes none.
LEMMA FewerWriters ==
  ASSUME DevicesInv, ~stray, KeptLoops,
         \A h \in Handles : handle[h] # None /\ StaysUsable(h) => D!Usable(h),
         UNCHANGED <<thread, device>>
  PROVE  OnlyWriter'
<1> SUFFICES ASSUME NEW t \in Threads, D!Lives(t)', StaysUsable(loop'[t].handle)
             PROVE  t = thread /\ loop'[t].handle = device
  BY DEF OnlyWriter, D!Usable, StaysUsable
<1>1. D!Lives(t) /\ loop'[t].handle = loop[t].handle
  BY DEF D!Lives, KeptLoops
<1>2. loop[t].handle \in Handles /\ handle[loop[t].handle] # None
  BY <1>1 DEF DevicesInv, DeviceTypes, PresentInv, D!Lives, LoopType
<1> QED
  BY <1>1, <1>2 DEF DevicesInv, OnlyWriter, D!Usable, StaysUsable

(* No step gives a thread of an earlier session a radio back. *)
LEMMA OnlyWriterStep == DevicesInv /\ [D!Next]_(D!vars) /\ ~stray' => OnlyWriter'
<1> SUFFICES ASSUME DevicesInv, [D!Next]_(D!vars), ~stray' PROVE OnlyWriter'
  OBVIOUS
<1> USE NoneAssumption DEF D!collector
<1>1. DeviceTypes /\ PresentInv
  BY DEF DevicesInv
<1>2. \A t \in Threads : loop[t] # None => loop[t].handle \in Handles /\ handle[loop[t].handle] # None
  BY <1>1 DEF DeviceTypes, PresentInv, LoopType
<1>3. ASSUME NEW u \in Uris, D!Pull(u) PROVE OnlyWriter'
  <2>1. ASSUME NEW h \in Handles, handle[h] # None, StaysUsable(h) PROVE D!Usable(h)
    <3>1. handle[h] \in HandleType
      BY <1>1, <2>1 DEF DeviceTypes
    <3>2. handle'[h] = IF handle[h].uri = u THEN [handle[h] EXCEPT !.broken = TRUE] ELSE handle[h]
      BY <1>3, <2>1 DEF D!Pull
    <3>3. CASE handle[h].uri = u
      <4>1. handle'[h].broken = TRUE
        BY <3>1, <3>2, <3>3 DEF HandleType
      <4> QED
        BY <2>1, <4>1 DEF D!Usable, StaysUsable
    <3> QED
      BY <2>1, <3>2, <3>3 DEF D!Usable, StaysUsable
  <2> QED
    BY <1>3, <2>1, FewerWriters DEF D!Pull, KeptLoops
<1>4. ASSUME NEW u \in Uris, D!Plug(u) PROVE OnlyWriter'
  BY <1>4, FewerWriters DEF D!Plug, KeptLoops, D!Usable, StaysUsable
<1>5. ASSUME NEW u \in Uris, D!Open(u), device = None, UNCHANGED <<loop, stray>> PROVE OnlyWriter'
  <2>1. ASSUME NEW t \in Threads, D!Lives(t) PROVE ~StaysUsable(loop[t].handle)
    <3>1. ~D!Usable(loop[t].handle)
      BY <1>5, <2>1, NobodyWrites
    <3>2. handle'[loop[t].handle] = handle[loop[t].handle]
      BY <1>1, <1>2, <1>5, <2>1, OpenMakes DEF D!Lives
    <3> QED
      BY <1>5, <3>1, <3>2 DEF D!Usable, StaysUsable
  <2> QED
    BY <1>5, <2>1 DEF OnlyWriter, D!Lives, D!Usable, StaysUsable
<1>6. ASSUME KeptLoops, UNCHANGED stray,
             IF device = None THEN UNCHANGED handle ELSE D!Drop(device)
      PROVE  OnlyWriter'
  <2>1. ASSUME NEW t \in Threads, D!Lives(t)' PROVE ~StaysUsable(loop'[t].handle)
    <3>1. D!Lives(t) /\ loop'[t].handle = loop[t].handle
      BY <1>6, <2>1 DEF KeptLoops, D!Lives
    <3>2. CASE device = None
      BY <1>6, <3>1, <3>2, NobodyWrites DEF D!Usable, StaysUsable
    <3>3. CASE device # None
      <4>1. device \in Handles /\ handle[device] # None /\ handle'[device].sdr = FALSE
        BY <1>1, <1>6, <3>3, DropTakes DEF DeviceTypes, PresentInv
      <4>2. CASE loop[t].handle = device
        BY <3>1, <4>1, <4>2 DEF D!Usable, StaysUsable
      <4>3. CASE loop[t].handle # device
        <5>1. ~D!Usable(loop[t].handle)
          BY <1>6, <3>1, <4>3 DEF DevicesInv, OnlyWriter
        <5>2. handle'[loop[t].handle] = handle[loop[t].handle]
          BY <1>1, <1>2, <1>6, <3>1, <3>3, <4>1, <4>3, DropTakes DEF D!Lives
        <5> QED
          BY <3>1, <5>1, <5>2 DEF D!Usable, StaysUsable
      <4> QED
        BY <4>2, <4>3
    <3> QED
      BY <3>2, <3>3
  <2> QED
    BY <2>1 DEF OnlyWriter, D!Lives, D!Usable, StaysUsable
<1>7. CASE D!Disconnect
  BY <1>6, <1>7 DEF D!Disconnect, KeptLoops
<1>8. CASE D!Stop
  BY <1>1, <1>6, <1>8, ThreadsKeep DEF D!Stop
<1>9. CASE D!Apply
  <2>1. ASSUME NEW t \in Threads, D!Lives(t) PROVE ~StaysUsable(loop[t].handle)
    <3>1. ~D!Usable(loop[t].handle)
      BY <1>9, <2>1, NobodyWrites DEF D!Apply
    <3>2. KeptHandles /\ loop[t].handle \in Handles /\ handle[loop[t].handle] # None
      BY <1>1, <1>2, <1>9, <2>1, ApplySets DEF D!Lives
    <3> QED
      BY <3>1, <3>2 DEF D!Usable, StaysUsable, KeptHandles
  <2>2. CASE UNCHANGED <<thread, loop>>
    BY <2>1, <2>2 DEF OnlyWriter, D!Lives, D!Usable, StaysUsable
  <2>3. CASE /\ thread' \in Threads /\ loop'[thread'].handle = device
             /\ \A x \in Threads : x # thread' => loop'[x] = loop[x]
    <3>1. device' = device
      BY <1>9 DEF D!Apply
    <3>2. ASSUME NEW t \in Threads, t # thread' PROVE ~(D!Lives(t)' /\ StaysUsable(loop'[t].handle))
      BY <2>1, <2>3, <3>2 DEF D!Lives, D!Usable, StaysUsable
    <3> QED
      BY <2>3, <3>1, <3>2 DEF OnlyWriter, D!Lives, D!Usable, StaysUsable
  <2> QED
    BY <1>1, <1>9, <2>2, <2>3, ApplySets
<1>10. CASE D!ApplyFails
  BY <1>10, FewerWriters DEF D!ApplyFails, D!Write, KeptLoops, D!Usable, StaysUsable
<1>11. ASSUME NEW c \in Configs, D!StartSimulator(c) PROVE OnlyWriter'
  <2>1. ASSUME NEW t \in Threads, D!Lives(t) PROVE ~D!Usable(loop[t].handle)
    BY <1>11, <2>1, NobodyWrites DEF D!StartSimulator
  <2> QED
    BY <1>11, <2>1 DEF D!StartSimulator, OnlyWriter, D!Lives, D!Usable, StaysUsable
<1>12. ASSUME NEW c \in Configs, D!StartFails(c) PROVE OnlyWriter'
  BY <1>12, FewerWriters DEF D!StartFails, KeptLoops, D!Usable, StaysUsable
<1>13. ASSUME NEW c \in Configs, NEW u \in Uris, D!Start(u, c) PROVE OnlyWriter'
  <2>1. CASE device = None
    BY <1>5, <1>13, <2>1 DEF D!Start
  <2>2. CASE device # None
    BY <1>13, <2>2, FewerWriters DEF D!Start, KeptLoops, D!Usable, StaysUsable
  <2> QED
    BY <2>1, <2>2
<1>14. ASSUME NEW t \in Threads, D!Ends(t) \/ D!ReadFails(t) PROVE OnlyWriter'
  <2>1. KeptLoops
    BY <1>1, <1>14, ThreadsKeep
  <2>2. UNCHANGED <<handle, thread, device>> /\ ~stray
    BY <1>1, <1>14 DEF D!Ends, D!ReadFails, DeviceTypes
  <2> QED
    BY <2>1, <2>2, FewerWriters DEF D!Usable, StaysUsable
<1>15. ASSUME NEW t \in Threads, D!Hop(t) PROVE OnlyWriter'
  BY <1>1, <1>15, FewerWriters, HopKeeps DEF D!Hop, D!Usable, StaysUsable, KeptHandles
<1>16. ASSUME NEW u \in Uris, D!Connect(u) PROVE OnlyWriter'
  BY <1>5, <1>16 DEF D!Connect
<1>17. CASE UNCHANGED D!vars
  BY <1>17, FewerWriters DEF D!vars, KeptLoops, D!Usable, StaysUsable
<1> QED
  BY <1>3, <1>4, <1>7, <1>8, <1>9, <1>10, <1>11, <1>12, <1>13, <1>14, <1>15, <1>16, <1>17 DEF D!Next
(* The collector's thread ends, or is told to, before anything else starts. *)
LEMMA LifeStep == DevicesInv /\ [D!Next]_(D!vars) /\ ~stray' => LifeInv'
<1> SUFFICES ASSUME DevicesInv, [D!Next]_(D!vars), ~stray' PROVE LifeInv'
  OBVIOUS
<1> USE DEF D!collector, D!Ready, D!Lives
<1>1. DeviceTypes /\ PresentInv
  BY DEF DevicesInv
<1>2. ~stray => LifeInv
  BY DEF DevicesInv
<1>k. ASSUME KeptLoops, UNCHANGED <<state, config, pending, thread, stray>> PROVE LifeInv'
  BY <1>1, <1>2, <1>k DEF LifeInv, KeptLoops, DeviceTypes
<1>3. ASSUME NEW u \in Uris, D!Pull(u) \/ D!Plug(u) \/ D!Connect(u) PROVE LifeInv'
  BY <1>k, <1>3 DEF D!Pull, D!Plug, D!Connect, KeptLoops
<1>4. CASE D!Disconnect
  BY <1>k, <1>4 DEF D!Disconnect, KeptLoops
<1>5. CASE D!Stop
  BY <1>5 DEF D!Stop, LifeInv
<1>6. CASE D!Apply
  <2>1. state = "running" /\ UNCHANGED <<state, config, stray>> /\ ~D!Ready
    BY <1>6 DEF D!Apply, DevicesInv, ApplyInv
  <2>2. CASE UNCHANGED <<thread, loop>>
    BY <1>1, <1>2, <2>1, <2>2 DEF LifeInv
  <2>3. CASE pending' = <<>> /\ loop'[thread'].config = config
    BY <2>1, <2>3 DEF LifeInv
  <2> QED
    BY <1>1, <1>6, <2>2, <2>3, ApplySets
<1>7. CASE D!ApplyFails
  BY <1>2, <1>7 DEF D!ApplyFails, LifeInv
<1>8. ASSUME NEW c \in Configs, D!StartSimulator(c) \/ D!StartFails(c) PROVE LifeInv'
  BY <1>2, <1>8 DEF D!StartSimulator, D!StartFails, LifeInv
<1>9. ASSUME NEW c \in Configs, NEW u \in Uris, D!Start(u, c) PROVE LifeInv'
  BY <1>2, <1>9 DEF D!Start, LifeInv
<1>10. ASSUME NEW t \in Threads, D!Ends(t) PROVE LifeInv'
  BY <1>1, <1>k, <1>10, ThreadsKeep DEF D!Ends
<1>11. ASSUME NEW t \in Threads, D!Hop(t) PROVE LifeInv'
  BY <1>1, <1>k, <1>11, HopKeeps DEF D!Hop
<1>12. ASSUME NEW t \in Threads, D!ReadFails(t) PROVE LifeInv'
  <2>1. t = thread' /\ loop' = [loop EXCEPT ![t].alive = FALSE] /\ loop[t] \in LoopType
    BY <1>1, <1>12 DEF D!ReadFails, DeviceTypes
  <2>2. loop'[t].alive = FALSE
    BY <1>1, <2>1 DEF DeviceTypes, LoopType
  <2> QED
    BY <2>1, <2>2 DEF LifeInv
<1>13. CASE UNCHANGED D!vars
  BY <1>k, <1>13 DEF D!vars, KeptLoops
<1> QED
  BY <1>3, <1>4, <1>5, <1>6, <1>7, <1>8, <1>9, <1>10, <1>11, <1>12, <1>13 DEF D!Next

(* A line of _apply_config writes the setting it takes off the list. *)
LEMMA ApplyCompletes ==
  ASSUME DevicesInv, ~stray, D!Apply, D!Usable(device)
  PROVE  PendingIsMissing'
<1>1. DeviceTypes /\ PresentInv /\ ApplyInv /\ ~D!Ready /\ pending' = Tail(pending)
  BY DEF DevicesInv, D!Apply
<1>2. /\ KeptHandles /\ device \in Handles /\ handle[device] \in HandleType
      /\ Sets(device, Head(pending), D!Wanted(Head(pending)))
  BY <1>1, ApplySets
<1>3. PendingIsMissing
  BY <1>1 DEF ApplyInv
<1>4. ASSUME NEW s \in D!Settings PROVE D!Wanted(s)' = D!Wanted(s)
  BY DEF D!Apply, D!Wanted
<1>5. device' = device /\ handle[device] # None
  BY <1>1, <1>2, NoneAssumption DEF D!Apply
<1>6. ASSUME NEW s \in D!Settings, s # Head(pending), NEW i \in 1 .. Len(pending), pending[i] = s
      PROVE  \E j \in 1 .. Len(pending') : pending'[j] = s
  <2>1. pending \in Seq(D!Settings) /\ pending # <<>>
    BY <1>1 DEF DeviceTypes, D!Ready
  <2>2. i # 1
    BY <1>6, <2>1
  <2>3. i - 1 \in 1 .. Len(Tail(pending)) /\ Tail(pending)[i - 1] = pending[i]
    BY <2>1, <2>2, HeadTailProperties
  <2> QED
    BY <1>1, <1>6, <2>3
<1> SUFFICES ASSUME NEW s \in D!Settings \ Ignored
             PROVE  \/ \E j \in 1 .. Len(pending') : pending'[j] = s
                    \/ NextActual(device, s) = D!Wanted(s)'
  BY <1>5 DEF PendingIsMissing, D!Actual, NextActual
<1>7. CASE s = Head(pending)
  BY <1>2, <1>4, <1>5, <1>7 DEF Sets
<1>8. CASE s # Head(pending) /\ D!Actual(device, s) = D!Wanted(s)
  BY <1>2, <1>4, <1>5, <1>8 DEF Sets
<1> QED
  BY <1>3, <1>6, <1>7, <1>8 DEF PendingIsMissing

(* Nothing undoes what a start under way has set already. *)
LEMMA ApplyStep == DevicesInv /\ [D!Next]_(D!vars) /\ ~stray' => ApplyInv'
<1> SUFFICES ASSUME DevicesInv, [D!Next]_(D!vars), ~stray', ~D!Ready'
             PROVE  state' = "running" /\ (D!Usable(device)' => PendingIsMissing')
  BY DEF ApplyInv, PendingIsMissing
<1> USE NoneAssumption DEF D!collector
<1>1. DeviceTypes /\ PresentInv
  BY DEF DevicesInv
<1>2. ~stray => ApplyInv
  BY DEF DevicesInv
<1>g. ASSUME ~D!Ready, ~stray, UNCHANGED <<device, config, pending>>,
             StaysUsable(device) => D!Usable(device) /\ Unmoved(device),
             state' = state
      PROVE  state' = "running" /\ (D!Usable(device)' => PendingIsMissing')
  <2>1. ASSUME NEW s \in D!Settings PROVE D!Wanted(s)' = D!Wanted(s)
    BY <1>g DEF D!Wanted
  <2> QED
    BY <1>2, <1>g, <2>1
    DEF ApplyInv, PendingIsMissing, D!Usable, StaysUsable, Unmoved, NextActual, D!Actual
<1>h. ~D!Ready => device \in Handles /\ handle[device] # None /\ handle[device] \in HandleType
  BY <1>1 DEF DeviceTypes, PresentInv
<1>3. ASSUME NEW u \in Uris, D!Pull(u) PROVE state' = "running" /\ (D!Usable(device)' => PendingIsMissing')
  <2>1. ~D!Ready /\ ~stray /\ UNCHANGED <<device, config, pending, state, radio>>
    BY <1>3 DEF D!Pull, D!Ready
  <2>2. handle'[device] = IF handle[device].uri = u THEN [handle[device] EXCEPT !.broken = TRUE]
                          ELSE handle[device]
    BY <1>3, <1>h, <2>1 DEF D!Pull
  <2>3. Unmoved(device)
    <3>1. handle'[device].uri = handle[device].uri /\ handle'[device].buffer = handle[device].buffer
      BY <1>h, <2>1, <2>2 DEF HandleType
    <3> QED
      BY <2>1, <3>1, SameIsUnmoved
  <2>4. StaysUsable(device) => D!Usable(device)
    <3>1. CASE handle[device].uri = u
      <4>1. handle'[device].broken = TRUE
        BY <1>h, <2>1, <2>2, <3>1 DEF HandleType
      <4> QED
        BY <4>1 DEF StaysUsable
    <3> QED
      BY <2>2, <3>1 DEF D!Usable, StaysUsable
  <2> QED
    BY <1>g, <2>1, <2>3, <2>4
<1>4. ASSUME NEW u \in Uris, D!Plug(u) PROVE state' = "running" /\ (D!Usable(device)' => PendingIsMissing')
  <2>1. ~D!Ready /\ ~stray /\ UNCHANGED <<device, config, pending, state, handle>>
    BY <1>4 DEF D!Plug, D!Ready
  <2>2. D!Usable(device) => handle[device].uri # u
    BY <1>1, <1>4, <1>h, <2>1 DEF D!Plug, PresentInv, D!Usable
  <2>3. handle[device].uri # u => radio'[handle[device].uri] = radio[handle[device].uri]
    BY <1>1, <1>4, <1>h, <2>1 DEF D!Plug, DeviceTypes, HandleType
  <2> QED
    BY <1>g, <2>1, <2>2, <2>3, SameIsUnmoved DEF D!Usable, StaysUsable
<1>5. ASSUME NEW u \in Uris, D!Connect(u) PROVE FALSE
  BY <1>5 DEF D!Connect, D!Ready
<1>6. ~D!Disconnect /\ ~D!Stop /\ ~D!ApplyFails
  BY DEF D!Disconnect, D!Stop, D!ApplyFails, D!Ready
<1>7. CASE D!Apply
  <2>1. ~D!Ready /\ ~stray /\ state' = state
    BY <1>7 DEF D!Apply
  <2> QED
    <3>1. ASSUME StaysUsable(device') PROVE PendingIsMissing'
      <4>1. D!Usable(device)
        BY <1>1, <1>7, <1>h, <2>1, <3>1, ApplySets DEF D!Apply, KeptHandles, D!Usable, StaysUsable
      <4> QED
        BY <1>7, <2>1, <4>1, ApplyCompletes
    <3> QED
      BY <1>2, <2>1, <3>1 DEF ApplyInv, D!Usable, StaysUsable
<1>8. ASSUME NEW c \in Configs, D!StartSimulator(c) \/ D!StartFails(c) PROVE FALSE
  BY <1>8 DEF D!StartSimulator, D!StartFails, D!Ready
<1>9. ASSUME NEW c \in Configs, NEW u \in Uris, D!Start(u, c)
      PROVE  state' = "running" /\ (D!Usable(device)' => PendingIsMissing')
  <2>1. /\ state' = "running"
        /\ pending' = <<"frequency", "gain", "buffer_size", "sample_rate", "rf_bandwidth">>
    BY <1>9 DEF D!Start
  <2>2. ASSUME NEW s \in D!Settings PROVE \E i \in 1 .. Len(pending') : pending'[i] = s
    <3>1. Len(pending') = 5
      BY <2>1
    <3>2. \E i \in 1 .. 5 : pending'[i] = s
      BY <2>1 DEF D!Settings, D!Rest
    <3> QED
      BY <3>1, <3>2
  <2> QED
    BY <2>1, <2>2 DEF PendingIsMissing
<1>10. ASSUME NEW t \in Threads, D!Ends(t)
       PROVE  state' = "running" /\ (D!Usable(device)' => PendingIsMissing')
  <2>1. ~D!Ready /\ ~stray /\ UNCHANGED <<device, config, pending, state, handle, radio>>
    BY <1>10 DEF D!Ends, D!Ready
  <2> QED
    BY <1>g, <2>1, SameIsUnmoved DEF D!Usable, StaysUsable
<1>11. ASSUME NEW t \in Threads, D!Hop(t)
       PROVE  state' = "running" /\ (D!Usable(device)' => PendingIsMissing')
  <2>1. ~D!Ready /\ ~stray /\ UNCHANGED <<device, config, pending, state>>
    BY <1>11 DEF D!Hop, D!Ready
  <2>2. UNCHANGED <<handle, radio>>
    BY <1>1, <1>11, <2>1, HopKeeps, NobodyWrites
  <2> QED
    BY <1>g, <2>1, <2>2, SameIsUnmoved DEF D!Usable, StaysUsable
<1>12. ASSUME NEW t \in Threads, D!ReadFails(t) PROVE FALSE
  <2>1. ~stray /\ t = thread /\ D!Lives(t) /\ ~D!Ready
    BY <1>1, <1>12 DEF D!ReadFails, D!Ready, DeviceTypes
  <2> QED
    BY <2>1 DEF DevicesInv, LifeInv, D!Lives
<1>13. CASE UNCHANGED D!vars
  <2>1. ~D!Ready /\ ~stray /\ UNCHANGED <<device, config, pending, state, handle, radio>>
    BY <1>13 DEF D!vars, D!Ready
  <2> QED
    BY <1>g, <2>1, SameIsUnmoved DEF D!Usable, StaysUsable
<1> QED
  BY <1>3, <1>4, <1>5, <1>6, <1>7, <1>8, <1>9, <1>10, <1>11, <1>12, <1>13 DEF D!Next
-----------------------------------------------------------------------------
\* A handle reads with the settings of a configuration, and hops with it.
SetUp(h, c) ==
    /\ \A s \in D!Rest \ Ignored : D!Actual(h, s) = c.rest[s]
    /\ \E k \in DOMAIN c.frequencies : D!Actual(h, "frequency") = c.frequencies[k]

NextSetUp(h, c) ==
    /\ \A s \in D!Rest \ Ignored : NextActual(h, s) = c.rest[s]
    /\ \E k \in DOMAIN c.frequencies : NextActual(h, "frequency") = c.frequencies[k]

(* The last line of a start leaves all settings; no later step takes them. *)
LEMMA RunningStep ==
  ASSUME DevicesInv, [D!Next]_(D!vars), ~stray',
         (DeviceTypes /\ PresentInv /\ OnlyWriter /\ LifeInv)'
  PROVE  D!RunningIsConfigured'
<1> SUFFICES ASSUME thread' # None, D!Lives(thread)', D!Usable(loop[thread].handle)'
             PROVE  NextSetUp(device', config')
  BY DEF D!RunningIsConfigured, NextSetUp, NextActual, D!Actual, D!Lives, PresentInv, OnlyWriter,
         DeviceTypes
<1> USE NoneAssumption DEF D!collector
<1>1. DeviceTypes /\ PresentInv /\ D!RunningIsConfigured
  BY DEF DevicesInv
<1>2. /\ state' = "running" /\ D!Ready' /\ loop'[thread'].config = config'
      /\ loop'[thread'].handle = device' /\ loop'[thread'] # None /\ loop'[thread'].alive
      /\ thread' \in Threads /\ device' \in Handles /\ StaysUsable(device')
  <2>1. thread' \in Threads /\ loop'[thread'] # None /\ loop'[thread'].alive
    BY DEF DeviceTypes, D!Lives
  <2>2. state' = "running" /\ D!Ready' /\ loop'[thread'].config = config'
    BY DEF LifeInv
  <2>3. loop'[thread'].handle = device'
    BY <2>1 DEF OnlyWriter
  <2>4. loop'[thread'].handle \in Handles /\ StaysUsable(loop'[thread'].handle)
    BY <2>1 DEF DeviceTypes, LoopType, D!Usable, StaysUsable
  <2> QED
    BY <2>1, <2>2, <2>3, <2>4
<1>k. ASSUME KeptLoops, UNCHANGED <<thread, device, config, stray>>,
             D!Usable(device), Unmoved(device)
      PROVE  NextSetUp(device', config')
  <2>1. thread \in Threads /\ loop[thread] # None /\ loop[thread].handle = device /\ loop[thread].alive
    BY <1>1, <1>2, <1>k DEF KeptLoops
  <2>2. state = "running"
    BY <1>k, <2>1 DEF DevicesInv, LifeInv, D!Lives
  <2>3. SetUp(device, config)
    BY <1>1, <1>k, <2>1, <2>2 DEF D!RunningIsConfigured, SetUp, D!Usable
  <2> QED
    BY <1>k, <2>3 DEF SetUp, NextSetUp, Unmoved, D!Settings, D!Rest
<1>h. device \in Handles => handle[device] # None /\ handle[device] \in HandleType
  BY <1>1 DEF DeviceTypes, PresentInv
<1>3. ASSUME NEW u \in Uris, D!Pull(u) PROVE NextSetUp(device', config')
  <2>1. device' = device /\ KeptLoops /\ UNCHANGED <<thread, config, stray, radio>>
    BY <1>3 DEF D!Pull, KeptLoops
  <2>2. handle'[device] = IF handle[device].uri = u THEN [handle[device] EXCEPT !.broken = TRUE]
                          ELSE handle[device]
    BY <1>2, <1>3, <1>h, <2>1 DEF D!Pull
  <2>3. Unmoved(device)
    <3>1. handle'[device].uri = handle[device].uri /\ handle'[device].buffer = handle[device].buffer
      BY <1>2, <1>h, <2>1, <2>2 DEF HandleType
    <3> QED
      BY <2>1, <3>1, SameIsUnmoved
  <2>4. D!Usable(device)
    <3>1. CASE handle[device].uri = u
      <4>1. handle'[device].broken = TRUE
        BY <1>2, <1>h, <2>1, <2>2, <3>1 DEF HandleType
      <4> QED
        BY <1>2, <2>1, <4>1 DEF StaysUsable
    <3> QED
      BY <1>2, <2>1, <2>2, <3>1 DEF D!Usable, StaysUsable
  <2> QED
    BY <1>k, <2>1, <2>3, <2>4
<1>4. ASSUME NEW u \in Uris, D!Plug(u) PROVE NextSetUp(device', config')
  <2>1. device' = device /\ KeptLoops /\ UNCHANGED <<thread, config, stray, handle>>
    BY <1>4 DEF D!Plug, KeptLoops
  <2>2. D!Usable(device) /\ handle[device].uri # u
    BY <1>1, <1>2, <1>4, <1>h, <2>1 DEF D!Plug, PresentInv, D!Usable, StaysUsable
  <2>3. radio'[handle[device].uri] = radio[handle[device].uri]
    BY <1>1, <1>2, <1>4, <1>h, <2>1, <2>2 DEF D!Plug, DeviceTypes, HandleType
  <2> QED
    BY <1>k, <2>1, <2>2, <2>3, SameIsUnmoved
<1>5. ASSUME NEW u \in Uris, D!Connect(u) PROVE FALSE
  <2>1. loop'[thread'] = loop[thread'] /\ handle[loop[thread'].handle] # None
    BY <1>1, <1>2, <1>5 DEF D!Connect, PresentInv
  <2>2. handle[device'] = None
    BY <1>1, <1>5, OpenMakes DEF D!Connect
  <2> QED
    BY <1>2, <2>1, <2>2
<1>6. ~D!Disconnect /\ ~D!Stop /\ ~D!ApplyFails
  BY <1>2 DEF D!Disconnect, D!Stop, D!ApplyFails
<1>7. CASE D!Apply
  <2>1. /\ device' = device /\ PendingIsMissing' /\ loop'[thread'].handle = device
        /\ pending' = <<>> /\ config' \in Configs
    <3>1. device' = device /\ config' = config /\ ~D!Ready /\ ~stray
      BY <1>7 DEF D!Apply
    <3>2. config \in Configs
      BY <1>1, <3>1 DEF DeviceTypes, PresentInv
    <3>3. D!Usable(device)
      BY <1>1, <1>2, <1>7, <1>h, <3>1, ApplySets DEF KeptHandles, D!Usable, StaysUsable
    <3> QED
      BY <1>2, <1>7, <3>1, <3>2, <3>3, ApplyCompletes DEF D!Ready
  <2>2. \A s \in D!Settings \ Ignored : NextActual(device', s) = D!Wanted(s)'
    BY <2>1 DEF PendingIsMissing, NextActual, D!Actual
  <2>3. \A s \in D!Rest \ Ignored : NextActual(device', s) = config'.rest[s]
    BY <2>2 DEF D!Settings, D!Rest, D!Wanted
  <2>4. NextActual(device', "frequency") = Head(config'.frequencies)
    BY <2>2, IgnoredAssumption DEF D!Settings, D!Rest, D!Wanted
  <2>5. config'.frequencies \in Seq(Int) \ {<<>>}
    BY <2>1, ConfigsAssumption DEF ConfigType
  <2>6. 1 \in DOMAIN config'.frequencies /\ Head(config'.frequencies) = config'.frequencies[1]
    BY <2>5
  <2> QED
    BY <2>3, <2>4, <2>6 DEF NextSetUp
<1>8. ASSUME NEW c \in Configs, D!StartSimulator(c) \/ D!StartFails(c) PROVE FALSE
  BY <1>2, <1>8 DEF D!StartSimulator, D!StartFails
<1>9. ASSUME NEW c \in Configs, NEW u \in Uris, D!Start(u, c) PROVE FALSE
  BY <1>2, <1>9 DEF D!Start, D!Ready
<1>10. ASSUME NEW t \in Threads, D!Ends(t) PROVE NextSetUp(device', config')
  <2>1. KeptLoops /\ UNCHANGED <<handle, radio, thread, device, config, stray>>
    BY <1>1, <1>10, ThreadsKeep DEF D!Ends
  <2> QED
    BY <1>2, <1>k, <2>1, SameIsUnmoved DEF D!Usable, StaysUsable
<1>11. ASSUME NEW t \in Threads, D!Hop(t) PROVE NextSetUp(device', config')
  <2>1. KeptHandles /\ KeptLoops /\ UNCHANGED <<thread, device, config, stray, state>> /\ D!Lives(t)
    BY <1>1, <1>11, HopKeeps DEF D!Hop
  <2>2. D!Usable(device) /\ device \in Handles /\ handle[device] # None
    BY <1>2, <1>h, <2>1 DEF KeptHandles, D!Usable, StaysUsable
  <2>3. CASE UNCHANGED <<handle, radio>>
    BY <1>k, <2>1, <2>2, <2>3, SameIsUnmoved
  <2>4. ASSUME D!Usable(loop[t].handle), NEW k \in DOMAIN loop[t].config.frequencies,
               Sets(loop[t].handle, "frequency", loop[t].config.frequencies[k])
        PROVE  NextSetUp(device', config')
    <3>1. t = thread /\ loop[t].handle = device
      BY <2>1, <2>4 DEF DevicesInv, OnlyWriter
    <3>2. config = loop[t].config /\ state = "running"
      BY <2>1, <3>1, <1>2 DEF DevicesInv, LifeInv
    <3>4. NextActual(device, "frequency") = config.frequencies[k]
      BY <2>4, <3>1, <3>2, IgnoredAssumption DEF Sets, D!Rest
    <3>5. \A s \in D!Rest : NextActual(device, s) = D!Actual(device, s)
      BY <2>2, <2>4, <3>1 DEF Sets, D!Settings, D!Rest
    <3>6. loop[thread].handle = device /\ loop[thread].alive /\ thread # None
      BY <1>2, <2>1, <3>1 DEF D!Lives
    <3>7. \A s \in D!Rest \ Ignored : D!Actual(device, s) = config.rest[s]
      BY <1>1, <2>1, <2>2, <3>2, <3>6 DEF D!RunningIsConfigured, D!Usable
    <3> QED
      BY <2>1, <2>4, <3>2, <3>4, <3>5, <3>7 DEF NextSetUp
  <2> QED
    BY <1>1, <1>11, <2>3, <2>4, HopKeeps
<1>12. ASSUME NEW t \in Threads, D!ReadFails(t) PROVE FALSE
  BY <1>2, <1>12 DEF D!ReadFails
<1>13. CASE UNCHANGED D!vars
  <2>1. KeptLoops /\ UNCHANGED <<handle, radio, thread, device, config, stray>>
    BY <1>13 DEF D!vars, KeptLoops
  <2> QED
    BY <1>2, <1>k, <2>1, SameIsUnmoved DEF D!Usable, StaysUsable
<1> QED
  BY <1>3, <1>4, <1>5, <1>6, <1>7, <1>8, <1>9, <1>10, <1>11, <1>12, <1>13 DEF D!Next
\* A handle's copies of the settings are those it reads with.
TrueCopies(h) == \A c \in handle[h].noted : c[1] \notin Ignored => D!Actual(h, c[1]) = c[2]
NextTrueCopies(h) ==
    \A c \in handle'[h].noted : c[1] \notin Ignored => NextActual(h, c[1]) = c[2]

\* A setting that is written is noted: the copies stay true.
LEMMA SetsKeepsCopies ==
  ASSUME DeviceTypes, PresentInv, NEW h \in Handles, handle[h] # None,
         NEW s \in D!Settings, NEW v, KeptHandles, Sets(h, s, v), TrueCopies(h)
  PROVE  NextTrueCopies(h)
<1>1. handle[h] \in HandleType /\ handle[h].uri \in Uris
  BY DEF DeviceTypes, HandleType
<1> SUFFICES ASSUME NEW c \in D!Noted(h, s, v), c[1] \notin Ignored
             PROVE  NextActual(h, c[1]) = c[2]
  BY DEF NextTrueCopies, Sets
<1>3. CASE c = <<s, v>>
  BY <1>3 DEF Sets
<1>4. CASE c \in handle[h].noted /\ c[1] # s
  <2>1. c[1] \in D!Settings /\ D!Actual(h, c[1]) = c[2]
    BY <1>1, <1>4 DEF TrueCopies, HandleType
  <2> QED
    BY <1>4, <2>1 DEF Sets
<1> QED
  BY <1>3, <1>4 DEF D!Noted

(* The copies of the device in hand stay true. *)
LEMMA CopiesStep ==
  ASSUME DevicesInv, [D!Next]_(D!vars), ~stray',
         (DeviceTypes /\ PresentInv)'
  PROVE  D!CopiesAreTrue'
<1> SUFFICES ASSUME device' # None, ~handle'[device'].broken PROVE NextTrueCopies(device')
  BY DEF D!CopiesAreTrue, NextTrueCopies, NextActual, D!Actual
<1> USE NoneAssumption DEF D!collector
<1>1. DeviceTypes /\ PresentInv /\ D!CopiesAreTrue /\ device' \in Handles
  BY DEF DevicesInv, DeviceTypes
<1>h. device \in Handles => handle[device] # None /\ handle[device] \in HandleType
  BY <1>1 DEF DeviceTypes, PresentInv
<1>k. ASSUME UNCHANGED device, ~stray, ~handle[device].broken,
             handle'[device].noted = handle[device].noted, Unmoved(device)
      PROVE  NextTrueCopies(device')
  <2>1. TrueCopies(device) /\ device \in Handles
    BY <1>1, <1>k DEF D!CopiesAreTrue, TrueCopies
  <2>2. \A c \in handle[device].noted : c[1] \in D!Settings
    BY <1>h, <2>1 DEF HandleType
  <2> QED
    BY <1>k, <2>1, <2>2 DEF TrueCopies, NextTrueCopies, Unmoved
<1>3. ASSUME NEW u \in Uris, D!Pull(u) PROVE NextTrueCopies(device')
  <2>1. device' = device /\ UNCHANGED <<stray, radio>>
    BY <1>3 DEF D!Pull
  <2>2. handle'[device] = IF handle[device].uri = u THEN [handle[device] EXCEPT !.broken = TRUE]
                          ELSE handle[device]
    BY <1>1, <1>3, <1>h, <2>1 DEF D!Pull
  <2>3. handle[device].uri # u
    <3>1. ASSUME handle[device].uri = u PROVE handle'[device].broken = TRUE
      BY <1>1, <1>h, <2>1, <2>2, <3>1 DEF HandleType
    <3> QED
      BY <2>1, <3>1
  <2> QED
    BY <1>k, <2>1, <2>2, <2>3, SameIsUnmoved
<1>4. ASSUME NEW u \in Uris, D!Plug(u) PROVE NextTrueCopies(device')
  <2>1. device' = device /\ UNCHANGED <<stray, handle>>
    BY <1>4 DEF D!Plug
  <2>2. handle[device].uri # u
    BY <1>1, <1>4, <1>h, <2>1 DEF D!Plug, PresentInv
  <2>3. radio'[handle[device].uri] = radio[handle[device].uri]
    BY <1>1, <1>4, <1>h, <2>1, <2>2 DEF D!Plug, DeviceTypes, HandleType
  <2> QED
    BY <1>k, <2>1, <2>3, SameIsUnmoved
<1>5. ASSUME NEW u \in Uris, D!Open(u) PROVE NextTrueCopies(device')
  BY <1>1, <1>5, OpenMakes DEF NextTrueCopies
<1>6. ASSUME UNCHANGED <<handle, radio, device, stray>> PROVE NextTrueCopies(device')
  BY <1>k, <1>6, SameIsUnmoved
<1>7. ASSUME NEW u \in Uris, D!Connect(u) PROVE NextTrueCopies(device')
  BY <1>5, <1>7 DEF D!Connect
<1>8. ~D!Disconnect /\ ~D!Stop
  BY DEF D!Disconnect, D!Stop
<1>9. CASE D!Apply
  <2>1. /\ device' = device /\ device \in Handles /\ ~stray /\ KeptHandles
        /\ Sets(device, Head(pending), D!Wanted(Head(pending)))
    BY <1>1, <1>9, ApplySets DEF D!Apply
  <2>2. TrueCopies(device)
    BY <1>1, <1>h, <2>1 DEF D!CopiesAreTrue, TrueCopies, KeptHandles
  <2>3. ASSUME NEW h \in Handles, h = device PROVE NextTrueCopies(h)
    <3>1. Head(pending) \in D!Settings
      BY <1>1, <1>9 DEF D!Apply, D!Ready, DeviceTypes
    <3> QED
      BY <1>1, <1>h, <2>1, <2>2, <2>3, <3>1, SetsKeepsCopies
  <2> QED
    BY <2>1, <2>3 DEF NextTrueCopies
<1>10. CASE D!ApplyFails
  BY <1>6, <1>10 DEF D!ApplyFails, D!Write
<1>11. ASSUME NEW c \in Configs, D!StartSimulator(c) \/ D!StartFails(c) PROVE NextTrueCopies(device')
  BY <1>6, <1>11 DEF D!StartSimulator, D!StartFails
<1>12. ASSUME NEW c \in Configs, NEW u \in Uris, D!Start(u, c) PROVE NextTrueCopies(device')
  BY <1>5, <1>6, <1>12 DEF D!Start
<1>13. ASSUME NEW t \in Threads, D!Ends(t) \/ D!ReadFails(t) PROVE NextTrueCopies(device')
  <2>1. UNCHANGED <<handle, radio, device>> /\ ~stray
    BY <1>1, <1>13 DEF D!Ends, D!ReadFails, DeviceTypes
  <2>2. ~handle[device].broken
    BY <2>1
  <2> QED
    BY <1>1, <1>h, <2>1, <2>2, <1>k, SameIsUnmoved
<1>14. ASSUME NEW t \in Threads, D!Hop(t) PROVE NextTrueCopies(device')
  <2>1. KeptHandles /\ UNCHANGED <<device, stray>> /\ D!Lives(t) /\ device \in Handles
    BY <1>1, <1>14, HopKeeps DEF D!Hop
  <2>2. ~handle[device].broken /\ TrueCopies(device)
    BY <1>1, <1>h, <2>1 DEF KeptHandles, D!CopiesAreTrue, TrueCopies
  <2>3. CASE UNCHANGED <<handle, radio>>
    BY <1>6, <2>1, <2>3
  <2>4. ASSUME D!Usable(loop[t].handle), NEW k \in DOMAIN loop[t].config.frequencies,
               Sets(loop[t].handle, "frequency", loop[t].config.frequencies[k])
        PROVE  NextTrueCopies(device')
    <3>1. loop[t].handle = device /\ "frequency" \in D!Settings
      BY <2>1, <2>4 DEF DevicesInv, OnlyWriter, D!Settings
    <3>2. ASSUME NEW h \in Handles, h = device PROVE NextTrueCopies(h)
      BY <1>1, <1>h, <2>1, <2>2, <2>4, <3>1, <3>2, SetsKeepsCopies
    <3> QED
      BY <1>1, <2>1, <3>2
  <2> QED
    BY <1>1, <1>14, <2>3, <2>4, HopKeeps
<1>15. CASE UNCHANGED D!vars
  BY <1>6, <1>15 DEF D!vars
<1> QED
  BY <1>3, <1>4, <1>7, <1>8, <1>9, <1>10, <1>11, <1>12, <1>13, <1>14, <1>15 DEF D!Next
-----------------------------------------------------------------------------
(* Together: the invariant is inductive. *)
LEMMA DevicesStep == DevicesInv /\ [D!Next]_(D!vars) => DevicesInv'
<1> SUFFICES ASSUME DevicesInv, [D!Next]_(D!vars) PROVE DevicesInv'
  OBVIOUS
<1>1. (DeviceTypes /\ PresentInv)'
  BY DeviceTypesStep, PresentStep
<1>2. ~stray' => (OnlyWriter /\ LifeInv /\ ApplyInv)'
  BY OnlyWriterStep, LifeStep, ApplyStep
<1>3. D!RunningIsConfigured' /\ D!CopiesAreTrue'
  <2>1. CASE stray'
    BY <2>1 DEF D!RunningIsConfigured, D!CopiesAreTrue
  <2>2. CASE ~stray'
    BY <1>1, <1>2, <2>2, RunningStep, CopiesStep
  <2> QED
    BY <2>1, <2>2
<1> QED
  BY <1>1, <1>2, <1>3 DEF DevicesInv

(* The invariant holds throughout. *)
LEMMA DevicesInvHolds == D!Spec => []DevicesInv
  BY DevicesInit, DevicesStep, PTL DEF D!Spec

\* What the type invariant says, of states of those types.
LEMMA DevicesTypeOK == DeviceTypes /\ PresentInv => D!TypeOK
<1> SUFFICES ASSUME DeviceTypes, PresentInv PROVE D!TypeOK
  OBVIOUS
<1>1. ASSUME NEW h \in Handles, handle[h] # None
      PROVE  handle[h].uri \in Uris /\ (\A c \in handle[h].noted : c[1] \in D!Settings)
  <2>1. handle[h] \in HandleType
    BY <1>1 DEF DeviceTypes
  <2> QED
    BY <2>1 DEF HandleType
<1>2. DOMAIN radio = Uris /\ \A u \in Uris : DOMAIN radio[u] = D!OnRadio
  BY DEF DeviceTypes
<1> QED
  BY <1>1, <1>2 DEF D!TypeOK, DeviceTypes, PresentInv

(* Whatever starts, stops, fails or is unplugged, the only thread that can *)
(* still set a radio is the collector's own, on the device in hand         *)
(* (devices.py 288-290): one whose join gave up has lost its radio.        *)
THEOREM OneWriterHolds == D!Spec => []OneWriter
<1>1. DevicesInv => OneWriter
  BY DevicesTypeOK DEF DevicesInv, OneWriter, D!OneWriter, OnlyWriter
<1> QED
  BY <1>1, DevicesInvHolds, PTL

(* While an acquisition runs its buffer and its radio have the settings of *)
(* its configuration that the radio does not ignore, and hop between its   *)
(* frequencies, and so far the copies that are reported are true           *)
(* (collector.py 232-245, devices.py 295-314); for any set of ignored      *)
(* settings, the sample rate among them.                                   *)
THEOREM SettingsAreTrueHolds == D!Spec => []SettingsAreTrue
<1>1. DevicesInv => SettingsAreTrue
  BY DEF DevicesInv, SettingsAreTrue, D!SettingsAreTrue
<1> QED
  BY <1>1, DevicesInvHolds, PTL
-----------------------------------------------------------------------------
(***************************************************************************)
(* The start of the data servers, for any number of requests.              *)
(*                                                                         *)
(* ChannelsAreWired speaks of the end; on the way, whatever a channel has  *)
(* not yet some request is still to make (WiredInv), however many run at   *)
(* once.  That frames are broadcast once needs the requests one at a time: *)
(* then what has been made follows from the statement the only one of them *)
(* is at (Due), and the emitter of a channel and its only server find each *)
(* other (TurnInv).                                                        *)
(***************************************************************************)

ServerType  == [channel : S!Channels, state : {"new", "running", "bound", "dead"}]
EmitterType == [channel : S!Channels, server : Nat]

ServerTypes ==
    /\ pc \in [Requests -> S!Statements]
    /\ started \in BOOLEAN /\ acquiring \in BOOLEAN /\ overlapped \in BOOLEAN
    /\ servers \in Seq(ServerType)
    /\ current \in [S!Channels -> 0 .. Len(servers)]
    /\ clientsAt \in [S!Channels -> 0 .. Len(servers)]
    /\ emitters \in Seq(EmitterType)
    /\ \A i \in 1 .. Len(emitters) : emitters[i].server <= Len(servers)
    /\ copies \in [S!Channels -> -1 .. 2]

\* What refers to a server refers to one of its own channel.
ChannelInv ==
    /\ \A ch \in S!Channels :
          /\ current[ch] # 0 => servers[current[ch]].channel = ch
          /\ clientsAt[ch] # 0 => servers[clientsAt[ch]].channel = ch
    /\ \A i \in 1 .. Len(emitters) :
          emitters[i].server # 0 => servers[emitters[i].server].channel = emitters[i].channel

HasEmitter(ch) == \E i \in 1 .. Len(emitters) : emitters[i].channel = ch

\* The statements of the request that will add the channel's emitter.
BeforeEmit(ch) ==
    IF ch = "tcp" THEN {"emit tcp"} ELSE {"emit tcp", "new tcp", "run tcp", "emit udp"}

\* The statements of the requests that will start the server the attribute holds.
Running(ch) == IF ch = "tcp" THEN {"run tcp", "ensure run"} ELSE {"run udp"}

Waits(At) == \E r \in Requests : pc[r] \in At

\* What is missing once the flag is set is still to be done by a request.
WiredAt(ch) ==
    /\ started => HasEmitter(ch) \/ Waits(BeforeEmit(ch))
    /\ started => current[ch] # 0 \/ Waits(BeforeEmit(ch) \cup {S!New[ch]})
    /\ current[ch] # 0 /\ servers[current[ch]].state = "new" => Waits(Running(ch))
    /\ Waits(Running(ch)) => current[ch] # 0

WiredInv ==
    /\ Waits(S!Statements \ {"idle", "check", "flag"}) => started
    /\ \A ch \in S!Channels : WiredAt(ch)

Building == {"emit tcp", "new tcp", "run tcp", "emit udp", "new udp", "run udp"}

Made(e, s) == Len(emitters) = e /\ Len(servers) = s

Order(i) == IF i = 1 THEN "tcp" ELSE "udp"
Place(ch) == IF ch = "tcp" THEN 1 ELSE 2

InOrder ==
    /\ \A i \in 1 .. Len(emitters) : emitters[i].channel = Order(i)
    /\ \A i \in 1 .. Len(servers) : servers[i].channel = Order(i)
    /\ \A ch \in S!Channels : current[ch] = IF Place(ch) <= Len(servers) THEN Place(ch) ELSE 0

\* What has been made when the only request is at a statement.
Due(x) ==
    /\ x = "flag" => ~started
    /\ x = "emit tcp" => Made(0, 0)
    /\ x = "new tcp" => Made(1, 0)
    /\ x \in {"run tcp", "emit udp"} => Made(1, 1)
    /\ x = "new udp" => Made(2, 1)
    /\ x = "run udp" => Made(2, 2)
    /\ x \notin {"ensure new", "ensure run"}

\* Requests one at a time: the first makes both channels, in order, and no other any.
TurnInv ==
    /\ \A r, q \in Requests :
          pc[r] \notin {"idle", "done"} /\ pc[q] \notin {"idle", "done"} => r = q
    /\ InOrder
    /\ \A r \in Requests : Due(pc[r])
    /\ ~started => Made(0, 0)
    /\ started /\ ~Waits(Building) => Made(2, 2)
    /\ acquiring => Made(2, 2)
    /\ \A ch \in S!Channels : copies[ch] \in {0, 1}

ServersInv == ServerTypes /\ ChannelInv /\ WiredInv /\ (~overlapped => TurnInv)
-----------------------------------------------------------------------------
\* The names of a channel's statements.
LEMMA StatementNames ==
  /\ S!Channels = {"tcp", "udp"}
  /\ S!Emit["tcp"] = "emit tcp" /\ S!New["tcp"] = "new tcp" /\ S!Run["tcp"] = "run tcp"
  /\ S!Emit["udp"] = "emit udp" /\ S!New["udp"] = "new udp" /\ S!Run["udp"] = "run udp"
  /\ S!Statements = {"idle", "check", "flag", "ensure", "ensure new", "ensure run", "start",
                     "done", "emit tcp", "new tcp", "run tcp", "emit udp", "new udp", "run udp"}
<1>1. S!Channels = {"tcp", "udp"}
  BY DEF S!Channels
<1>2. /\ S!Emit["tcp"] = "emit tcp" /\ S!New["tcp"] = "new tcp" /\ S!Run["tcp"] = "run tcp"
      /\ S!Emit["udp"] = "emit udp" /\ S!New["udp"] = "new udp" /\ S!Run["udp"] = "run udp"
  BY DEF S!Emit, S!New, S!Run
<1>3. UNION {{S!Emit[ch], S!New[ch], S!Run[ch]} : ch \in S!Channels} =
      {"emit tcp", "new tcp", "run tcp", "emit udp", "new udp", "run udp"}
  <2>1. ASSUME NEW x
        PROVE  x \in UNION {{S!Emit[ch], S!New[ch], S!Run[ch]} : ch \in S!Channels}
                 <=> x \in {"emit tcp", "new tcp", "run tcp", "emit udp", "new udp", "run udp"}
    <3>1. x \in UNION {{S!Emit[ch], S!New[ch], S!Run[ch]} : ch \in S!Channels}
            <=> \E ch \in S!Channels : x \in {S!Emit[ch], S!New[ch], S!Run[ch]}
      OBVIOUS
    <3> QED
      BY <1>1, <1>2, <3>1
  <2> QED
    BY <2>1
<1> QED
  BY <1>1, <1>2, <1>3 DEF S!Statements

(* Before the first request the invariant holds. *)
LEMMA ServersInit == S!Init => ServersInv
<1> SUFFICES ASSUME S!Init PROVE ServersInv
  OBVIOUS
<1>1. /\ servers \in Seq(ServerType) /\ emitters \in Seq(EmitterType)
      /\ Len(servers) = 0 /\ Len(emitters) = 0
  BY DEF S!Init
<1>2. pc \in [Requests -> S!Statements]
  BY StatementNames DEF S!Init
<1>6. /\ copies \in [S!Channels -> -1 .. 2]
      /\ current \in [S!Channels -> 0 .. 0] /\ clientsAt \in [S!Channels -> 0 .. 0]
  BY DEF S!Init
<1>7. started \in BOOLEAN /\ acquiring \in BOOLEAN /\ overlapped \in BOOLEAN
  BY DEF S!Init
<1>3. ServerTypes
  BY <1>1, <1>2, <1>6, <1>7 DEF ServerTypes
<1>4. ChannelInv /\ WiredInv
  BY <1>1 DEF S!Init, ChannelInv, WiredInv, WiredAt, Waits, Running
<1>5. TurnInv
  BY <1>1 DEF S!Init, TurnInv, InOrder, Due, Made, Place
<1> QED
  BY <1>3, <1>4, <1>5 DEF ServersInv

\* A request goes on to its next statement, and no other does.
Moves(r, from, to) ==
    /\ pc[r] = from /\ pc'[r] = to
    /\ \A q \in Requests : q # r => pc'[q] = pc[q]

(* Goto, request by request. *)
LEMMA GotoMoves ==
  ASSUME ServerTypes, NEW r \in Requests, NEW from, NEW to \in S!Statements, S!Goto(r, from, to)
  PROVE  Moves(r, from, to) /\ pc' \in [Requests -> S!Statements]
  BY DEF S!Goto, Moves, ServerTypes

(* A new server is the last one, and the one the attribute holds. *)
LEMMA NewMakes ==
  ASSUME ServerTypes, NEW ch \in S!Channels, S!NewServer(ch)
  PROVE  /\ servers' \in Seq(ServerType) /\ Len(servers') = Len(servers) + 1
         /\ \A i \in 1 .. Len(servers) : servers'[i] = servers[i]
         /\ servers'[Len(servers')].channel = ch /\ servers'[Len(servers')].state = "new"
         /\ current'[ch] = Len(servers')
         /\ \A c \in S!Channels : c # ch => current'[c] = current[c]
         /\ current' \in [S!Channels -> 0 .. Len(servers')]
<1> DEFINE s == [channel |-> ch, state |-> "new"]
<1>1. s \in ServerType /\ s.channel = ch /\ s.state = "new"
  BY DEF ServerType
<1>2. servers' = Append(servers, s) /\ current' = [current EXCEPT ![ch] = Len(servers')]
  BY DEF S!NewServer
<1> HIDE DEF s
<1>3. servers \in Seq(ServerType) /\ Len(servers) \in Nat
  BY DEF ServerTypes
<1>4. /\ servers' \in Seq(ServerType) /\ Len(servers') = Len(servers) + 1
      /\ \A i \in 1 .. Len(servers) : servers'[i] = servers[i]
      /\ servers'[Len(servers')] = s
  BY <1>1, <1>2, <1>3, AppendProperties
<1>5. current' \in [S!Channels -> 0 .. Len(servers')]
  BY <1>2, <1>3, <1>4 DEF ServerTypes
<1>6. current'[ch] = Len(servers') /\ \A c \in S!Channels : c # ch => current'[c] = current[c]
  BY <1>2 DEF ServerTypes
<1> QED
  BY <1>1, <1>4, <1>5, <1>6

\* A server's state changes, to something else than "new".
KeptServers ==
    /\ servers' \in Seq(ServerType) /\ Len(servers') = Len(servers)
    /\ \A i \in 1 .. Len(servers) :
          /\ servers'[i].channel = servers[i].channel
          /\ servers'[i].state = "new" => servers[i].state = "new"

(* A server that has been started never is new again. *)
LEMMA StateChanges ==
  ASSUME ServerTypes, NEW s \in 1 .. Len(servers), NEW x \in {"running", "bound", "dead"},
         servers' = [servers EXCEPT ![s].state = x]
  PROVE  KeptServers /\ servers'[s].state # "new"
<1>1. servers \in Seq(ServerType) /\ servers[s] \in ServerType
  BY DEF ServerTypes
<1>2. Len(servers') = Len(servers) /\ DOMAIN servers' = DOMAIN servers
  BY <1>1
<1>3. /\ servers'[s] = [servers[s] EXCEPT !.state = x]
      /\ \A i \in 1 .. Len(servers) : i # s => servers'[i] = servers[i]
  BY <1>1
<1>4. servers'[s] \in ServerType /\ servers'[s].channel = servers[s].channel /\ servers'[s].state = x
  BY <1>1, <1>3 DEF ServerType
<1>5. servers' \in Seq(ServerType)
  BY <1>1, <1>2, <1>4
<1> QED
  BY <1>2, <1>3, <1>4, <1>5 DEF KeptServers

(* start() of what the attribute holds. *)
LEMMA RunKeeps ==
  ASSUME ServerTypes, NEW ch \in S!Channels, current[ch] # 0, S!RunServer(ch)
  PROVE  KeptServers /\ servers'[current[ch]].state # "new"
<1>1. servers \in Seq(ServerType) /\ current[ch] \in 1 .. Len(servers)
  BY DEF ServerTypes
<1>2. CASE servers[current[ch]].state \in {"new", "dead"}
  BY <1>1, <1>2, StateChanges DEF S!RunServer
<1>3. CASE servers[current[ch]].state \notin {"new", "dead"}
  BY <1>1, <1>3 DEF S!RunServer, KeptServers
<1> QED
  BY <1>2, <1>3
-----------------------------------------------------------------------------
(* Every step keeps the types. *)
LEMMA ServerTypesStep == ServersInv /\ [S!Next]_(S!vars) => ServerTypes'
<1> SUFFICES ASSUME ServersInv, [S!Next]_(S!vars) PROVE ServerTypes'
  OBVIOUS
<1>1. ServerTypes /\ WiredInv /\ Len(servers) \in Nat /\ Len(emitters) \in Nat
  BY DEF ServersInv, ServerTypes
<1>2. ASSUME NEW r \in Requests, NEW from, NEW to \in S!Statements, S!Goto(r, from, to)
      PROVE  pc' \in [Requests -> S!Statements]
  BY <1>1, <1>2, GotoMoves
<1>k. ASSUME pc' \in [Requests -> S!Statements], started' \in BOOLEAN, acquiring' \in BOOLEAN,
             overlapped' \in BOOLEAN, UNCHANGED <<servers, current, emitters, clientsAt, copies>>
      PROVE  ServerTypes'
  BY <1>1, <1>k DEF ServerTypes
<1>3. ASSUME NEW r \in Requests, S!Request(r) PROVE ServerTypes'
  <2>1. pc' \in [Requests -> S!Statements]
    BY <1>2, <1>3, StatementNames DEF S!Request
  <2> QED
    BY <1>1, <1>3, <1>k, <2>1 DEF S!Request, ServerTypes
<1>4. ASSUME NEW r \in Requests, S!Check(r) \/ S!SetFlag(r) \/ S!Ensure(r) \/ S!StartAcquisition(r)
      PROVE  ServerTypes'
  <2>1. pc' \in [Requests -> S!Statements]
    BY <1>2, <1>4, StatementNames DEF S!Check, S!SetFlag, S!Ensure, S!StartAcquisition
  <2> QED
    BY <1>1, <1>4, <1>k, <2>1 DEF S!Check, S!SetFlag, S!Ensure, S!StartAcquisition, ServerTypes
<1>5. ASSUME NEW r \in Requests, NEW ch \in S!Channels, S!AddEmitter(r, ch) PROVE ServerTypes'
  <2>1. pc' \in [Requests -> S!Statements]
    <3>1. S!New[ch] \in S!Statements
      BY StatementNames
    <3> QED
      BY <1>2, <1>5, <3>1 DEF S!AddEmitter
  <2> DEFINE e == [channel |-> ch, server |-> 0]
  <2>2. e \in EmitterType /\ e.server = 0
    BY DEF EmitterType
  <2>3. emitters' = Append(emitters, e)
    BY <1>5 DEF S!AddEmitter
  <2> HIDE DEF e
  <2>4. /\ emitters' \in Seq(EmitterType) /\ Len(emitters') = Len(emitters) + 1
        /\ \A i \in 1 .. Len(emitters) : emitters'[i] = emitters[i]
        /\ emitters'[Len(emitters')] = e
    BY <1>1, <2>2, <2>3, AppendProperties DEF ServerTypes
  <2>5. \A i \in 1 .. Len(emitters') : emitters'[i].server <= Len(servers)
    <3>1. \A i \in 1 .. Len(emitters) : emitters'[i].server <= Len(servers)
      BY <1>1, <2>4 DEF ServerTypes
    <3> QED
      BY <1>1, <2>2, <2>4, <3>1
  <2> QED
    BY <1>1, <1>5, <2>1, <2>4, <2>5 DEF S!AddEmitter, ServerTypes
<1>n. ASSUME pc' \in [Requests -> S!Statements], NEW ch \in S!Channels, S!NewServer(ch),
             UNCHANGED <<started, emitters, clientsAt, acquiring, copies, overlapped>>
      PROVE  ServerTypes'
  <2>1. servers' \in Seq(ServerType) /\ Len(servers') = Len(servers) + 1
    BY <1>1, <1>n, NewMakes
  <2>2. \A i \in 1 .. Len(emitters') : emitters'[i].server <= Len(servers')
    <3>1. ASSUME NEW i \in 1 .. Len(emitters) PROVE emitters[i].server <= Len(servers) + 1
      <4>1. emitters[i] \in EmitterType /\ emitters[i].server <= Len(servers)
        BY <1>1 DEF ServerTypes
      <4> QED
        BY <1>1, <4>1 DEF EmitterType
    <3> QED
      BY <1>n, <2>1, <3>1
  <2>3. clientsAt' \in [S!Channels -> 0 .. Len(servers')]
    BY <1>1, <1>n, <2>1 DEF ServerTypes
  <2> QED
    BY <1>1, <1>n, <2>1, <2>2, <2>3, NewMakes DEF ServerTypes
<1>6. ASSUME NEW r \in Requests, NEW ch \in S!Channels, S!MakeServer(r, ch) PROVE ServerTypes'
  <2>1. S!Run[ch] \in S!Statements
    BY StatementNames
  <2> QED
    BY <1>2, <1>6, <1>n, <2>1 DEF S!MakeServer
<1>7. ASSUME NEW r \in Requests, S!EnsureNew(r) PROVE ServerTypes'
  BY <1>2, <1>7, <1>n, StatementNames DEF S!EnsureNew
<1>s. ASSUME pc' \in [Requests -> S!Statements], KeptServers,
             clientsAt' \in [S!Channels -> 0 .. Len(servers)],
             UNCHANGED <<started, current, emitters, acquiring, copies, overlapped>>
      PROVE  ServerTypes'
  BY <1>1, <1>s DEF ServerTypes, KeptServers
<1>8. ASSUME NEW r \in Requests, NEW ch \in S!Channels, S!StartServer(r, ch) PROVE ServerTypes'
  <2>1. pc' \in [Requests -> S!Statements]
    BY <1>2, <1>8, StatementNames DEF S!StartServer
  <2>2. current[ch] # 0
    <3>1. pc[r] \in Running(ch)
      BY <1>8, StatementNames DEF S!StartServer, S!Goto, Running
    <3> QED
      BY <1>1, <3>1 DEF WiredInv, WiredAt, Waits
  <2> QED
    BY <1>1, <1>8, <1>s, <2>1, <2>2, RunKeeps DEF S!StartServer, ServerTypes
<1>9. ASSUME NEW r \in Requests, S!EnsureRun(r) PROVE ServerTypes'
  <2>1. pc' \in [Requests -> S!Statements]
    BY <1>2, <1>9, StatementNames DEF S!EnsureRun
  <2>2. current["tcp"] # 0 /\ "tcp" \in S!Channels
    BY <1>1, <1>9, StatementNames DEF S!EnsureRun, S!Goto, WiredInv, WiredAt, Waits, Running
  <2> QED
    BY <1>1, <1>9, <1>s, <2>1, <2>2, RunKeeps DEF S!EnsureRun, ServerTypes
<1>10. ASSUME NEW s \in DOMAIN servers, S!Bind(s) PROVE ServerTypes'
  <2>1. s \in 1 .. Len(servers) /\ servers[s].channel \in S!Channels
    <3>1. s \in 1 .. Len(servers) /\ servers[s] \in ServerType
      BY <1>1, <1>10 DEF ServerTypes
    <3> QED
      BY <3>1 DEF ServerType
  <2>2. PICK x \in {"running", "bound", "dead"} : servers' = [servers EXCEPT ![s].state = x]
    BY <1>10 DEF S!Bind
  <2>3. KeptServers
    BY <1>1, <2>1, <2>2, StateChanges
  <2>4. clientsAt' \in [S!Channels -> 0 .. Len(servers)]
    <3>1. clientsAt' = clientsAt \/ clientsAt' = [clientsAt EXCEPT ![servers[s].channel] = s]
      BY <1>10 DEF S!Bind
    <3>2. s \in 0 .. Len(servers) /\ clientsAt \in [S!Channels -> 0 .. Len(servers)]
      BY <1>1, <2>1 DEF ServerTypes
    <3> QED
      BY <2>1, <3>1, <3>2
  <2> QED
    BY <1>1, <1>10, <1>s, <2>3, <2>4 DEF S!Bind, ServerTypes
<1>11. CASE S!EmitFrame
  <2>1. ASSUME NEW i \in 1 .. Len(emitters)
        PROVE  /\ S!LookedUp(emitters[i]) \in EmitterType
               /\ S!LookedUp(emitters[i]).server <= Len(servers)
    <3>0. emitters[i] \in EmitterType /\ emitters[i].server <= Len(servers)
      BY <1>1 DEF ServerTypes
    <3>1. emitters[i].channel \in S!Channels /\ emitters[i].server \in Nat
      BY <3>0 DEF EmitterType
    <3>2. current[emitters[i].channel] \in 0 .. Len(servers)
      BY <1>1, <3>1 DEF ServerTypes
    <3> QED
      BY <1>1, <3>0, <3>1, <3>2 DEF S!LookedUp, EmitterType
  <2>2. emitters' = [i \in 1 .. Len(emitters) |-> S!LookedUp(emitters[i])]
    BY <1>1, <1>11 DEF S!EmitFrame, ServerTypes
  <2>3. emitters' \in Seq(EmitterType) /\ Len(emitters') = Len(emitters)
    BY <1>1, <2>1, <2>2
  <2>4. copies' \in [S!Channels -> -1 .. 2]
    BY <1>11 DEF S!EmitFrame
  <2>5. \A i \in 1 .. Len(emitters') : emitters'[i].server <= Len(servers')
    BY <1>11, <2>1, <2>2, <2>3 DEF S!EmitFrame
  <2> QED
    BY <1>1, <1>11, <2>3, <2>4, <2>5 DEF S!EmitFrame, ServerTypes
<1>12. CASE UNCHANGED S!vars
  BY <1>1, <1>12, <1>k DEF S!vars, ServerTypes
<1> QED
  BY <1>3, <1>4, <1>5, <1>6, <1>7, <1>8, <1>9, <1>10, <1>11, <1>12 DEF S!Next, S!RequestStep
\* A new emitter has looked nothing up.
LEMMA EmitterAdded ==
  ASSUME ServerTypes, NEW r, NEW ch \in S!Channels, S!AddEmitter(r, ch)
  PROVE  /\ Len(emitters') = Len(emitters) + 1 /\ emitters'[Len(emitters')].channel = ch
         /\ emitters'[Len(emitters')].server = 0
         /\ \A i \in 1 .. Len(emitters) : emitters'[i] = emitters[i]
<1> DEFINE e == [channel |-> ch, server |-> 0]
<1>1. e \in EmitterType /\ e.server = 0 /\ e.channel = ch
  BY DEF EmitterType
<1>2. emitters' = Append(emitters, e) /\ emitters \in Seq(EmitterType)
  BY DEF S!AddEmitter, ServerTypes
<1> HIDE DEF e
<1> QED
  BY <1>1, <1>2, AppendProperties

\* An emitter keeps its channel, and looks up what the attribute holds, once.
LEMMA FrameEmitted ==
  ASSUME ServerTypes, S!EmitFrame
  PROVE  /\ Len(emitters') = Len(emitters) /\ DOMAIN emitters' = 1 .. Len(emitters)
         /\ \A i \in 1 .. Len(emitters) :
               /\ emitters'[i].channel = emitters[i].channel
               /\ emitters'[i].server = IF emitters[i].server = 0 THEN current[emitters[i].channel]
                                        ELSE emitters[i].server
<1>1. emitters \in Seq(EmitterType)
  BY DEF ServerTypes
<1>2. emitters' = [j \in 1 .. Len(emitters) |-> S!LookedUp(emitters[j])]
  BY <1>1 DEF S!EmitFrame
<1>3. Len(emitters') = Len(emitters) /\ DOMAIN emitters' = 1 .. Len(emitters)
  BY <1>1, <1>2
<1>4. ASSUME NEW i \in 1 .. Len(emitters)
      PROVE  /\ emitters'[i].channel = emitters[i].channel
             /\ emitters'[i].server = IF emitters[i].server = 0 THEN current[emitters[i].channel]
                                      ELSE emitters[i].server
  <2>1. emitters[i] \in EmitterType /\ emitters'[i] = S!LookedUp(emitters[i])
    BY <1>1, <1>2
  <2> QED
    BY <2>1 DEF S!LookedUp, EmitterType
<1> QED
  BY <1>3, <1>4

(* No step mixes up the channels. *)
LEMMA ChannelStep == ServersInv /\ [S!Next]_(S!vars) => ChannelInv'
<1> SUFFICES ASSUME ServersInv, [S!Next]_(S!vars) PROVE ChannelInv'
  OBVIOUS
<1>1. ServerTypes /\ ChannelInv /\ WiredInv /\ Len(servers) \in Nat /\ Len(emitters) \in Nat
  BY DEF ServersInv, ServerTypes
<1>2. /\ \A ch \in S!Channels : current[ch] \in 0 .. Len(servers) /\ clientsAt[ch] \in 0 .. Len(servers)
      /\ \A i \in 1 .. Len(emitters) : /\ emitters[i].server \in 0 .. Len(servers)
                                       /\ emitters[i].channel \in S!Channels
  <2>1. ASSUME NEW i \in 1 .. Len(emitters)
        PROVE  emitters[i].server \in 0 .. Len(servers) /\ emitters[i].channel \in S!Channels
    <3>1. emitters[i] \in EmitterType /\ emitters[i].server <= Len(servers)
      BY <1>1 DEF ServerTypes
    <3> QED
      BY <1>1, <3>1 DEF EmitterType
  <2> QED
    BY <1>1, <2>1 DEF ServerTypes
<1>k. ASSUME UNCHANGED <<servers, current, emitters, clientsAt>> PROVE ChannelInv'
  BY <1>1, <1>k DEF ChannelInv
<1>3. ASSUME NEW r \in Requests,
             S!Request(r) \/ S!Check(r) \/ S!SetFlag(r) \/ S!Ensure(r) \/ S!StartAcquisition(r)
      PROVE  ChannelInv'
  BY <1>3, <1>k DEF S!Request, S!Check, S!SetFlag, S!Ensure, S!StartAcquisition
<1>4. ASSUME NEW r \in Requests, NEW ch \in S!Channels, S!AddEmitter(r, ch) PROVE ChannelInv'
  <2>1. UNCHANGED <<servers, current, clientsAt>>
    BY <1>4 DEF S!AddEmitter
  <2>2. ASSUME NEW i \in 1 .. Len(emitters'), emitters'[i].server # 0
        PROVE  servers[emitters'[i].server].channel = emitters'[i].channel
    <3>1. i \in 1 .. Len(emitters) /\ emitters'[i] = emitters[i]
      BY <1>1, <1>4, <2>2, EmitterAdded
    <3> QED
      BY <1>1, <2>2, <3>1 DEF ChannelInv
  <2> QED
    BY <1>1, <2>1, <2>2 DEF ChannelInv
<1>n. ASSUME NEW ch \in S!Channels, S!NewServer(ch), UNCHANGED <<emitters, clientsAt>>
      PROVE  ChannelInv'
  <2>1. \A i \in 1 .. Len(servers) : servers'[i].channel = servers[i].channel
    BY <1>1, <1>n, NewMakes
  <2>2. ASSUME NEW c \in S!Channels, current'[c] # 0 PROVE servers'[current'[c]].channel = c
    <3>1. CASE c = ch
      BY <1>1, <1>n, <3>1, NewMakes
    <3>2. CASE c # ch
      <4>1. current'[c] = current[c] /\ current[c] \in 1 .. Len(servers)
        BY <1>1, <1>2, <1>n, <2>2, <3>2, NewMakes
      <4> QED
        BY <1>1, <2>1, <4>1 DEF ChannelInv
    <3> QED
      BY <3>1, <3>2
  <2>3. ASSUME NEW c \in S!Channels, clientsAt'[c] # 0 PROVE servers'[clientsAt'[c]].channel = c
    <3>1. clientsAt'[c] = clientsAt[c] /\ clientsAt[c] \in 1 .. Len(servers)
      BY <1>2, <1>n, <2>3
    <3> QED
      BY <1>1, <2>1, <3>1 DEF ChannelInv
  <2>4. ASSUME NEW i \in 1 .. Len(emitters'), emitters'[i].server # 0
        PROVE  servers'[emitters'[i].server].channel = emitters'[i].channel
    <3>1. i \in 1 .. Len(emitters) /\ emitters'[i] = emitters[i] /\ emitters[i].server \in 1 .. Len(servers)
      BY <1>2, <1>n, <2>4
    <3> QED
      BY <1>1, <2>1, <3>1 DEF ChannelInv
  <2> QED
    BY <2>2, <2>3, <2>4 DEF ChannelInv
<1>5. ASSUME NEW r \in Requests, NEW ch \in S!Channels, S!MakeServer(r, ch) PROVE ChannelInv'
  BY <1>5, <1>n DEF S!MakeServer
<1>6. ASSUME NEW r \in Requests, S!EnsureNew(r) PROVE ChannelInv'
  BY <1>6, <1>n, StatementNames DEF S!EnsureNew
<1>s. ASSUME KeptServers, UNCHANGED <<current, emitters>>,
             \A c \in S!Channels : clientsAt'[c] = clientsAt[c] \/
                (clientsAt'[c] \in 1 .. Len(servers) /\ servers[clientsAt'[c]].channel = c)
      PROVE  ChannelInv'
  <2>1. \A i \in 1 .. Len(servers) : servers'[i].channel = servers[i].channel
    BY <1>s DEF KeptServers
  <2>2. ASSUME NEW c \in S!Channels, current[c] # 0 PROVE servers'[current[c]].channel = c
    BY <1>1, <1>2, <2>1, <2>2 DEF ChannelInv
  <2>3. ASSUME NEW c \in S!Channels, clientsAt'[c] # 0 PROVE servers'[clientsAt'[c]].channel = c
    BY <1>1, <1>2, <1>s, <2>1, <2>3 DEF ChannelInv
  <2>4. ASSUME NEW i \in 1 .. Len(emitters), emitters[i].server # 0
        PROVE  servers'[emitters[i].server].channel = emitters[i].channel
    BY <1>1, <1>2, <2>1, <2>4 DEF ChannelInv
  <2> QED
    BY <1>s, <2>2, <2>3, <2>4 DEF ChannelInv
<1>7. ASSUME NEW r \in Requests, NEW ch \in S!Channels, S!StartServer(r, ch) PROVE ChannelInv'
  <2>1. current[ch] # 0
    <3>1. pc[r] \in Running(ch)
      BY <1>7, StatementNames DEF S!StartServer, S!Goto, Running
    <3> QED
      BY <1>1, <3>1 DEF WiredInv, WiredAt, Waits
  <2> QED
    BY <1>1, <1>7, <1>s, <2>1, RunKeeps DEF S!StartServer
<1>8. ASSUME NEW r \in Requests, S!EnsureRun(r) PROVE ChannelInv'
  <2>1. current["tcp"] # 0 /\ "tcp" \in S!Channels
    BY <1>1, <1>8, StatementNames DEF S!EnsureRun, S!Goto, WiredInv, WiredAt, Waits, Running
  <2> QED
    BY <1>1, <1>8, <1>s, <2>1, RunKeeps DEF S!EnsureRun
<1>9. ASSUME NEW s \in DOMAIN servers, S!Bind(s) PROVE ChannelInv'
  <2>1. s \in 1 .. Len(servers)
    BY <1>1, <1>9 DEF ServerTypes
  <2>2. PICK x \in {"running", "bound", "dead"} : servers' = [servers EXCEPT ![s].state = x]
    BY <1>9 DEF S!Bind
  <2>3. clientsAt' = clientsAt \/ clientsAt' = [clientsAt EXCEPT ![servers[s].channel] = s]
    BY <1>9 DEF S!Bind
  <2>4. clientsAt \in [S!Channels -> 0 .. Len(servers)]
    BY <1>1 DEF ServerTypes
  <2>5. \A c \in S!Channels : clientsAt'[c] = clientsAt[c] \/
           (clientsAt'[c] \in 1 .. Len(servers) /\ servers[clientsAt'[c]].channel = c)
    BY <2>1, <2>3, <2>4
  <2>6. UNCHANGED <<current, emitters>>
    BY <1>9 DEF S!Bind
  <2> QED
    BY <1>1, <1>s, <2>1, <2>2, <2>5, <2>6, StateChanges
<1>10. CASE S!EmitFrame
  <2>1. UNCHANGED <<servers, current, clientsAt>>
    BY <1>10 DEF S!EmitFrame
  <2>2. ASSUME NEW i \in 1 .. Len(emitters'), emitters'[i].server # 0
        PROVE  servers[emitters'[i].server].channel = emitters'[i].channel
    <3>1. /\ i \in 1 .. Len(emitters) /\ emitters'[i].channel = emitters[i].channel
          /\ emitters'[i].server = IF emitters[i].server = 0 THEN current[emitters[i].channel]
                                   ELSE emitters[i].server
      BY <1>1, <1>10, FrameEmitted
    <3> QED
      BY <1>1, <1>2, <2>2, <3>1 DEF ChannelInv
  <2> QED
    BY <1>1, <2>1, <2>2 DEF ChannelInv
<1>11. CASE UNCHANGED S!vars
  BY <1>11, <1>k DEF S!vars
<1> QED
  BY <1>3, <1>4, <1>5, <1>6, <1>7, <1>8, <1>9, <1>10, <1>11 DEF S!Next, S!RequestStep
-----------------------------------------------------------------------------
(* A request that moves on still waits, unless it moved past it. *)
LEMMA StillWaits ==
  ASSUME NEW At, NEW r \in Requests, NEW from, NEW to, Moves(r, from, to),
         Waits(At), from \notin At \/ to \in At
  PROVE  Waits(At)'
  BY DEF Waits, Moves

(* A request that moves elsewhere is not one that waits. *)
LEMMA WaitsAlready ==
  ASSUME NEW At, NEW r \in Requests, NEW from, NEW to, Moves(r, from, to),
         Waits(At)', to \notin At
  PROVE  Waits(At)
  BY DEF Waits, Moves

(* Whatever is missing, some request is still to make it. *)
LEMMA WiredStep == ServersInv /\ [S!Next]_(S!vars) => WiredInv'
<1> SUFFICES ASSUME ServersInv, [S!Next]_(S!vars) PROVE WiredInv'
  OBVIOUS
<1> DEFINE Past == S!Statements \ {"idle", "check", "flag"}
<1>1. ServerTypes /\ ChannelInv /\ WiredInv /\ Len(servers) \in Nat /\ Len(emitters) \in Nat
  BY DEF ServersInv, ServerTypes
<1>2. S!Channels = {"tcp", "udp"}
  BY StatementNames
<1>g. ASSUME NEW r \in Requests, NEW from, NEW to \in S!Statements, S!Goto(r, from, to)
      PROVE  Moves(r, from, to)
  BY <1>1, <1>g, GotoMoves
<1>h. \A c \in S!Channels : current[c] # 0 => current[c] \in 1 .. Len(servers)
  BY <1>1 DEF ServerTypes
\* steps to and from statements at which nothing is due
<1>m. ASSUME NEW r \in Requests, NEW from, NEW to, Moves(r, from, to),
             from \in {"idle", "check", "ensure", "start"},
             to \in {"check", "flag", "ensure", "ensure new", "start", "done"},
             to \in {"check", "flag"} \/ started, 
             UNCHANGED <<started, servers, current, emitters>>
      PROVE  WiredInv'
  <2>1. Waits(Past)' => started
    BY <1>1, <1>m, WaitsAlready DEF WiredInv
  <2>2. ASSUME NEW c \in S!Channels PROVE WiredAt(c)'
    <3>1. WiredAt(c) /\ HasEmitter(c)' = HasEmitter(c)
      BY <1>1, <1>m DEF WiredInv, HasEmitter
    <3>2. Waits(BeforeEmit(c)) => Waits(BeforeEmit(c))'
      BY <1>m, StillWaits DEF BeforeEmit
    <3>3. Waits(BeforeEmit(c) \cup {S!New[c]}) => Waits(BeforeEmit(c) \cup {S!New[c]})'
      <4>1. from \notin BeforeEmit(c) \cup {S!New[c]}
        BY <1>m, <2>2, StatementNames DEF BeforeEmit
      <4> QED
        BY <1>m, <4>1, StillWaits
    <3>4. Waits(Running(c))' <=> Waits(Running(c))
      <4>1. from \notin Running(c) /\ to \notin Running(c)
        BY <1>m DEF Running
      <4> QED
        BY <1>m, <4>1, StillWaits, WaitsAlready
    <3> QED
      BY <1>m, <3>1, <3>2, <3>3, <3>4 DEF WiredAt
  <2> QED
    BY <1>m, <2>1, <2>2 DEF WiredInv
<1>3. ASSUME NEW r \in Requests, S!Request(r) PROVE WiredInv'
  BY <1>3, <1>g, <1>m, StatementNames DEF S!Request
<1>4. ASSUME NEW r \in Requests, S!Check(r) PROVE WiredInv'
  BY <1>4, <1>g, <1>m, StatementNames DEF S!Check
<1>p. ASSUME NEW r \in Requests, pc[r] \in Past PROVE started
  BY <1>1, <1>p DEF WiredInv, Waits
<1>5. ASSUME NEW r \in Requests, S!Ensure(r) PROVE WiredInv'
  <2>1. PICK to \in {"start", "ensure new"} : S!Goto(r, "ensure", to)
    BY <1>5 DEF S!Ensure
  <2>2. Moves(r, "ensure", to) /\ started
    <3>1. Moves(r, "ensure", to)
      BY <1>g, <2>1, StatementNames
    <3> QED
      BY <1>p, <3>1, StatementNames DEF Moves
  <2> QED
    BY <1>5, <1>m, <2>2 DEF S!Ensure
<1>6. ASSUME NEW r \in Requests, S!StartAcquisition(r) PROVE WiredInv'
  <2>1. Moves(r, "start", "done")
    BY <1>6, <1>g, StatementNames DEF S!StartAcquisition
  <2>2. started
    BY <1>p, <2>1, StatementNames DEF Moves
  <2> QED
    BY <1>6, <1>m, <2>1, <2>2 DEF S!StartAcquisition
<1>7. ASSUME NEW r \in Requests, S!SetFlag(r) PROVE WiredInv'
  <2>1. Moves(r, "flag", "emit tcp") /\ started' /\ UNCHANGED <<servers, current>>
    BY <1>7, <1>g, StatementNames DEF S!SetFlag
  <2>2. ASSUME NEW c \in S!Channels PROVE WiredAt(c)'
    <3>1. Waits(BeforeEmit(c))' /\ Waits(BeforeEmit(c) \cup {S!New[c]})'
      BY <2>1 DEF Waits, Moves, BeforeEmit
    <3>2. "flag" \notin Running(c) /\ "emit tcp" \notin Running(c)
      BY DEF Running
    <3>3. Waits(Running(c))' <=> Waits(Running(c))
      BY <2>1, <3>2, StillWaits, WaitsAlready
    <3> QED
      BY <1>1, <2>1, <3>1, <3>3 DEF WiredInv, WiredAt
  <2> QED
    BY <2>1, <2>2 DEF WiredInv
\* steps of the flag's owner
<1>8. ASSUME NEW r \in Requests, NEW ch \in S!Channels, S!AddEmitter(r, ch) PROVE WiredInv'
  <2>1. Moves(r, S!Emit[ch], S!New[ch]) /\ UNCHANGED <<started, servers, current>> /\ started
    <3>1. Moves(r, S!Emit[ch], S!New[ch])
      <4>1. S!New[ch] \in S!Statements
        BY StatementNames
      <4> QED
        BY <1>8, <1>g, <4>1 DEF S!AddEmitter
    <3>2. pc[r] \in Past
      BY <3>1, StatementNames DEF Moves
    <3> QED
      BY <1>8, <1>p, <3>1, <3>2 DEF S!AddEmitter
  <2>2. HasEmitter(ch)'
    BY <1>1, <1>8, EmitterAdded DEF HasEmitter
  <2>3. ASSUME NEW c \in S!Channels, HasEmitter(c) PROVE HasEmitter(c)'
    BY <1>1, <1>8, <2>3, EmitterAdded DEF HasEmitter
  <2>4. ASSUME NEW c \in S!Channels PROVE WiredAt(c)'
    <3>1. WiredAt(c)
      BY <1>1 DEF WiredInv
    <3>2. HasEmitter(c)' \/ Waits(BeforeEmit(c))'
      <4>1. CASE c = ch
        BY <2>2, <4>1
      <4>2. CASE c # ch
        <5>1. S!Emit[ch] \notin BeforeEmit(c) \/ S!New[ch] \in BeforeEmit(c)
          BY <1>2, <4>2, StatementNames DEF BeforeEmit
        <5> QED
          BY <2>1, <2>3, <3>1, <5>1, StillWaits DEF WiredAt
      <4> QED
        BY <4>1, <4>2
    <3>3. Waits(BeforeEmit(c) \cup {S!New[c]}) => Waits(BeforeEmit(c) \cup {S!New[c]})'
      <4>1. \/ S!Emit[ch] \notin BeforeEmit(c) \cup {S!New[c]}
            \/ S!New[ch] \in BeforeEmit(c) \cup {S!New[c]}
        BY <1>2, StatementNames DEF BeforeEmit
      <4> QED
        BY <2>1, <4>1, StillWaits
    <3>4. S!Emit[ch] \notin Running(c) /\ S!New[ch] \notin Running(c)
      BY <1>2, StatementNames DEF Running
    <3>5. Waits(Running(c))' <=> Waits(Running(c))
      BY <2>1, <3>4, StillWaits, WaitsAlready
    <3> QED
      BY <2>1, <3>1, <3>2, <3>3, <3>5 DEF WiredAt
  <2> QED
    BY <2>1, <2>4 DEF WiredInv
<1>9. ASSUME NEW r \in Requests, NEW ch \in S!Channels, NEW from \in S!Statements, NEW to \in S!Statements,
             Moves(r, from, to), S!NewServer(ch), UNCHANGED <<started, emitters>>,
             \/ from = S!New[ch] /\ to = S!Run[ch]
             \/ ch = "tcp" /\ from = "ensure new" /\ to = "ensure run"
      PROVE  WiredInv'
  <2>1. started
    BY <1>9, <1>p, <1>2, StatementNames DEF Moves
  <2>2. ASSUME NEW c \in S!Channels PROVE WiredAt(c)'
    <3>1. WiredAt(c) /\ (HasEmitter(c)' <=> HasEmitter(c))
      BY <1>1, <1>9 DEF WiredInv, HasEmitter
    <3>2. Waits(BeforeEmit(c)) => Waits(BeforeEmit(c))'
      <4>1. from \notin BeforeEmit(c) \/ to \in BeforeEmit(c)
        BY <1>2, <1>9, StatementNames DEF BeforeEmit
      <4> QED
        BY <1>9, <4>1, StillWaits
    <3>3. CASE c = ch
      <4>1. current'[c] # 0
        <5>1. current'[c] = Len(servers) + 1
          BY <1>1, <1>9, <3>3, NewMakes
        <5> QED
          BY <1>1, <5>1
      <4>2. to \in Running(c)
        BY <1>2, <1>9, <3>3, StatementNames DEF Running
      <4>3. Waits(Running(c))'
        BY <1>9, <4>2 DEF Waits, Moves
      <4> QED
        BY <1>9, <3>1, <3>2, <4>1, <4>3 DEF WiredAt
    <3>4. CASE c # ch
      <4>1. current'[c] = current[c] /\ (current[c] # 0 => servers'[current[c]] = servers[current[c]])
        BY <1>1, <1>9, <1>h, <3>4, NewMakes
      <4>2. from \notin Running(c) /\ to \notin Running(c)
        BY <1>2, <1>9, <3>4, StatementNames DEF Running
      <4>3. Waits(Running(c))' <=> Waits(Running(c))
        BY <1>9, <4>2, StillWaits, WaitsAlready
      <4>4. \/ from \notin BeforeEmit(c) \cup {S!New[c]} \/ to \in BeforeEmit(c) \cup {S!New[c]}
        BY <1>2, <1>9, <3>4, StatementNames DEF BeforeEmit
      <4>5. Waits(BeforeEmit(c) \cup {S!New[c]}) => Waits(BeforeEmit(c) \cup {S!New[c]})'
        BY <1>9, <4>4, StillWaits
      <4> QED
        BY <1>9, <3>1, <3>2, <4>1, <4>3, <4>5 DEF WiredAt
    <3> QED
      BY <3>3, <3>4
  <2> QED
    BY <1>9, <2>1, <2>2 DEF WiredInv
<1>10. ASSUME NEW r \in Requests, NEW ch \in S!Channels, S!MakeServer(r, ch) PROVE WiredInv'
  <2>1. S!Run[ch] \in S!Statements /\ S!New[ch] \in S!Statements
    BY <1>2, StatementNames
  <2>2. Moves(r, S!New[ch], S!Run[ch])
    BY <1>10, <1>g, <2>1 DEF S!MakeServer
  <2> QED
    BY <1>9, <1>10, <2>1, <2>2 DEF S!MakeServer
<1>11. ASSUME NEW r \in Requests, S!EnsureNew(r) PROVE WiredInv'
  <2>1. Moves(r, "ensure new", "ensure run")
    BY <1>11, <1>g, StatementNames DEF S!EnsureNew
  <2> QED
    BY <1>2, <1>9, <1>11, <2>1, StatementNames DEF S!EnsureNew
<1>12. ASSUME NEW r \in Requests, NEW ch \in S!Channels, NEW from \in S!Statements, NEW to \in S!Statements,
              Moves(r, from, to), S!RunServer(ch), UNCHANGED <<started, emitters, current>>,
              \/ from = S!Run[ch] /\ to = IF ch = "tcp" THEN "emit udp" ELSE "ensure"
              \/ ch = "tcp" /\ from = "ensure run" /\ to = "start"
       PROVE  WiredInv'
  <2>1. started
    BY <1>12, <1>p, <1>2, StatementNames DEF Moves
  <2>2. current[ch] # 0
    <3>1. from \in Running(ch)
      BY <1>2, <1>12, StatementNames DEF Running
    <3> QED
      BY <1>1, <1>12, <3>1 DEF WiredInv, WiredAt, Waits, Moves
  <2>3. KeptServers /\ servers'[current[ch]].state # "new"
    BY <1>1, <1>12, <2>2, RunKeeps
  <2>4. ASSUME NEW c \in S!Channels PROVE WiredAt(c)'
    <3>1. WiredAt(c) /\ (HasEmitter(c)' <=> HasEmitter(c))
      BY <1>1, <1>12 DEF WiredInv, HasEmitter
    <3>2. Waits(BeforeEmit(c)) => Waits(BeforeEmit(c))'
      <4>1. from \notin BeforeEmit(c) \/ to \in BeforeEmit(c)
        BY <1>2, <1>12, StatementNames DEF BeforeEmit
      <4> QED
        BY <1>12, <4>1, StillWaits
    <3>3. Waits(BeforeEmit(c) \cup {S!New[c]}) => Waits(BeforeEmit(c) \cup {S!New[c]})'
      <4>1. from \notin BeforeEmit(c) \cup {S!New[c]} \/ to \in BeforeEmit(c) \cup {S!New[c]}
        BY <1>2, <1>12, StatementNames DEF BeforeEmit
      <4> QED
        BY <1>12, <4>1, StillWaits
    <3>4. to \notin Running(c)
      BY <1>2, <1>12, StatementNames DEF Running
    <3>5. Waits(Running(c))' => Waits(Running(c))
      BY <1>12, <3>4, WaitsAlready
    <3>6. CASE c = ch
      BY <1>12, <2>2, <2>3, <3>1, <3>2, <3>3, <3>6 DEF WiredAt
    <3>7. CASE c # ch
      <4>1. from \notin Running(c)
        BY <1>2, <1>12, <3>7, StatementNames DEF Running
      <4>2. Waits(Running(c)) => Waits(Running(c))'
        BY <1>12, <4>1, StillWaits
      <4>3. current[c] # 0 /\ servers'[current[c]].state = "new" => servers[current[c]].state = "new"
        BY <1>h, <2>3 DEF KeptServers
      <4> QED
        BY <1>12, <3>1, <3>2, <3>3, <3>5, <4>2, <4>3 DEF WiredAt
    <3> QED
      BY <3>6, <3>7
  <2> QED
    BY <1>12, <2>1, <2>4 DEF WiredInv
<1>13. ASSUME NEW r \in Requests, NEW ch \in S!Channels, S!StartServer(r, ch) PROVE WiredInv'
  <2> DEFINE to == IF ch = "tcp" THEN "emit udp" ELSE "ensure"
  <2>1. to \in S!Statements /\ S!Run[ch] \in S!Statements
    BY <1>2, StatementNames
  <2>2. Moves(r, S!Run[ch], to)
    BY <1>13, <1>g, <2>1 DEF S!StartServer
  <2>3. S!RunServer(ch) /\ UNCHANGED <<started, emitters, current>>
    BY <1>13 DEF S!StartServer
  <2> QED
    BY <1>12, <2>1, <2>2, <2>3
<1>14. ASSUME NEW r \in Requests, S!EnsureRun(r) PROVE WiredInv'
  <2>1. Moves(r, "ensure run", "start")
    BY <1>14, <1>g, StatementNames DEF S!EnsureRun
  <2> QED
    BY <1>2, <1>12, <1>14, <2>1, StatementNames DEF S!EnsureRun
<1>15. ASSUME NEW s \in DOMAIN servers, S!Bind(s) PROVE WiredInv'
  <2>1. s \in 1 .. Len(servers)
    BY <1>1, <1>15 DEF ServerTypes
  <2>2. PICK x \in {"running", "bound", "dead"} : servers' = [servers EXCEPT ![s].state = x]
    BY <1>15 DEF S!Bind
  <2>3. KeptServers /\ UNCHANGED <<pc, started, current, emitters>>
    BY <1>1, <1>15, <2>1, <2>2, StateChanges DEF S!Bind
  <2>4. ASSUME NEW c \in S!Channels PROVE WiredAt(c)'
    <3>1. current[c] # 0 /\ servers'[current[c]].state = "new" => servers[current[c]].state = "new"
      BY <1>h, <2>3 DEF KeptServers
    <3> QED
      BY <1>1, <2>3, <3>1 DEF WiredInv, WiredAt, Waits, HasEmitter
  <2> QED
    BY <1>1, <2>3, <2>4 DEF WiredInv, Waits
<1>16. CASE S!EmitFrame
  <2>1. UNCHANGED <<pc, started, servers, current>>
    BY <1>16 DEF S!EmitFrame
  <2>2. ASSUME NEW c \in S!Channels PROVE HasEmitter(c)' <=> HasEmitter(c)
    BY <1>1, <1>16, FrameEmitted DEF HasEmitter
  <2> QED
    BY <1>1, <2>1, <2>2 DEF WiredInv, WiredAt, Waits
<1>17. CASE UNCHANGED S!vars
  BY <1>1, <1>17 DEF S!vars, WiredInv, WiredAt, Waits, HasEmitter
<1> QED
  BY <1>3, <1>4, <1>5, <1>6, <1>7, <1>8, <1>10, <1>11, <1>13, <1>14, <1>15, <1>16, <1>17 DEF S!Next, S!RequestStep
-----------------------------------------------------------------------------
\* The only request under way moves on.
LEMMA TurnMoves ==
  ASSUME TurnInv, NEW r \in Requests, NEW from, NEW to, Moves(r, from, to),
         \A q \in Requests : q # r => pc[q] \in {"idle", "done"},
         (InOrder /\ Due(to))', (~started => Made(0, 0))',
         (started /\ to \notin Building => Made(2, 2))', (acquiring => Made(2, 2))',
         copies' = copies
  PROVE  TurnInv'
<1>1. \A q \in Requests : q # r => pc'[q] \in {"idle", "done"}
  BY DEF Moves
<1>2. \A q \in Requests : Due(pc[q])'
  BY <1>1 DEF Due, Moves
<1>3. (started /\ ~Waits(Building) => Made(2, 2))'
  BY DEF Waits, Moves
<1>4. \A p, q \in Requests :
         pc'[p] \notin {"idle", "done"} /\ pc'[q] \notin {"idle", "done"} => p = q
  BY <1>1
<1>5. \A ch \in S!Channels : copies'[ch] \in {0, 1}
  BY DEF TurnInv
<1> QED
  BY <1>2, <1>3, <1>4, <1>5 DEF TurnInv

\* In turn, every frame is broadcast once where clients can be.
LEMMA FrameOnce ==
  ASSUME ServerTypes, ChannelInv, TurnInv, ChannelInv', S!EmitFrame, NEW ch \in S!Channels
  PROVE  copies'[ch] \in {0, 1}
<1>0. S!Channels = {"tcp", "udp"}
  BY StatementNames
<1>1. Len(emitters) = 2 /\ Len(servers) = 2 /\ InOrder
  BY DEF S!EmitFrame, TurnInv, Made
<1>2. /\ DOMAIN emitters' = 1 .. 2 /\ UNCHANGED <<servers, current, clientsAt>>
      /\ \A i \in 1 .. 2 : emitters'[i].channel = Order(i)
  BY <1>1, FrameEmitted DEF S!EmitFrame, InOrder
<1>3. ASSUME NEW i \in 1 .. 2 PROVE emitters'[i].server = Place(Order(i))
  <2>1. emitters[i] \in EmitterType /\ emitters[i].server <= 2 /\ emitters[i].channel = Order(i)
    <3>1. i \in 1 .. Len(emitters) /\ emitters \in Seq(EmitterType)
      BY <1>1 DEF ServerTypes
    <3>2. emitters[i].server <= Len(servers)
      BY <3>1 DEF ServerTypes
    <3> QED
      BY <1>1, <3>1, <3>2 DEF InOrder
  <2>2. Order(i) \in S!Channels /\ Place(Order(i)) = i
    BY <1>0 DEF Order, Place
  <2>3. emitters[i].server \in 0 .. 2
    BY <2>1 DEF EmitterType
  <2>4. CASE emitters[i].server = 0
    BY <1>1, <2>1, <2>2, <2>4, FrameEmitted DEF InOrder
  <2>5. CASE emitters[i].server # 0
    <3>1. servers[emitters[i].server].channel = Order(i)
      BY <1>1, <2>1, <2>5 DEF ChannelInv
    <3>2. servers[emitters[i].server].channel = Order(emitters[i].server)
      BY <1>1, <2>3, <2>5 DEF InOrder
    <3> QED
      BY <1>1, <2>2, <2>3, <2>5, <3>1, <3>2, FrameEmitted DEF Order
  <2> QED
    BY <2>4, <2>5
<1>4. CASE clientsAt[ch] = 0
  BY <1>4 DEF S!EmitFrame
<1>5. CASE clientsAt[ch] # 0
  <2>1. clientsAt[ch] \in 1 .. 2 /\ ch \in {"tcp", "udp"}
    <3>1. clientsAt[ch] \in 0 .. Len(servers)
      BY DEF ServerTypes
    <3> QED
      BY <1>0, <1>1, <1>5, <3>1
  <2>2. Order(clientsAt[ch]) = ch
    BY <1>1, <1>5, <2>1 DEF ChannelInv, InOrder
  <2>3. clientsAt[ch] = Place(ch) /\ Order(Place(ch)) = ch /\ Place(ch) \in 1 .. 2
    BY <2>1, <2>2 DEF Order, Place
  <2> DEFINE reaching == {i \in DOMAIN emitters' : emitters'[i].channel = ch
                             /\ emitters'[i].server = clientsAt[ch]}
  <2>4. ASSUME NEW i \in 1 .. 2 PROVE i \in reaching <=> i = Place(ch)
    <3>1. Order(i) = ch <=> i = Place(ch)
      BY <2>1 DEF Order, Place
    <3> QED
      BY <1>2, <1>3, <2>3, <3>1
  <2>5. reaching = {Place(ch)}
    BY <1>2, <2>3, <2>4
  <2>6. copies'[ch] = IF clientsAt[ch] = 0 THEN 0
              ELSE IF reaching = {} THEN -1
              ELSE IF \A i, j \in reaching : i = j THEN 1 ELSE 2
    BY DEF S!EmitFrame
  <2> HIDE DEF reaching
  <2> QED
    BY <1>5, <2>5, <2>6
<1> QED
  BY <1>4, <1>5

(* Requests in turn make both channels once, in order. *)
LEMMA TurnStep == ServersInv /\ [S!Next]_(S!vars) /\ ChannelInv' /\ ~overlapped' => TurnInv'
<1> SUFFICES ASSUME ServersInv, [S!Next]_(S!vars), ChannelInv', ~overlapped' PROVE TurnInv'
  OBVIOUS
<1> DEFINE Past == S!Statements \ {"idle", "check", "flag"}
<1>1. ServerTypes /\ ChannelInv /\ WiredInv /\ Len(servers) \in Nat /\ Len(emitters) \in Nat
  BY DEF ServersInv, ServerTypes
<1>2. S!Channels = {"tcp", "udp"}
  BY StatementNames
<1>t. ~overlapped => TurnInv
  BY DEF ServersInv
<1>g. ASSUME NEW r \in Requests, NEW from, NEW to \in S!Statements, S!Goto(r, from, to)
      PROVE  Moves(r, from, to)
  BY <1>1, <1>g, GotoMoves
<1>p. ASSUME NEW r \in Requests, pc[r] \in Past PROVE started
  BY <1>1, <1>p DEF WiredInv, Waits
<1>a. ASSUME NEW r \in Requests, pc[r] \notin {"idle", "done"}, ~overlapped
      PROVE  \A q \in Requests : q # r => pc[q] \in {"idle", "done"}
  BY <1>a, <1>t DEF TurnInv
\* when nothing is being built, all has been
<1>b. ASSUME NEW r \in Requests, pc[r] \notin Building, ~overlapped,
             \A q \in Requests : q # r => pc[q] \in {"idle", "done"}
      PROVE  started => Made(2, 2)
  BY <1>b, <1>t DEF TurnInv, Waits, Building
\* steps that make nothing
<1>m. ASSUME NEW r \in Requests, NEW from, NEW to, Moves(r, from, to), ~overlapped,
             \A q \in Requests : q # r => pc[q] \in {"idle", "done"},
             UNCHANGED <<started, emitters, current, copies>>, KeptServers,
             Due(to), started /\ to \notin Building => Made(2, 2), acquiring' => Made(2, 2)
      PROVE  TurnInv'
  <2>1. TurnInv /\ (Made(0, 0)' <=> Made(0, 0)) /\ (Made(2, 2)' <=> Made(2, 2))
    BY <1>m, <1>t DEF Made, KeptServers
  <2>2. InOrder'
    BY <1>m, <2>1 DEF TurnInv, InOrder, KeptServers
  <2>3. Due(to)'
    BY <1>m DEF Due, Made, KeptServers
  <2>4. (~started => Made(0, 0))'
    BY <1>m, <2>1 DEF TurnInv
  <2> QED
    BY <1>m, <2>1, <2>2, <2>3, <2>4, TurnMoves
<1>k. servers' = servers => KeptServers
  BY <1>1 DEF KeptServers, ServerTypes
<1>3. ASSUME NEW r \in Requests, S!Request(r) PROVE TurnInv'
  <2>1. Moves(r, "idle", "check")
    BY <1>3, <1>g, StatementNames DEF S!Request
  <2>2. ~overlapped /\ \A q \in Requests : pc[q] \in {"idle", "done"}
    BY <1>1, <1>3 DEF S!Request, ServerTypes
  <2>3. started => Made(2, 2)
    BY <1>b, <2>2 DEF Building
  <2>4. Due("check") /\ UNCHANGED <<started, emitters, current, copies, acquiring>> /\ KeptServers
    BY <1>3, <1>k DEF S!Request, Due
  <2>5. acquiring => Made(2, 2)
    BY <1>t, <2>2 DEF TurnInv
  <2> QED
    BY <1>m, <2>1, <2>2, <2>3, <2>4, <2>5
<1>4. ASSUME NEW r \in Requests, S!Check(r) PROVE TurnInv'
  <2> DEFINE to == IF started THEN "ensure" ELSE "flag"
  <2>1. PICK x \in {"ensure", "flag"} : x = to /\ Moves(r, "check", x)
    BY <1>4, <1>g, StatementNames DEF S!Check
  <2>2. /\ ~overlapped /\ pc[r] = "check"
        /\ UNCHANGED <<started, emitters, current, copies, acquiring>> /\ KeptServers
    BY <1>4, <1>k, <2>1 DEF S!Check, Moves
  <2>3. \A q \in Requests : q # r => pc[q] \in {"idle", "done"}
    BY <1>a, <2>2
  <2>4. started => Made(2, 2)
    BY <1>b, <2>2, <2>3 DEF Building
  <2>5. (acquiring => Made(2, 2)) /\ Due(x)
    BY <1>t, <2>1, <2>2 DEF TurnInv, Due
  <2> QED
    BY <1>m, <2>1, <2>2, <2>3, <2>4, <2>5
<1>5. ASSUME NEW r \in Requests, S!SetFlag(r) PROVE TurnInv'
  <2>1. Moves(r, "flag", "emit tcp") /\ started' /\ UNCHANGED <<servers, emitters, current, copies, acquiring>>
    BY <1>5, <1>g, StatementNames DEF S!SetFlag
  <2>2. ~overlapped /\ TurnInv /\ pc[r] = "flag"
    BY <1>5, <1>t, <2>1 DEF S!SetFlag, Moves
  <2>3. \A q \in Requests : q # r => pc[q] \in {"idle", "done"}
    BY <1>a, <2>2
  <2>4. Made(0, 0)
    BY <2>2 DEF TurnInv, Due
  <2>5. Made(0, 0)' /\ InOrder' /\ (acquiring => Made(2, 2))'
    BY <2>1, <2>2, <2>4 DEF TurnInv, InOrder, Made
  <2>6. Due("emit tcp")' /\ "emit tcp" \in Building
    BY <2>5 DEF Due, Building
  <2> QED
    BY <2>1, <2>2, <2>3, <2>5, <2>6, TurnMoves
<1>6. ASSUME NEW r \in Requests, NEW ch \in S!Channels, S!AddEmitter(r, ch) PROVE TurnInv'
  <2>1. Moves(r, S!Emit[ch], S!New[ch]) /\ UNCHANGED <<started, servers, current, copies, acquiring>>
    <3>1. S!New[ch] \in S!Statements
      BY <1>2, StatementNames
    <3> QED
      BY <1>6, <1>g, <3>1 DEF S!AddEmitter
  <2>2. ~overlapped /\ TurnInv /\ pc[r] = S!Emit[ch] /\ started
    <3>1. ~overlapped /\ TurnInv /\ pc[r] = S!Emit[ch]
      BY <1>6, <1>t, <2>1 DEF S!AddEmitter, Moves
    <3> QED
      BY <1>2, <1>p, <3>1, StatementNames
  <2>3. \A q \in Requests : q # r => pc[q] \in {"idle", "done"}
    BY <1>2, <1>a, <2>2, StatementNames
  <2>4. /\ ch = "tcp" => Made(0, 0)
        /\ ch = "udp" => Made(1, 1)
    BY <2>2, StatementNames DEF TurnInv, Due
  <2>5. /\ ch = "tcp" => Made(1, 0)'
        /\ ch = "udp" => Made(2, 1)'
    <3>1. Len(emitters') = Len(emitters) + 1 /\ servers' = servers
      BY <1>1, <1>6, <2>1, EmitterAdded
    <3>2. CASE ch = "tcp"
      BY <2>4, <3>1, <3>2 DEF Made
    <3>3. CASE ch = "udp"
      <4>1. Made(1, 1)
        BY <2>4, <3>3
      <4>2. Made(2, 1)'
        BY <3>1, <4>1 DEF Made
      <4> QED
        BY <3>3, <4>2
    <3> QED
      BY <1>2, <3>2, <3>3
  <2>6. InOrder'
    <3>1. Order(Len(emitters')) = ch
      BY <1>2, <2>5 DEF Made, Order
    <3>2. \A i \in 1 .. Len(emitters') : emitters'[i].channel = Order(i)
      BY <1>1, <1>6, <2>2, <3>1, EmitterAdded DEF TurnInv, InOrder
    <3> QED
      BY <2>1, <2>2, <3>2 DEF TurnInv, InOrder
  <2>7. Due(S!New[ch])' /\ S!New[ch] \in Building
    BY <1>2, <2>5, StatementNames DEF Due, Building
  <2>8. ~acquiring
    BY <1>2, <2>2, <2>4 DEF TurnInv, Made
  <2> QED
    BY <2>1, <2>2, <2>3, <2>6, <2>7, <2>8, TurnMoves
<1>7. ASSUME NEW r \in Requests, NEW ch \in S!Channels, S!MakeServer(r, ch) PROVE TurnInv'
  <2>1. Moves(r, S!New[ch], S!Run[ch]) /\ UNCHANGED <<started, emitters, copies, acquiring>> /\ S!NewServer(ch)
    <3>1. S!Run[ch] \in S!Statements
      BY <1>2, StatementNames
    <3> QED
      BY <1>7, <1>g, <3>1 DEF S!MakeServer
  <2>2. ~overlapped /\ TurnInv /\ pc[r] = S!New[ch] /\ started
    <3>1. ~overlapped /\ TurnInv /\ pc[r] = S!New[ch]
      BY <1>7, <1>t, <2>1 DEF S!MakeServer, Moves
    <3> QED
      BY <1>2, <1>p, <3>1, StatementNames
  <2>3. \A q \in Requests : q # r => pc[q] \in {"idle", "done"}
    BY <1>2, <1>a, <2>2, StatementNames
  <2>4. /\ ch = "tcp" => Made(1, 0)
        /\ ch = "udp" => Made(2, 1)
    BY <2>2, StatementNames DEF TurnInv, Due
  <2>5. /\ ch = "tcp" => Made(1, 1)'
        /\ ch = "udp" => Made(2, 2)'
    <3>1. Len(servers') = Len(servers) + 1 /\ emitters' = emitters
      BY <1>1, <2>1, NewMakes
    <3>2. CASE ch = "tcp"
      BY <2>4, <3>1, <3>2 DEF Made
    <3>3. CASE ch = "udp"
      <4>1. Made(2, 1)
        BY <2>4, <3>3
      <4>2. Made(2, 2)'
        BY <3>1, <4>1 DEF Made
      <4> QED
        BY <3>3, <4>2
    <3> QED
      BY <1>2, <3>2, <3>3
  <2>6. InOrder'
    <3>1. Order(Len(servers')) = ch /\ Place(ch) = Len(servers')
      BY <1>2, <2>5 DEF Made, Order, Place
    <3>2. \A i \in 1 .. Len(servers') : servers'[i].channel = Order(i)
      BY <1>1, <2>1, <2>2, <3>1, NewMakes DEF TurnInv, InOrder
    <3>3. ASSUME NEW c \in S!Channels
          PROVE  current'[c] = IF Place(c) <= Len(servers') THEN Place(c) ELSE 0
      <4>1. CASE c = ch
        BY <1>1, <2>1, <3>1, <4>1, NewMakes
      <4>2. CASE c # ch
        <5>1. current'[c] = IF Place(c) <= Len(servers) THEN Place(c) ELSE 0
          BY <1>1, <2>1, <2>2, <4>2, NewMakes DEF TurnInv, InOrder
        <5>2. Place(c) <= Len(servers) <=> Place(c) <= Len(servers')
          BY <1>2, <2>4, <2>5, <4>2 DEF Made, Place
        <5> QED
          BY <5>1, <5>2
      <4> QED
        BY <4>1, <4>2
    <3> QED
      BY <2>1, <2>2, <3>2, <3>3 DEF TurnInv, InOrder
  <2>7. Due(S!Run[ch])' /\ S!Run[ch] \in Building
    BY <1>2, <2>5, StatementNames DEF Due, Building
  <2>8. ~acquiring
    BY <1>2, <2>2, <2>4 DEF TurnInv, Made
  <2> QED
    BY <2>1, <2>2, <2>3, <2>6, <2>7, <2>8, TurnMoves
<1>8. ASSUME NEW r \in Requests, NEW ch \in S!Channels, S!StartServer(r, ch) PROVE TurnInv'
  <2> DEFINE to == IF ch = "tcp" THEN "emit udp" ELSE "ensure"
  <2>1. /\ Moves(r, S!Run[ch], to) /\ S!RunServer(ch)
        /\ UNCHANGED <<started, emitters, current, copies, acquiring, overlapped>>
    <3>1. to \in S!Statements
      BY StatementNames
    <3> QED
      BY <1>8, <1>g, <3>1 DEF S!StartServer
  <2>2. ~overlapped /\ TurnInv /\ pc[r] = S!Run[ch]
    BY <1>t, <2>1 DEF Moves
  <2>3. \A q \in Requests : q # r => pc[q] \in {"idle", "done"}
    BY <1>2, <1>a, <2>2, StatementNames
  <2>4. /\ ch = "tcp" => Made(1, 1)
        /\ ch = "udp" => Made(2, 2)
    BY <2>2, StatementNames DEF TurnInv, Due
  <2>5. KeptServers
    <3>1. current[ch] # 0
      BY <1>2, <2>2, <2>4 DEF TurnInv, InOrder, Made, Place
    <3> QED
      BY <1>1, <2>1, <3>1, RunKeeps
  <2>6. Due(to) /\ (to \notin Building => Made(2, 2))
    BY <1>2, <2>4 DEF Due, Building
  <2>7. acquiring => Made(2, 2)
    BY <2>2 DEF TurnInv
  <2> HIDE DEF to
  <2> QED
    BY <1>m, <2>1, <2>2, <2>3, <2>5, <2>6, <2>7
<1>9. ASSUME NEW r \in Requests, pc[r] \notin {"idle", "check", "flag", "done"} \cup Building, ~overlapped
      PROVE  Made(2, 2) /\ TurnInv /\ current["tcp"] = 1
  <2>1. started
    BY <1>1, <1>9, <1>p DEF ServerTypes
  <2>2. TurnInv /\ \A q \in Requests : q # r => pc[q] \in {"idle", "done"}
    BY <1>9, <1>a, <1>t
  <2>3. Made(2, 2)
    BY <1>9, <1>b, <2>1, <2>2
  <2> QED
    BY <1>2, <2>2, <2>3 DEF TurnInv, InOrder, Made, Place
<1>10. ASSUME NEW r \in Requests, S!Ensure(r) PROVE TurnInv'
  <2>1. ~overlapped /\ pc[r] = "ensure" /\ UNCHANGED <<started, emitters, current, copies, acquiring>> /\ KeptServers
    BY <1>10, <1>k DEF S!Ensure, S!Goto
  <2>2. Made(2, 2) /\ current["tcp"] = 1
    BY <1>9, <2>1 DEF Building
  <2>3. Moves(r, "ensure", "start")
    <3>1. S!Goto(r, "ensure", "start")
      BY <1>10, <2>2 DEF S!Ensure
    <3> QED
      BY <1>g, <3>1, StatementNames
  <2>4. Due("start") /\ \A q \in Requests : q # r => pc[q] \in {"idle", "done"}
    BY <1>a, <2>1 DEF Due
  <2> QED
    BY <1>m, <2>1, <2>2, <2>3, <2>4
<1>11. ASSUME NEW r \in Requests, S!EnsureNew(r) \/ S!EnsureRun(r) PROVE FALSE
  <2>1. ~overlapped
    BY <1>11 DEF S!EnsureNew, S!EnsureRun
  <2>2. pc[r] = "ensure new" \/ pc[r] = "ensure run"
    BY <1>11 DEF S!EnsureNew, S!EnsureRun, S!Goto
  <2>3. Due(pc[r])
    BY <1>t, <2>1 DEF TurnInv
  <2> QED
    BY <2>2, <2>3 DEF Due
<1>12. ASSUME NEW r \in Requests, S!StartAcquisition(r) PROVE TurnInv'
  <2>1. ~overlapped /\ Moves(r, "start", "done") /\ UNCHANGED <<started, emitters, current, copies>> /\ KeptServers
    BY <1>12, <1>g, <1>k, StatementNames DEF S!StartAcquisition
  <2>2. Made(2, 2)
    BY <1>9, <2>1 DEF Moves, Building
  <2>3. Due("done") /\ \A q \in Requests : q # r => pc[q] \in {"idle", "done"}
    BY <1>a, <2>1 DEF Due, Moves
  <2> QED
    BY <1>m, <2>1, <2>2, <2>3
<1>13. ASSUME KeptServers, UNCHANGED <<pc, started, current, acquiring, overlapped>>,
              Len(emitters') = Len(emitters),
              \A i \in 1 .. Len(emitters) : emitters'[i].channel = emitters[i].channel,
              \A ch \in S!Channels : copies'[ch] \in {0, 1}
       PROVE  TurnInv'
  <2>1. TurnInv /\ InOrder
    BY <1>13, <1>t DEF TurnInv
  <2>2. InOrder'
    BY <1>13, <2>1 DEF InOrder, KeptServers
  <2>3. \A r \in Requests : Due(pc[r])'
    BY <1>13, <2>1 DEF TurnInv, Due, Made, KeptServers
  <2>4. (Made(0, 0)' <=> Made(0, 0)) /\ (Made(2, 2)' <=> Made(2, 2)) /\ (Waits(Building)' <=> Waits(Building))
    BY <1>13 DEF Made, KeptServers, Waits
  <2> QED
    BY <1>13, <2>1, <2>2, <2>3, <2>4 DEF TurnInv
<1>14. ASSUME NEW s \in DOMAIN servers, S!Bind(s) PROVE TurnInv'
  <2>1. s \in 1 .. Len(servers)
    BY <1>1, <1>14 DEF ServerTypes
  <2>2. PICK x \in {"running", "bound", "dead"} : servers' = [servers EXCEPT ![s].state = x]
    BY <1>14 DEF S!Bind
  <2>3. UNCHANGED <<pc, started, current, acquiring, overlapped, emitters, copies>>
    BY <1>14 DEF S!Bind
  <2>4. \A ch \in S!Channels : copies'[ch] \in {0, 1}
    BY <1>t, <2>3 DEF TurnInv
  <2> QED
    BY <1>1, <1>13, <2>1, <2>2, <2>3, <2>4, StateChanges
<1>15. CASE S!EmitFrame
  <2>1. UNCHANGED <<pc, started, current, acquiring, overlapped>> /\ KeptServers
    BY <1>15, <1>k DEF S!EmitFrame
  <2>2. \A ch \in S!Channels : copies'[ch] \in {0, 1}
    BY <1>1, <1>15, <1>t, <2>1, FrameOnce
  <2> QED
    BY <1>1, <1>13, <1>15, <2>1, <2>2, FrameEmitted
<1>16. CASE UNCHANGED S!vars
  <2>1. UNCHANGED <<pc, started, current, acquiring, overlapped, emitters, copies>> /\ KeptServers
    BY <1>16, <1>k DEF S!vars
  <2>2. \A ch \in S!Channels : copies'[ch] \in {0, 1}
    BY <1>t, <2>1 DEF TurnInv
  <2> QED
    BY <1>13, <2>1, <2>2
<1> QED
  BY <1>3, <1>4, <1>5, <1>6, <1>7, <1>8, <1>10, <1>11, <1>12, <1>14, <1>15, <1>16 DEF S!Next, S!RequestStep
-----------------------------------------------------------------------------
(* Together: the invariant is inductive. *)
LEMMA ServersStep == ServersInv /\ [S!Next]_(S!vars) => ServersInv'
  BY ServerTypesStep, ChannelStep, WiredStep, TurnStep DEF ServersInv

(* The invariant holds throughout. *)
LEMMA ServersInvHolds == S!Spec => []ServersInv
  BY ServersInit, ServersStep, PTL DEF S!Spec

(* When every request was served both channels have an emitter and a       *)
(* started server, each emitter broadcasts on its own channel, and frames  *)
(* go out once if the requests came one at a time (api.py 86-161).         *)
THEOREM FramesGoOutHolds == S!Spec => []FramesGoOut
<1>1. ASSUME ServersInv PROVE S!TypeOK
  <2>1. ServerTypes /\ Len(servers) \in Nat
    BY <1>1 DEF ServersInv, ServerTypes
  <2>2. ASSUME NEW s \in DOMAIN servers
        PROVE  servers[s].channel \in S!Channels /\ servers[s].state \in {"new", "running", "bound", "dead"}
    <3>1. servers[s] \in ServerType
      BY <2>1, <2>2 DEF ServerTypes
    <3> QED
      BY <3>1 DEF ServerType
  <2>3. ASSUME NEW i \in DOMAIN emitters
        PROVE  emitters[i].channel \in S!Channels /\ emitters[i].server \in 0 .. Len(servers)
    <3>1. emitters[i] \in EmitterType /\ emitters[i].server <= Len(servers)
      BY <2>1, <2>3 DEF ServerTypes
    <3> QED
      BY <2>1, <3>1 DEF EmitterType
  <2> QED
    BY <2>1, <2>2, <2>3 DEF S!TypeOK, ServerTypes
<1>2. ServersInv => S!StartedOnceInTurn
  BY DEF ServersInv, TurnInv, S!StartedOnceInTurn
<1>3. ASSUME ServersInv PROVE S!ChannelsAreWired
  <2>1. ServerTypes /\ ChannelInv /\ WiredInv
    BY <1>3 DEF ServersInv
  <2>2. DOMAIN emitters = 1 .. Len(emitters)
    BY <2>1 DEF ServerTypes
  <2>3. ASSUME \E r \in Requests : pc[r] = "done", \A r \in Requests : pc[r] \in {"idle", "done"},
               NEW ch \in S!Channels
        PROVE  /\ current[ch] # 0 /\ servers[current[ch]].state # "new"
               /\ \E i \in DOMAIN emitters : emitters[i].channel = ch
    <3>1. started
      BY <2>1, <2>3, StatementNames DEF WiredInv, Waits
    <3>2. ~Waits(BeforeEmit(ch) \cup {S!New[ch]}) /\ ~Waits(BeforeEmit(ch)) /\ ~Waits(Running(ch))
      BY <2>3, StatementNames DEF Waits, BeforeEmit, Running
    <3> QED
      BY <2>1, <2>2, <3>1, <3>2 DEF WiredInv, WiredAt, HasEmitter
  <2> QED
    BY <2>1, <2>2, <2>3 DEF S!ChannelsAreWired, ChannelInv
<1>4. ServersInv => FramesGoOut
  BY <1>1, <1>2, <1>3 DEF FramesGoOut, S!FramesGoOut
<1> QED
  BY <1>4, ServersInvHolds, PTL
================================================================================
