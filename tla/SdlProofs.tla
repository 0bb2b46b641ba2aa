------------------------------ MODULE SdlProofs ------------------------------
(***************************************************************************)
(* Theorems about the two threads of sdl/sdl.cpp that run beside the        *)
(* emulator's: the sound device, for every size of buffer, frame and period *)
(* and every sequence of frames, periods and reopenings; and the screen     *)
(* thread, for any number of pictures, stops and starts and whatever signals *)
(* are lost.                                                                *)
(***************************************************************************)
EXTENDS SoundBuffer, ScreenThread, SequenceTheorems, TLAPS

-----------------------------------------------------------------------------
(* The sound buffer                                                         *)

\* The remainder of an index that has gone around the buffer at most once.
LEMMA ModOnce ==
  ASSUME NEW n \in Nat, n > 0, NEW a \in Nat, a < 2 * n
  PROVE  a % n = IF a < n THEN a ELSE a - n
<1>1. CASE a < n
  BY <1>1, SMT
<1>2. CASE ~(a < n)
  BY <1>2, SMT
<1> QED BY <1>1, <1>2

\* Whole stereo frames add up to whole stereo frames.
LEMMA EvenSum ==
  ASSUME NEW a \in Nat, NEW b \in Nat, a % 2 = 0, b % 2 = 0
  PROVE  (a + b) % 2 = 0
  BY SMT

LEMMA EvenDifference ==
  ASSUME NEW a \in Nat, NEW b \in Nat, a % 2 = 0, b % 2 = 0
  PROVE  (a - b) % 2 = 0
  BY SMT

\* cbuf_write's copies: what is stored is the block's or was there before.
LEMMA StoredIsData ==
  ASSUME SoundTypeOK, size > 0,
         NEW block \in Seq(Samples), Len(block) <= size
  PROVE  Stored(block) \in [0..(size - 1) -> Samples]
<1> DEFINE j == (i + s) % size
           at(p) == (p + size - j) % size
<1>1. size \in Nat /\ i + s \in Nat /\ i + s < 2 * size
  BY DEF SoundTypeOK
<1>2. j \in 0..(size - 1)
  BY <1>1, ModOnce
<1>3. ASSUME NEW p \in 0..(size - 1)
      PROVE  (IF at(p) < Len(block) THEN block[at(p) + 1] ELSE data[p])
                \in Samples
  <2>1. p + size - j \in Nat /\ p + size - j < 2 * size
    BY <1>1, <1>2
  <2>2. at(p) \in Nat
    BY <1>1, <2>1, ModOnce
  <2>3. CASE at(p) < Len(block)
    <3>1. at(p) + 1 \in 1..Len(block)
      BY <2>2, <2>3, LenProperties
    <3> QED BY <2>3, <3>1, ElementOfSeq
  <2>4. CASE ~(at(p) < Len(block))
    BY <2>4 DEF SoundTypeOK
  <2> QED BY <2>3, <2>4
<1> QED BY <1>3 DEF Stored

\* The block cbuf_write stores fits the buffer and keeps whole stereo frames.
LEMMA FittingFits ==
  ASSUME SoundTypeOK, ChannelsKept, NEW n \in Nat, n % Channels = 0,
         NEW block \in BlocksOf(n)
  PROVE  /\ Fitting(block) \in Seq(Samples)
         /\ Len(Fitting(block)) <= size
         /\ Len(Fitting(block)) \in Nat
         /\ Len(Fitting(block)) % Channels = 0
<1>1. block \in Seq(Samples) /\ Len(block) = n
  BY SeqDef, LenProperties DEF BlocksOf
<1>2. CASE Len(block) > size
  <2> DEFINE m == Len(block) - size + 1
  <2>0. m \in Nat /\ m >= 1 /\ size \in Nat
    BY <1>1, <1>2 DEF SoundTypeOK
  <2>1. \A k \in m..Len(block) : block[k] \in Samples
    BY <1>1, <2>0, ElementOfSeq
  <2>2. /\ SubSeq(block, m, Len(block)) \in Seq(Samples)
        /\ Len(SubSeq(block, m, Len(block)))
              = IF m <= Len(block) THEN Len(block) - m + 1 ELSE 0
    BY <1>1, <2>0, <2>1, SubSeqProperties
  <2>3. Len(SubSeq(block, m, Len(block))) = size
    BY <1>1, <2>0, <2>2
  <2> QED BY <1>2, <2>0, <2>2, <2>3 DEF Fitting, ChannelsKept
<1>3. CASE ~(Len(block) > size)
  BY <1>1, <1>3 DEF Fitting, SoundTypeOK
<1> QED BY <1>2, <1>3

-----------------------------------------------------------------------------
\* What a step needs: the type, the stereo boundaries, and that the device
\* takes whole stereo frames.
SoundInv == SoundTypeOK /\ ChannelsKept /\ period % Channels = 0

LEMMA FrameKeeps ==
  ASSUME SoundInv, NEW block \in BlocksOf(Channels * frameLen), Frame(block)
  PROVE  SoundInv'
<1>1. CASE size = 0
  <2>1. UNCHANGED <<i, s, size, data, period, room, frameLen, wanted, stream,
                    faulted>>
    BY <1>1 DEF Frame
  <2> QED BY <2>1 DEF SoundInv, SoundTypeOK, ChannelsKept
<1>2. CASE size # 0
  <2> DEFINE b == Fitting(block)
  <2>1. size \in Nat /\ size > 0 /\ s \in 0..size /\ i \in 0..(size - 1)
    BY <1>2 DEF SoundInv, SoundTypeOK
  <2>2. b \in Seq(Samples) /\ Len(b) <= size /\ Len(b) \in Nat
          /\ Len(b) % Channels = 0
    <3>1. Channels * frameLen \in Nat /\ (Channels * frameLen) % Channels = 0
      BY DEF SoundInv, SoundTypeOK, Channels
    <3> QED BY <3>1, FittingFits DEF SoundInv
  <2>3. data' = Stored(b) /\ i' = StartAfter(Len(b)) /\ s' = SizeAfter(Len(b))
          /\ UNCHANGED <<size, period, room, frameLen, wanted, stream, faulted>>
    BY <1>2 DEF Frame, CbufWrite
  <2> HIDE DEF b
  <2>4. data' \in [0..(size - 1) -> Samples]
    BY <2>1, <2>2, <2>3, StoredIsData DEF SoundInv
  <2>5. s' \in 0..size
    BY <2>1, <2>2, <2>3 DEF SizeAfter
  <2>6. s' % Channels = 0
    <3>1. s' = IF Len(b) > size - s THEN size ELSE s + Len(b)
      BY <2>3 DEF SizeAfter
    <3>2. s % 2 = 0 /\ size % 2 = 0 /\ Len(b) % 2 = 0
      BY <2>2 DEF SoundInv, ChannelsKept, Channels
    <3>3. (s + Len(b)) % 2 = 0
      BY <2>1, <2>2, <3>2, EvenSum
    <3> QED BY <3>1, <3>2, <3>3 DEF Channels
  <2>7. i' \in 0..(size - 1) /\ i' % Channels = 0
    <3>1. CASE Len(b) > size - s
      <4> DEFINE a == i + (Len(b) - (size - s))
      <4>1. a \in Nat /\ a < 2 * size
        BY <2>1, <2>2, <3>1
      <4>2. a % Channels = 0
        BY <2>1, <2>2, <3>1 DEF SoundInv, ChannelsKept, Channels
      <4>3. i' = a % size
        BY <2>3, <3>1 DEF StartAfter
      <4>4. i' = IF a < size THEN a ELSE a - size
        BY <2>1, <4>1, <4>3, ModOnce
      <4> HIDE DEF a
      <4> QED BY <2>1, <4>1, <4>2, <4>4 DEF SoundInv, ChannelsKept, Channels
    <3>2. CASE ~(Len(b) > size - s)
      BY <2>1, <2>3, <3>2 DEF StartAfter, SoundInv, ChannelsKept
    <3> QED BY <3>1, <3>2
  <2>8. i' \in 0..size' /\ (size' > 0 => i' < size') /\ s' \in 0..size'
    BY <2>1, <2>3, <2>5, <2>7
  <2>9. SoundTypeOK'
    BY <2>3, <2>4, <2>8 DEF SoundInv, SoundTypeOK
  <2>10. ChannelsKept' /\ period' % Channels = 0
    BY <2>3, <2>6, <2>7 DEF SoundInv, ChannelsKept
  <2> QED BY <2>9, <2>10 DEF SoundInv
<1> QED BY <1>1, <1>2

LEMMA FillStreamKeeps ==
  ASSUME SoundInv, Silence \in Samples, FillStream
  PROVE  SoundInv'
<1> DEFINE got == Available(period)
<1>1. size \in Nat /\ size > 0 /\ s \in 0..size /\ i \in 0..(size - 1)
        /\ period \in Nat
  BY DEF SoundInv, SoundTypeOK, FillStream
<1>2. got \in 0..s /\ got <= period /\ got % Channels = 0
  BY <1>1 DEF Available, SoundInv, ChannelsKept
<1>3. /\ stream' = Oldest(got) \o [k \in 1..(period - got) |-> Silence]
      /\ i' = (i + got) % size /\ s' = s - got
      /\ UNCHANGED <<size, data, period, room, frameLen, wanted, faulted>>
  BY DEF FillStream
<1> HIDE DEF got
<1>4. i' = IF i + got < size THEN i + got ELSE (i + got) - size
  <2>1. i + got \in Nat /\ i + got < 2 * size /\ size \in Nat /\ size > 0
    BY <1>1, <1>2
  <2> QED BY <1>3, <2>1, ModOnce
<1>5. i' \in 0..(size - 1) /\ i' % Channels = 0
  BY <1>1, <1>2, <1>4 DEF SoundInv, ChannelsKept, Channels
<1>6. s' \in 0..size /\ s' % Channels = 0
  <2>1. s' = s - got /\ s - got \in 0..size /\ s \in Nat /\ got \in Nat
    BY <1>1, <1>2, <1>3
  <2>2. s % 2 = 0 /\ got % 2 = 0
    BY <1>2 DEF SoundInv, ChannelsKept, Channels
  <2>3. (s - got) % 2 = 0
    BY <2>1, <2>2, EvenDifference
  <2> QED BY <2>1, <2>3 DEF Channels
<1>7. stream' \in Seq(Samples)
  <2>1. Oldest(got) \in [1..got -> Samples]
    <3>1. ASSUME NEW k \in 1..got
          PROVE  data[(i + k - 1) % size] \in Samples
      <4>1. i + k - 1 \in Nat /\ i + k - 1 < 2 * size
        BY <1>1, <1>2
      <4>2. (i + k - 1) % size \in 0..(size - 1)
        BY <1>1, <4>1, ModOnce
      <4> QED BY <4>2 DEF SoundInv, SoundTypeOK
    <3> QED BY <3>1 DEF Oldest
  <2>2. Oldest(got) \in Seq(Samples)
    BY <1>2, <2>1, SeqDef
  <2>3. [k \in 1..(period - got) |-> Silence] \in [1..(period - got) -> Samples]
    OBVIOUS
  <2>4. [k \in 1..(period - got) |-> Silence] \in Seq(Samples)
    BY <1>1, <1>2, <2>3, SeqDef
  <2> QED BY <1>3, <2>2, <2>4, ConcatProperties
<1>8. i' \in 0..size' /\ (size' > 0 => i' < size') /\ s' \in 0..size'
  BY <1>1, <1>3, <1>5, <1>6
<1>9. SoundTypeOK'
  BY <1>3, <1>7, <1>8 DEF SoundInv, SoundTypeOK
<1>10. ChannelsKept' /\ period' % Channels = 0
  BY <1>3, <1>5, <1>6 DEF SoundInv, ChannelsKept
<1> QED BY <1>9, <1>10 DEF SoundInv

LEMMA ReopenKeeps ==
  ASSUME SoundInv, SoundAssumption, SoundOn \/ SoundOff
  PROVE  SoundInv'
<1>1. wanted' \in BOOLEAN /\ faulted' \in BOOLEAN /\ stream' \in Seq(Samples)
  BY DEF SoundOn, SoundOff, SoundInv, SoundTypeOK
<1>2. CASE Closed /\ (UNCHANGED frameLen \/ frameLen' = 0)
  <2>1. i' = 0 /\ s' = 0 /\ size' = 0 /\ period' = 0 /\ room' = 0
          /\ frameLen' \in Nat
    BY <1>2 DEF Closed, SoundInv, SoundTypeOK
  <2>2. data' \in [0..(size' - 1) -> Samples]
    <3>1. 0..(size' - 1) = {}
      BY <2>1
    <3> QED BY <1>2, <3>1 DEF Closed
  <2> QED BY <1>1, <2>1, <2>2 DEF SoundInv, SoundTypeOK, ChannelsKept, Channels
<1>3. ASSUME NEW d \in Devices, NEW n \in Segments, Opened(d, n)
      PROVE  SoundInv'
  <2>1. d.asked \in Nat /\ d.len \in Nat /\ d.period \in Nat \ {0} /\ n \in Int
    BY DEF SoundAssumption
  <2>2. n * d.asked \in Int
    BY <2>1
  <2>3. size' \in Nat /\ size' % Channels = 0
    <3> DEFINE frames == n * d.asked + d.period
    <3>1. frames \in Int
      BY <2>1, <2>2
    <3>2. size' = 2 * frames /\ 2 * frames >= 0
      BY <1>3 DEF Opened, BufferSize, Channels
    <3> HIDE DEF frames
    <3>3. (2 * frames) % 2 = 0
      BY <3>1
    <3> QED BY <3>1, <3>2, <3>3 DEF Channels
  <2>4. i' = 0 /\ s' = 0 /\ period' = 2 * d.period /\ frameLen' = d.len
          /\ room' = 2 * d.len
    BY <1>3 DEF Opened, Channels
  <2>5. data' \in [0..(size' - 1) -> Samples]
    BY <1>3 DEF Opened, SoundAssumption
  <2>6. /\ i' \in 0..size' /\ (size' > 0 => i' < size') /\ s' \in 0..size'
        /\ period' \in Nat /\ room' \in Nat /\ frameLen' \in Nat
    BY <2>1, <2>3, <2>4
  <2>7. SoundTypeOK'
    BY <1>1, <2>3, <2>5, <2>6 DEF SoundTypeOK
  <2>8. i' % 2 = 0 /\ s' % 2 = 0 /\ period' % 2 = 0
    BY <2>1, <2>4
  <2> QED BY <2>3, <2>7, <2>8 DEF SoundInv, ChannelsKept, Channels
<1> QED BY <1>2, <1>3 DEF SoundOn, SoundOff, Refused, GivenUp

LEMMA SoundInvInductive == SoundSpec => []SoundInv
<1>1. SoundInit => SoundInv
  <2> SUFFICES ASSUME SoundInit PROVE SoundInv
    OBVIOUS
  <2>1. stream \in Seq(Samples) /\ wanted \in BOOLEAN /\ faulted \in BOOLEAN
    BY EmptySeq DEF SoundInit
  <2>2. data \in [0..(size - 1) -> Samples]
    <3>1. 0..(size - 1) = {} /\ data = <<>>
      BY DEF SoundInit
    <3> QED BY <3>1
  <2>3. /\ size \in Nat /\ i \in 0..size /\ (size > 0 => i < size)
        /\ s \in 0..size /\ period \in Nat /\ room \in Nat /\ frameLen \in Nat
    BY DEF SoundInit
  <2>4. SoundTypeOK
    BY <2>1, <2>2, <2>3 DEF SoundTypeOK
  <2> QED BY <2>4 DEF SoundInit, SoundInv, ChannelsKept, Channels
<1>2. SoundInv /\ [SoundNext]_soundVars => SoundInv'
  <2> SUFFICES ASSUME SoundInv, [SoundNext]_soundVars PROVE SoundInv'
    OBVIOUS
  <2>1. CASE \E block \in BlocksOf(Channels * frameLen) : Frame(block)
    BY <2>1, FrameKeeps
  <2>2. CASE FillStream
    BY <2>2, FillStreamKeeps, SoundAssumption DEF SoundAssumption
  <2>3. CASE SoundOn \/ SoundOff
    BY <2>3, ReopenKeeps, SoundAssumption
  <2>4. CASE MixFaults \/ FillFaults
    BY <2>4 DEF MixFaults, FillFaults, SoundInv, SoundTypeOK, ChannelsKept
  <2>5. CASE UNCHANGED soundVars
    BY <2>5 DEF soundVars, SoundInv, SoundTypeOK, ChannelsKept
  <2> QED BY <2>1, <2>2, <2>3, <2>4, <2>5 DEF SoundNext
<1> QED BY <1>1, <1>2, PTL DEF SoundSpec

\* The read and write indices of cbuf_read and cbuf_write stay inside the
\* buffer, whatever the sizes.
THEOREM SoundTypeCorrect == SoundSpec => []SoundTypeOK
<1>1. SoundInv => SoundTypeOK
  BY DEF SoundInv
<1> QED BY <1>1, SoundInvInductive, PTL

\* The left channel is never played as the right one.
THEOREM ChannelsKeptAlways == SoundSpec => []ChannelsKept
<1>1. SoundInv => ChannelsKept
  BY DEF SoundInv
<1> QED BY <1>1, SoundInvInductive, PTL

-----------------------------------------------------------------------------
(* The circular buffer is a queue.  Position t counts the samples that wait  *)
(* from the oldest one, then those of the block that is stored.              *)

(* In a buffer of z samples, s0 of them from i0, to which m more go: how many *)
(* old ones are lost, where the oldest is then, and for the k-th of the new   *)
(* queue its position, its place in the buffer, and how far behind the write  *)
(* index that is (cbuf_write).                                                *)
DropOf(z, s0, m) == IF m > z - s0 THEN m - (z - s0) ELSE 0
StartOf(z, i0, s0, m) == IF m > z - s0 THEN (i0 + (m - (z - s0))) % z ELSE i0
PositionOf(z, s0, m, k) == (DropOf(z, s0, m) + k) - 1
PlaceOf(z, i0, s0, m, k) == ((StartOf(z, i0, s0, m) + k) - 1) % z
OffsetOf(z, i0, s0, m, k) == ((PlaceOf(z, i0, s0, m, k) + z) - ((i0 + s0) % z)) % z

\* What a position of the new queue shows was stored from the block behind the
\* old samples, and was in its place before in front of them.
LEMMA PlaceOfPosition ==
  ASSUME NEW z \in Nat, z > 0, NEW i0 \in 0..(z - 1), NEW s0 \in 0..z, NEW m \in 0..z,
         NEW k \in 1..((s0 + m) - DropOf(z, s0, m))
  PROVE  /\ DropOf(z, s0, m) \in Nat
         /\ PlaceOf(z, i0, s0, m, k) \in 0..(z - 1)
         /\ OffsetOf(z, i0, s0, m, k) \in Nat
         /\ PositionOf(z, s0, m, k) >= s0 =>
              /\ OffsetOf(z, i0, s0, m, k) = PositionOf(z, s0, m, k) - s0
              /\ OffsetOf(z, i0, s0, m, k) < m
         /\ PositionOf(z, s0, m, k) < s0 =>
              /\ OffsetOf(z, i0, s0, m, k) >= m
              /\ PlaceOf(z, i0, s0, m, k) = (i0 + PositionOf(z, s0, m, k)) % z
<1> DEFINE drop == DropOf(z, s0, m)
           i1 == StartOf(z, i0, s0, m)
           t == PositionOf(z, s0, m, k)
           p == PlaceOf(z, i0, s0, m, k)
           at == OffsetOf(z, i0, s0, m, k)
<1>0. /\ drop = (IF m > z - s0 THEN m - (z - s0) ELSE 0) /\ drop \in Nat
      /\ i1 = (IF m > z - s0 THEN (i0 + (m - (z - s0))) % z ELSE i0)
      /\ t = (drop + k) - 1 /\ p = ((i1 + k) - 1) % z
      /\ at = ((p + z) - ((i0 + s0) % z)) % z
      /\ k \in 1..((s0 + m) - drop)
  BY DEF DropOf, StartOf, PositionOf, PlaceOf, OffsetOf
<1> HIDE DEF drop, i1, t, p, at
<1> DEFINE j == (i0 + s0) % z
<1> USE <1>0
<1>1. i1 = IF i0 + drop < z THEN i0 + drop ELSE (i0 + drop) - z
  <2>1. CASE m > z - s0
    <3>1. i0 + (m - (z - s0)) = i0 + drop /\ i0 + drop \in Nat /\ i0 + drop < 2 * z
      BY <2>1
    <3> QED BY <2>1, <3>1, ModOnce
  <2>2. CASE ~(m > z - s0)
    BY <2>2
  <2> QED BY <2>1, <2>2
<1>2. drop <= s0 /\ (s0 + m) - drop <= z /\ i1 \in 0..(z - 1)
  BY <1>1
<1>3. p = IF (i1 + k) - 1 < z THEN (i1 + k) - 1 ELSE ((i1 + k) - 1) - z
  <2>1. (i1 + k) - 1 \in Nat /\ (i1 + k) - 1 < 2 * z
    BY <1>2
  <2> QED BY <2>1, ModOnce
<1>4. p \in 0..(z - 1)
  BY <1>2, <1>3
<1>5. j = IF i0 + s0 < z THEN i0 + s0 ELSE (i0 + s0) - z
  <2>1. i0 + s0 \in Nat /\ i0 + s0 < 2 * z
    OBVIOUS
  <2> QED BY <2>1, ModOnce
<1>6. at = IF (p + z) - j < z THEN (p + z) - j ELSE ((p + z) - j) - z
  <2>1. j \in 0..(z - 1)
    BY <1>5
  <2> HIDE DEF j
  <2>2. (p + z) - j \in Nat /\ (p + z) - j < 2 * z
    BY <1>4, <2>1
  <2>3. at = ((p + z) - j) % z
    BY DEF j
  <2> QED BY <2>2, <2>3, ModOnce
<1>7. t < s0 => (i0 + t) % z = IF i0 + t < z THEN i0 + t ELSE (i0 + t) - z
  <2> SUFFICES ASSUME t < s0 PROVE (i0 + t) % z = IF i0 + t < z THEN i0 + t ELSE (i0 + t) - z
    OBVIOUS
  <2>1. i0 + t \in Nat /\ i0 + t < 2 * z
    OBVIOUS
  <2> QED BY <2>1, ModOnce
<1> HIDE DEF j
<1>8. p = IF i0 + t < z THEN i0 + t ELSE IF i0 + t < 2 * z THEN (i0 + t) - z ELSE (i0 + t) - (2 * z)
  BY <1>1, <1>2, <1>3
<1>9. t >= s0 => at = t - s0 /\ at < m
  BY <1>2, <1>5, <1>6, <1>8
<1>10. t < s0 => at >= m /\ p = (i0 + t) % z
  BY <1>2, <1>5, <1>6, <1>7, <1>8
<1>11. at \in Nat
  BY <1>4, <1>5, <1>6
<1> QED BY <1>4, <1>9, <1>10, <1>11 DEF drop, t, p, at

\* What waits in a buffer of z samples, s0 of them from i0.
QueueOf(i0, s0, z, d) == [k \in 1..s0 |-> d[(i0 + k - 1) % z]]

LEMMA QueueType ==
  ASSUME NEW z \in Nat, NEW s0 \in 0..z, NEW i0 \in 0..z, z > 0 => i0 < z,
         NEW d \in [0..(z - 1) -> Samples]
  PROVE  /\ QueueOf(i0, s0, z, d) \in Seq(Samples)
         /\ Len(QueueOf(i0, s0, z, d)) = s0
         /\ \A k \in 1..s0 : QueueOf(i0, s0, z, d)[k] = d[(i0 + k - 1) % z]
<1> DEFINE q == QueueOf(i0, s0, z, d)
<1>1. ASSUME NEW k \in 1..s0 PROVE d[(i0 + k - 1) % z] \in Samples
  <2>1. z > 0 /\ i0 \in 0..(z - 1)
    OBVIOUS
  <2>2. i0 + k - 1 \in Nat /\ i0 + k - 1 < 2 * z
    BY <2>1
  <2>3. (i0 + k - 1) % z \in 0..(z - 1)
    BY <2>1, <2>2, ModOnce
  <2> QED BY <2>3
<1>2. q \in [1..s0 -> Samples]
  BY <1>1 DEF QueueOf
<1>3. q \in Seq(Samples)
  BY <1>2, SeqDef
<1>4. DOMAIN q = 1..s0
  BY <1>2
<1>5. DOMAIN q = 1..Len(q) /\ Len(q) \in Nat
  BY <1>3, LenProperties
<1>6. Len(q) = s0
  BY <1>4, <1>5
<1> QED BY <1>3, <1>6 DEF QueueOf

LEMMA WaitingType ==
  ASSUME SoundTypeOK
  PROVE  /\ Waiting \in Seq(Samples) /\ Len(Waiting) = s
         /\ \A k \in 1..s : Waiting[k] = data[(i + k - 1) % size]
<1>1. Waiting = QueueOf(i, s, size, data)
  BY DEF Waiting, QueueOf
<1> QED BY <1>1, QueueType DEF SoundTypeOK

LEMMA WaitingTypeNext ==
  ASSUME SoundTypeOK'
  PROVE  /\ Waiting' \in Seq(Samples) /\ Len(Waiting') = s'
         /\ \A k \in 1..s' : Waiting'[k] = data'[(i' + k - 1) % size']
<1>1. Waiting' = QueueOf(i', s', size', data')
  BY DEF Waiting, QueueOf
<1> QED BY <1>1, QueueType DEF SoundTypeOK

LEMMA WaitingStays ==
  ASSUME UNCHANGED <<i, s, size, data>> PROVE Waiting' = Waiting
BY DEF Waiting

\* Of a block that is larger than the buffer the end is stored.
LEMMA FittingIsEnd ==
  ASSUME size \in Nat, NEW block \in Seq(Samples)
  PROVE  /\ Fitting(block) \in Seq(Samples)
         /\ Len(Fitting(block)) = IF Len(block) > size THEN size ELSE Len(block)
         /\ \A k \in 1..Len(Fitting(block)) :
              Fitting(block)[k] = block[(Len(block) - Len(Fitting(block))) + k]
<1> DEFINE n == Len(block)
           m == (n - size) + 1
<1>0. n \in Nat
  BY LenProperties
<1>1. CASE n > size
  <2>1. Fitting(block) = SubSeq(block, m, n)
    BY <1>1 DEF Fitting
  <2>2. \A k \in m..n : block[k] \in Samples
    BY <1>0, <1>1, ElementOfSeq
  <2>3. /\ SubSeq(block, m, n) \in Seq(Samples)
        /\ Len(SubSeq(block, m, n)) = (IF m <= n THEN n - m + 1 ELSE 0)
        /\ \A k \in 1..(n - m + 1) : SubSeq(block, m, n)[k] = block[m + k - 1]
    BY <1>0, <2>2, SubSeqProperties
  <2>4. Len(SubSeq(block, m, n)) = size /\ n - m + 1 = size
    BY <1>0, <1>1, <2>3
  <2>5. \A k \in 1..size : m + k - 1 = (n - size) + k
    BY <1>0
  <2> HIDE DEF m
  <2> QED BY <1>1, <2>1, <2>3, <2>4, <2>5
<1>2. CASE ~(n > size)
  <2>1. Fitting(block) = block
    BY <1>2 DEF Fitting
  <2>2. \A k \in 1..n : (n - n) + k = k
    BY <1>0
  <2> QED BY <1>2, <2>1, <2>2
<1> QED BY <1>1, <1>2

\* cbuf_write puts a block: all of the queue's samples and the block's, but
\* the oldest ones that do not fit.
LEMMA WriteIsPut ==
  ASSUME SoundTypeOK, SoundTypeOK', size > 0, NEW block \in Seq(Samples), CbufWrite(block),
         UNCHANGED size
  PROVE  Waiting' = Fifo!Latest(Waiting \o block, size)
<1> DEFINE b == Fitting(block)
           n == Len(block)
           m == Len(b)
           drop == IF m > size - s THEN m - (size - s) ELSE 0
           all == Waiting \o block
<1>1. size \in Nat /\ s \in 0..size /\ i \in 0..(size - 1)
  BY DEF SoundTypeOK
<1>2. /\ n \in Nat /\ b \in Seq(Samples) /\ m = (IF n > size THEN size ELSE n)
      /\ \A k \in 1..m : b[k] = block[(n - m) + k]
  BY <1>1, FittingIsEnd, LenProperties
<1>3. /\ data' = Stored(b) /\ s' = (IF m > size - s THEN size ELSE s + m)
      /\ i' = (IF m > size - s THEN (i + (m - (size - s))) % size ELSE i)
  BY DEF CbufWrite, StartAfter, SizeAfter
<1>4. /\ all \in Seq(Samples) /\ Len(all) = s + n
      /\ \A k \in 1..(s + n) : all[k] = IF k <= s THEN Waiting[k] ELSE block[k - s]
  <2>1. Waiting \in Seq(Samples) /\ Len(Waiting) = s
    BY WaitingType
  <2>2. /\ all \in Seq(Samples) /\ Len(all) = Len(Waiting) + n
        /\ \A k \in 1..(Len(Waiting) + n) :
             all[k] = IF k <= Len(Waiting) THEN Waiting[k] ELSE block[k - Len(Waiting)]
    BY <2>1, ConcatProperties
  <2> HIDE DEF all, n
  <2> QED BY <2>1, <2>2
<1>5. /\ Waiting \in Seq(Samples) /\ \A k \in 1..s : Waiting[k] = data[(i + k - 1) % size]
      /\ Waiting' \in Seq(Samples) /\ Len(Waiting') = s'
      /\ \A k \in 1..s' : Waiting'[k] = data'[(i' + k - 1) % size]
  BY WaitingType, WaitingTypeNext
<1> HIDE DEF b, n, all
<1>6. m \in 0..size /\ drop \in Nat /\ s' = (s + m) - drop
  BY <1>1, <1>2, <1>3
<1> HIDE DEF m, drop
<1> DEFINE low == (s + n) - s' + 1
<1>7. /\ low \in Nat /\ low >= 1 /\ low <= (s + n) + 1 /\ s' \in Nat
      /\ low = ((n - m) + drop) + 1 /\ ((s + n) - low) + 1 = s'
  BY <1>1, <1>2, <1>6 DEF drop
<1>8. Fifo!Latest(all, size) = SubSeq(all, low, s + n)
  <2>1. s' = Fifo!Least(size, s + n)
    BY <1>1, <1>2, <1>3 DEF Fifo!Least
  <2> QED BY <1>4, <2>1 DEF Fifo!Latest
<1> HIDE DEF low
<1>9. /\ SubSeq(all, low, s + n) \in Seq(Samples)
      /\ Len(SubSeq(all, low, s + n)) = s'
      /\ \A k \in 1..s' : SubSeq(all, low, s + n)[k] = all[low + k - 1]
  <2>1. \A k \in low..(s + n) : all[k] \in Samples
    BY <1>1, <1>2, <1>4, <1>7, ElementOfSeq
  <2>2. /\ SubSeq(all, low, s + n) \in Seq(Samples)
        /\ Len(SubSeq(all, low, s + n)) = (IF low <= s + n THEN (s + n) - low + 1 ELSE 0)
        /\ \A k \in 1..((s + n) - low + 1) : SubSeq(all, low, s + n)[k] = all[low + k - 1]
    <3>1. low \in Int /\ s + n \in Int
      BY <1>1, <1>2, <1>7
    <3> QED BY <2>1, <3>1, SubSeqProperties
  <2>3. (s + n) - low + 1 = s'
    BY <1>7
  <2>4. low <= s + n \/ s' = 0
    BY <1>1, <1>2, <1>7
  <2> QED BY <1>7, <2>2, <2>3, <2>4
<1>10. ASSUME NEW k \in 1..s'
       PROVE  Waiting'[k] = SubSeq(all, low, s + n)[k]
  <2> DEFINE p == PlaceOf(size, i, s, m, k)
             t == PositionOf(size, s, m, k)
             at == OffsetOf(size, i, s, m, k)
  <2>1. /\ p \in 0..(size - 1) /\ at \in Nat
        /\ t >= s => at = t - s /\ at < m
        /\ t < s => at >= m /\ p = (i + t) % size
    <3>1. k \in 1..((s + m) - DropOf(size, s, m))
      BY <1>6 DEF DropOf, drop
    <3>2. size \in Nat /\ size > 0 /\ s \in 0..size /\ i \in 0..(size - 1) /\ m \in 0..size
      BY <1>1, <1>6
    <3> QED BY ONLY <3>1, <3>2, PlaceOfPosition
  <2>0. /\ t = (drop + k) - 1 /\ p = (i' + k - 1) % size
        /\ at = ((p + size) - ((i + s) % size)) % size
    <3>1. (i' + k) - 1 = i' + k - 1
      BY DEF SoundTypeOK
    <3>2. i' = StartOf(size, i, s, m)
      BY <1>3 DEF StartOf
    <3>3. p = ((i' + k) - 1) % size
      BY <3>2 DEF PlaceOf
    <3> QED BY <3>1, <3>3 DEF PositionOf, OffsetOf, DropOf, drop
  <2>2. t \in Nat /\ t < s + m /\ low + k - 1 = ((n - m) + t) + 1
    <3> HIDE DEF t
    <3> QED BY <1>1, <1>2, <1>6, <1>7, <2>0
  <2>3. Waiting'[k] = IF at < m THEN b[at + 1] ELSE data[p]
    <3>1. data'[p] = IF at < m THEN b[at + 1] ELSE data[p]
      <4>1. (p + size) - ((i + s) % size) = p + size - ((i + s) % size)
        <5>1. (i + s) % size \in 0..(size - 1)
          BY <1>1
        <5> HIDE DEF p
        <5> QED BY <1>1, <2>1, <5>1
      <4> HIDE DEF p, at
      <4> QED BY <1>3, <2>0, <2>1, <4>1 DEF Stored, m
    <3> HIDE DEF p, at
    <3> QED BY <1>5, <2>0, <3>1
  <2> HIDE DEF p, at, t
  <2>4. CASE t >= s
    <3>1. Waiting'[k] = b[(t - s) + 1]
      BY <2>1, <2>3, <2>4
    <3>2. b[(t - s) + 1] = block[(n - m) + ((t - s) + 1)]
      BY <1>1, <1>2, <1>6, <2>2, <2>4
    <3>3. all[low + k - 1] = block[(low + k - 1) - s]
      BY <1>1, <1>2, <1>4, <1>6, <2>2, <2>4
    <3>4. (low + k - 1) - s = (n - m) + ((t - s) + 1)
      BY <1>1, <1>2, <1>6, <2>2
    <3> QED BY <1>9, <3>1, <3>2, <3>3, <3>4
  <2>5. CASE t < s
    <3>1. n = m
      <4>1. drop = s \/ n = m
        BY <1>1, <1>2, <1>6 DEF drop
      <4>2. t >= drop
        BY <1>6, <2>0
      <4> QED BY <1>1, <2>5, <4>1, <4>2, <2>2
    <3>2. low + k - 1 = t + 1 /\ t + 1 \in 1..s /\ t + 1 <= s + n
      BY <1>1, <1>2, <2>2, <2>5, <3>1
    <3>3. all[t + 1] = Waiting[t + 1]
      BY <1>1, <1>2, <1>4, <3>2
    <3>4. Waiting[t + 1] = data[(i + t) % size]
      <4>1. i + (t + 1) - 1 = i + t
        BY <1>1, <2>2
      <4> QED BY <1>5, <3>2, <4>1
    <3>5. Waiting'[k] = data[(i + t) % size]
      BY <1>6, <2>1, <2>3, <2>5
    <3> QED BY <1>9, <3>2, <3>3, <3>4, <3>5
  <2>6. t >= s \/ t < s
    BY <1>1, <2>2
  <2> QED BY <2>4, <2>5, <2>6
<1>11. Waiting' = SubSeq(all, low, s + n)
  BY <1>5, <1>9, <1>10, SeqEqual
<1> QED BY <1>8, <1>11 DEF all

\* snd_callback takes a period: its oldest samples, then silence.
LEMMA FillIsTake ==
  ASSUME SoundTypeOK, SoundTypeOK', FillStream
  PROVE  Fifo!Take(period)
<1> DEFINE got == Available(period)
<1>1. size \in Nat /\ size > 0 /\ s \in 0..size /\ i \in 0..(size - 1) /\ period \in Nat
  BY DEF SoundTypeOK, FillStream
<1>2. got \in 0..s /\ got <= period
  BY <1>1 DEF Available
<1>3. /\ stream' = Oldest(got) \o [k \in 1..(period - got) |-> Silence]
      /\ i' = (i + got) % size /\ s' = s - got /\ UNCHANGED <<size, data>>
  BY DEF FillStream
<1>4. /\ Waiting \in Seq(Samples) /\ Len(Waiting) = s
      /\ \A k \in 1..s : Waiting[k] = data[(i + k - 1) % size]
      /\ Waiting' \in Seq(Samples) /\ Len(Waiting') = s'
      /\ \A k \in 1..s' : Waiting'[k] = data[(i' + k - 1) % size]
  BY <1>3, WaitingType, WaitingTypeNext
<1>5. got = Fifo!Least(period, Len(Waiting))
  BY <1>1, <1>4 DEF Available, Fifo!Least
<1> HIDE DEF got
<1>6. Oldest(got) = SubSeq(Waiting, 1, got)
  <2>1. \A k \in 1..got : Waiting[k] \in Samples
    BY <1>1, <1>2, <1>4, ElementOfSeq
  <2>2. /\ SubSeq(Waiting, 1, got) \in Seq(Samples)
        /\ Len(SubSeq(Waiting, 1, got)) = (IF 1 <= got THEN got - 1 + 1 ELSE 0)
        /\ \A k \in 1..(got - 1 + 1) : SubSeq(Waiting, 1, got)[k] = Waiting[1 + k - 1]
    BY <1>1, <1>2, <2>1, SubSeqProperties
  <2>3. /\ Len(SubSeq(Waiting, 1, got)) = got
        /\ \A k \in 1..got : SubSeq(Waiting, 1, got)[k] = data[(i + k - 1) % size]
    <3>1. got - 1 + 1 = got /\ got \in Nat
      BY <1>1, <1>2
    <3>2. \A k \in 1..got : 1 + k - 1 = k /\ k \in 1..s
      BY <1>1, <1>2
    <3> QED BY <1>4, <2>2, <3>1, <3>2
  <2>4. Oldest(got) \in [1..got -> Samples]
    <3>1. ASSUME NEW k \in 1..got PROVE data[(i + k - 1) % size] \in Samples
      <4>1. k \in 1..s
        BY <1>1, <1>2
      <4>2. Waiting[k] = data[(i + k - 1) % size]
        BY ONLY <1>4, <4>1
      <4>3. Waiting[k] \in Samples
        BY ONLY <2>1, k \in 1..got
      <4> QED BY ONLY <4>2, <4>3
    <3> QED BY <3>1 DEF Oldest
  <2>5. Oldest(got) \in Seq(Samples)
    BY <1>2, <2>4, SeqDef
  <2>6. Len(Oldest(got)) = got
    <3>1. DOMAIN Oldest(got) = 1..got
      BY DEF Oldest
    <3>2. DOMAIN Oldest(got) = 1..Len(Oldest(got)) /\ Len(Oldest(got)) \in Nat
      BY <2>5, LenProperties
    <3> QED BY <1>2, <3>1, <3>2
  <2>7. \A k \in 1..got : Oldest(got)[k] = data[(i + k - 1) % size]
    BY DEF Oldest
  <2> QED BY <2>2, <2>3, <2>5, <2>6, <2>7, SeqEqual
<1>7. Waiting' = SubSeq(Waiting, got + 1, Len(Waiting))
  <2>1. \A k \in got + 1..s : Waiting[k] \in Samples
    BY <1>1, <1>2, <1>4, ElementOfSeq
  <2>2. /\ SubSeq(Waiting, got + 1, s) \in Seq(Samples)
        /\ Len(SubSeq(Waiting, got + 1, s)) = (IF got + 1 <= s THEN s - (got + 1) + 1 ELSE 0)
        /\ \A k \in 1..(s - (got + 1) + 1) :
             SubSeq(Waiting, got + 1, s)[k] = Waiting[got + 1 + k - 1]
    <3>1. got + 1 \in Int /\ s \in Int
      BY <1>1, <1>2
    <3> QED BY <2>1, <3>1, SubSeqProperties
  <2>3. s - (got + 1) + 1 = s' /\ s' \in Nat /\ (got + 1 <= s \/ s' = 0)
    BY <1>1, <1>2, <1>3
  <2>4. ASSUME NEW k \in 1..s'
        PROVE  Waiting'[k] = SubSeq(Waiting, got + 1, s)[k]
    <3>1. /\ got + 1 + k - 1 = got + k /\ got + k \in 1..s /\ i' + k - 1 = (i' + k) - 1
          /\ i + (got + k) - 1 = ((i + got) + k) - 1 /\ i' \in Nat
      BY <1>1, <1>2, <1>3
    <3>2. ((i' + k) - 1) % size = (((i + got) + k) - 1) % size
      <4>1. i' = IF i + got < size THEN i + got ELSE (i + got) - size
        <5>1. i + got \in Nat /\ i + got < 2 * size
          BY <1>1, <1>2
        <5> QED BY <1>1, <1>3, <5>1, ModOnce
      <4>2. ((i' + k) - 1) \in Nat /\ ((i' + k) - 1) < 2 * size
        BY <1>1, <1>2, <1>3, <4>1
      <4>3. (((i + got) + k) - 1) \in Nat /\ (((i + got) + k) - 1) < 2 * size
        BY <1>1, <1>2, <1>3
      <4>4. ((i' + k) - 1) % size
              = IF ((i' + k) - 1) < size THEN (i' + k) - 1 ELSE ((i' + k) - 1) - size
        BY <1>1, <4>2, ModOnce
      <4>5. (((i + got) + k) - 1) % size
              = IF (((i + got) + k) - 1) < size THEN ((i + got) + k) - 1
                ELSE (((i + got) + k) - 1) - size
        BY <1>1, <4>3, ModOnce
      <4> QED BY <1>1, <1>2, <1>3, <4>1, <4>4, <4>5
    <3>3. Waiting[got + k] = data[(i + (got + k) - 1) % size]
      BY <1>4, <3>1
    <3>4. Waiting'[k] = data[(i' + k - 1) % size]
      BY <1>4
    <3>5. SubSeq(Waiting, got + 1, s)[k] = Waiting[got + k]
      BY <2>2, <2>3, <3>1
    <3> QED BY <3>1, <3>2, <3>3, <3>4, <3>5
  <2>5. Len(SubSeq(Waiting, got + 1, s)) = s'
    BY <2>2, <2>3
  <2> QED BY <1>4, <2>2, <2>4, <2>5, SeqEqual
<1> QED BY <1>1, <1>3, <1>5, <1>6, <1>7 DEF Fifo!Take

\* What the buffer and the device were opened with.
OpenedWith ==
  /\ period > 0 => \E d \in Devices : period = Channels * d.period
  /\ size > 0 => \E d \in Devices : frameLen = d.len

FifoInv == SoundInv /\ OpenedWith

\* An empty queue, whatever the buffer.
LEMMA NothingWaits ==
  ASSUME SoundTypeOK', s' = 0 PROVE Waiting' = <<>>
<1>1. Waiting' \in Seq(Samples) /\ Len(Waiting') = 0
  BY WaitingTypeNext
<1> QED BY <1>1, EmptySeq

LEMMA FifoStep ==
  ASSUME FifoInv, SoundInv', [SoundNext]_soundVars
  PROVE  OpenedWith' /\ [Fifo!FifoNext]_(Fifo!fifoVars)
<1> USE DEF Fifo!fifoVars
<1>0. SoundTypeOK /\ SoundTypeOK'
  BY DEF FifoInv, SoundInv
<1>1. ASSUME NEW block \in BlocksOf(Channels * frameLen), Frame(block)
      PROVE  OpenedWith' /\ [Fifo!FifoNext]_(Fifo!fifoVars)
  <2>1. UNCHANGED <<size, period, frameLen, stream>>
    BY <1>1 DEF Frame
  <2>2. OpenedWith'
    BY <2>1 DEF OpenedWith, FifoInv
  <2>3. CASE size = 0
    <3>1. UNCHANGED <<i, s, size, data>>
      BY <1>1, <2>3 DEF Frame
    <3> QED BY <2>1, <2>2, <3>1, WaitingStays
  <2>4. CASE size # 0
    <3>1. size > 0 /\ CbufWrite(block)
      BY <1>0, <1>1, <2>4 DEF Frame, SoundTypeOK
    <3>2. block \in Seq(Samples)
      <4>1. Channels * frameLen \in Nat
        BY <1>0 DEF SoundTypeOK, Channels
      <4> QED BY <4>1, SeqDef DEF BlocksOf
    <3>3. Waiting' = Fifo!Latest(Waiting \o block, size)
      BY <1>0, <2>1, <3>1, <3>2, WriteIsPut
    <3>4. block \in UNION {BlocksOf(Channels * d.len) : d \in Devices}
      BY <3>1 DEF FifoInv, OpenedWith
    <3>5. Fifo!Put(block)
      BY <2>1, <3>3 DEF Fifo!Put
    <3> QED BY <2>2, <3>4, <3>5 DEF Fifo!FifoNext
  <2> QED BY <2>3, <2>4
<1>2. CASE MixFaults \/ FillFaults \/ UNCHANGED soundVars
  <2>1. UNCHANGED <<i, s, size, data, period, frameLen, stream>>
    BY <1>2 DEF MixFaults, FillFaults, soundVars
  <2>2. Waiting' = Waiting
    BY <2>1, WaitingStays
  <2> QED BY <2>1, <2>2 DEF FifoInv, OpenedWith
<1>3. CASE FillStream
  <2>1. Fifo!Take(period)
    BY <1>0, <1>3, FillIsTake
  <2>2. period \in {Channels * d.period : d \in Devices}
    BY <1>3 DEF FillStream, FifoInv, OpenedWith
  <2>3. UNCHANGED <<period, size, frameLen>>
    BY <1>3 DEF FillStream
  <2>4. OpenedWith'
    BY <2>3 DEF FifoInv, OpenedWith
  <2> QED BY <2>1, <2>2, <2>4 DEF Fifo!FifoNext
<1>4. ASSUME Closed, UNCHANGED stream
      PROVE  OpenedWith' /\ [Fifo!FifoNext]_(Fifo!fifoVars)
  <2>1. size' = 0 /\ s' = 0 /\ period' = 0
    BY <1>4 DEF Closed
  <2>2. Waiting' = <<>>
    BY <1>0, <2>1, NothingWaits
  <2>3. Fifo!Close
    BY <1>4, <2>1, <2>2 DEF Fifo!Close
  <2> QED BY <2>1, <2>3 DEF OpenedWith, Fifo!FifoNext
<1>5. ASSUME NEW d \in Devices, NEW n \in Segments, Opened(d, n), UNCHANGED stream
      PROVE  OpenedWith' /\ [Fifo!FifoNext]_(Fifo!fifoVars)
  <2>1. size' = BufferSize(d, n) /\ s' = 0 /\ period' = Channels * d.period /\ frameLen' = d.len
    BY <1>5 DEF Opened
  <2>2. Waiting' = <<>>
    BY <1>0, <2>1, NothingWaits
  <2>3. Fifo!Open(BufferSize(d, n))
    BY <1>5, <2>1, <2>2 DEF Fifo!Open
  <2>4. OpenedWith'
    BY <2>1 DEF OpenedWith
  <2> QED BY <2>3, <2>4 DEF Fifo!FifoNext
<1>6. CASE SoundOn \/ SoundOff
  BY <1>4, <1>5, <1>6 DEF SoundOn, SoundOff, Refused, GivenUp
<1> QED BY <1>1, <1>2, <1>3, <1>6 DEF SoundNext

\* For every size of frame, period and buffer, also one that is smaller than a
\* frame, cbuf_write and cbuf_read are the two ends of a queue of the latest
\* samples: the circular buffer loses the oldest ones only, and plays no sample
\* twice or out of order, across its end, overruns and reopenings.
THEOREM BufferImplementsFifo == SoundSpec => PlaysLatestInOrder
<1>1. SoundInit => Fifo!FifoInit /\ OpenedWith
  <2> SUFFICES ASSUME SoundInit PROVE Fifo!FifoInit /\ OpenedWith
    OBVIOUS
  <2>1. Waiting = <<>>
    <3>1. Waiting = [k \in 1..0 |-> data[(i + k - 1) % size]]
      BY DEF Waiting, SoundInit
    <3> QED BY <3>1
  <2> QED BY <2>1 DEF SoundInit, Fifo!FifoInit, OpenedWith
<1>2. SoundInv /\ OpenedWith /\ SoundInv' /\ [SoundNext]_soundVars
        => OpenedWith' /\ [Fifo!FifoNext]_(Fifo!fifoVars)
  BY FifoStep DEF FifoInv
<1> QED BY <1>1, <1>2, SoundInvInductive, PTL DEF SoundSpec, PlaysLatestInOrder, Fifo!FifoSpec

-----------------------------------------------------------------------------
(* The screen thread: no picture is flipped while it is drawn.              *)

\* The states of the screen thread in which it holds the lock, and those of
\* the emulator's thread in which it is stopping the other.
Inside == {"check", "committed", "updating"}
Stopping == {"stopping", "joining", "leaving", "ending"}

\* Why no picture is torn: the lock names the thread that is inside, and
\* there is a thread exactly as long as is_thread says so.
LockInv ==
  /\ depth \in Nat
  /\ depth > 0 <=> holder = "main"
  /\ worker \in Inside <=> holder = "worker"
  /\ isThread /\ main = "drawing" => depth > 0
  /\ worker # "none" <=> isThread = TRUE
  /\ main \in Stopping => isThread = TRUE
  /\ main = "setting" => isThread = FALSE
  /\ isThread = TRUE /\ main \notin Stopping => wantThread = TRUE
  /\ worker = "gone" => main \in Stopping /\ holder = "nobody"

LEMMA LockInvInductive == ScreenSpec => []LockInv
<1> USE DEF LockInv, Inside, Stopping
<1>1. ScreenInit => LockInv
  BY DEF ScreenInit
<1>2. LockInv /\ [ScreenNext]_screenVars => LockInv'
  <2> SUFFICES ASSUME LockInv, [ScreenNext]_screenVars PROVE LockInv'
    OBVIOUS
  <2>1. CASE WorkerLock
    BY <2>1 DEF WorkerLock
  <2>2. CASE WorkerCheck
    BY <2>2 DEF WorkerCheck
  <2>3. CASE WorkerWait
    BY <2>3 DEF WorkerWait
  <2>4. CASE WorkerRelock
    BY <2>4 DEF WorkerRelock
  <2>5. CASE WorkerUpdate
    BY <2>5 DEF WorkerUpdate
  <2>6. CASE WorkerWakesAlone
    BY <2>6 DEF WorkerWakesAlone
  <2>7. CASE Draw
    BY <2>7 DEF Draw
  <2>8. CASE ScreenLock
    BY <2>8 DEF ScreenLock, CanLock, Take
  <2>9. CASE ScreenLockFails
    BY <2>9 DEF ScreenLockFails, CanLock, Take
  <2>10. CASE ScreenUnlock
    BY <2>10 DEF ScreenUnlock, Release
  <2>11. CASE ScreenUpdate
    BY <2>11 DEF ScreenUpdate, Signalled
  <2>12. CASE Stop
    BY <2>12 DEF Stop
  <2>13. CASE StopSignal
    BY <2>13 DEF StopSignal, Signalled
  <2>14. CASE Join
    BY <2>14 DEF Join, Exited
  <2>15. CASE ScreenSet
    <3>1. worker = "none" /\ holder # "worker" /\ isThread = FALSE
      BY <2>15 DEF ScreenSet
    <3>2. CASE StartThread
      BY <2>15, <3>1, <3>2 DEF ScreenSet, StartThread
    <3>3. CASE wantThread' = FALSE /\ UNCHANGED <<worker, isThread>>
      BY <2>15, <3>1, <3>3 DEF ScreenSet
    <3> QED BY <2>15, <3>2, <3>3 DEF ScreenSet
  <2>16. CASE ScreenSetFails
    BY <2>16 DEF ScreenSetFails
  <2>17. CASE UNCHANGED screenVars
    BY <2>17 DEF screenVars
  <2>18. CASE SurfaceUnlock
    BY <2>18 DEF SurfaceUnlock
  <2> QED BY <2>1, <2>2, <2>3, <2>4, <2>5, <2>6, <2>7, <2>8, <2>9, <2>10,
             <2>11, <2>12, <2>13, <2>14, <2>15, <2>16, <2>17, <2>18
          DEF ScreenNext, Worker
<1> HIDE DEF LockInv, Inside, Stopping
<1> QED BY <1>1, <1>2, PTL DEF ScreenSpec

\* SDL_Flip never runs while the emulator writes pixels into the buffer, in
\* either thread; that the surface's own lock is free then is not claimed.
THEOREM NoTornPictureAlways == ScreenSpec => []NoTornPicture
<1>1. LockInv => NoTornPicture
  BY DEF LockInv, Inside, NoTornPicture
<1> QED BY <1>1, LockInvInductive, PTL

\* SDL_DestroyMutex and SDL_DestroyCond find the mutex free and the thread
\* gone, also when a failing surface has left the mutex locked.
THEOREM NobodyLeftInsideAlways == ScreenSpec => NobodyLeftInside
<1> DEFINE Left == isThread /\ ~isThread' => holder = "nobody" /\ worker = "gone"
<1>1. LockInv /\ [ScreenNext]_screenVars => [Left]_screenVars
  <2> SUFFICES ASSUME LockInv, ScreenNext, isThread, ~isThread'
               PROVE  holder = "nobody" /\ worker = "gone"
    BY DEF screenVars
  <2>1. Join
    BY DEF LockInv, Stopping, ScreenNext, Worker, WorkerLock, WorkerCheck,
           WorkerWait, WorkerRelock, WorkerUpdate, WorkerWakesAlone, Draw,
           ScreenLock, ScreenLockFails, ScreenUnlock, SurfaceUnlock, ScreenUpdate, Stop,
           StopSignal, ScreenSet, ScreenSetFails
  <2> QED BY <2>1 DEF Join, Exited, LockInv
<1> QED BY <1>1, LockInvInductive, PTL DEF ScreenSpec, NobodyLeftInside

\* The lock is recursive: at most DepthBound failures are left on it, and the
\* drawing that follows adds one.
ScreenTypeInv ==
  /\ ScreenTypeOK
  /\ (main = "drawing" /\ isThread) \/ depth \in 0..DepthBound

LEMMA ScreenTypeStep ==
  LockInv /\ ScreenTypeInv /\ [ScreenNext]_screenVars => ScreenTypeInv'
<1> USE ScreenAssumption DEF ScreenTypeInv, ScreenTypeOK, MainStates, WorkerStates, DepthBound
<1> SUFFICES ASSUME LockInv, ScreenTypeInv, [ScreenNext]_screenVars PROVE ScreenTypeInv'
  OBVIOUS
<1>1. CASE Worker \/ WorkerWakesAlone
  <2>1. refused' \in BOOLEAN
    BY <1>1, Zenon DEF Worker, WorkerLock, WorkerCheck, WorkerWait, WorkerRelock,
       WorkerUpdate, WorkerWakesAlone
  <2> QED
    BY <1>1, <2>1 DEF Worker, WorkerLock, WorkerCheck, WorkerWait, WorkerRelock,
       WorkerUpdate, WorkerWakesAlone
<1>2. CASE Draw
  BY <1>2 DEF Draw
<1>3. CASE ScreenLock
  BY <1>3 DEF ScreenLock, Take
<1>4. CASE ScreenLockFails
  BY <1>4 DEF ScreenLockFails, Take
<1>5. CASE ScreenUnlock
  <2>1. isThread => depth > 0
    BY <1>5 DEF ScreenUnlock, LockInv
  <2>2. CASE isThread
    BY <1>5, <2>1, <2>2 DEF ScreenUnlock, Release
  <2>3. CASE ~isThread
    BY <1>5, <2>3 DEF ScreenUnlock, Release
  <2> QED BY <2>2, <2>3
<1>6. CASE ScreenUpdate \/ StopSignal
  <2>1. refused' \in BOOLEAN
    BY <1>6, Zenon DEF ScreenUpdate, StopSignal
  <2> QED BY <1>6, <2>1 DEF ScreenUpdate, StopSignal, Signalled
<1>7. CASE Stop \/ Join
  BY <1>7 DEF Stop, Join
<1>8. CASE ScreenSet \/ ScreenSetFails
  BY <1>8 DEF ScreenSet, StartThread, ScreenSetFails
<1>9. CASE SurfaceUnlock
  BY <1>9 DEF SurfaceUnlock
<1>10. CASE UNCHANGED screenVars
  BY <1>10 DEF screenVars
<1> QED BY <1>1, <1>2, <1>3, <1>4, <1>5, <1>6, <1>7, <1>8, <1>9, <1>10 DEF ScreenNext

\* Both threads are in one of their states and the lock is as deep as failures
\* can leave it, for every number of pictures.
THEOREM ScreenTypeCorrect == ScreenSpec => []ScreenTypeOK
<1>1. ScreenInit => ScreenTypeInv
  <2> SUFFICES ASSUME ScreenInit PROVE ScreenTypeInv
    OBVIOUS
  <2>1. wantThread \in BOOLEAN /\ isThread \in BOOLEAN /\ refused \in BOOLEAN
    BY Zenon DEF ScreenInit
  <2>2. depth \in 0..DepthBound + 1 /\ depth \in 0..DepthBound /\ drawn \in 0..MaxPictures
        /\ shown \in 0..drawn
    BY ScreenAssumption DEF ScreenInit, DepthBound
  <2>3. main \in MainStates /\ worker \in WorkerStates /\ holder \in {"nobody", "main", "worker"}
    BY DEF ScreenInit, MainStates, WorkerStates
  <2> QED BY <2>1, <2>2, <2>3 DEF ScreenTypeInv, ScreenTypeOK
<1>2. ScreenTypeInv => ScreenTypeOK
  BY DEF ScreenTypeInv
<1> QED BY <1>1, <1>2, ScreenTypeStep, LockInvInductive, PTL DEF ScreenSpec
=============================================================================
