----------------------------- MODULE SoundBuffer -----------------------------
(***************************************************************************)
(* The sound output of sdl/sdl.cpp: the emulator's thread mixes a frame of *)
(* sound into sndi.lr and appends it to the circular buffer sound.cbuf     *)
(* (pd_sound_write); SDL's audio thread drains that buffer one period at a *)
(* time (snd_callback); the configuration prompt closes the device and     *)
(* opens it again with other parameters (pd_sound_deinit, pd_sound_init).  *)
(*                                                                         *)
(* Both sides run under SDL's audio lock, and the device is closed before  *)
(* the buffer is freed and opened again before the callback is let loose,  *)
(* so each is one step here.  The unit is the 16-bit sample: a stereo      *)
(* frame is two of them, sizes in bytes are twice these.                   *)
(***************************************************************************)
EXTENDS Integers, Sequences

CONSTANTS Samples,    \* the values one 16-bit sample may have
          Silence,    \* 0, what calloc and the callback's memset store
          Devices,    \* the ways the device and the options may be set up
          Segments    \* the values the user gives dgen_soundsegs

\* asked: stereo frames per video frame at the rate the options ask for
\* (rate / hz); len: the same at the rate the device gives (sndi.len);
\* period: spec.samples, what the device takes at a time.
ASSUME SoundAssumption ==
  /\ Silence \in Samples
  /\ Devices \subseteq [asked : Nat, len : Nat \ {0}, period : Nat \ {0}]
  /\ Segments \subseteq Int

Channels == 2

VARIABLES
  i,          \* sound.cbuf.i, where the oldest sample is
  s,          \* sound.cbuf.s, how many samples wait
  size,       \* sound.cbuf.size, 0 when there is no buffer
  data,       \* sound.cbuf.data, indexed from 0
  period,     \* the samples the callback is asked for (0: device closed)
  room,       \* how many samples sndi.lr can hold, 0 when it is NULL
  frameLen,   \* sndi.len, in stereo frames
  wanted,     \* dgen_sound
  stream,     \* what the callback gave the device last
  faulted     \* a step met a buffer that is not there: the program is gone

soundVars == <<i, s, size, data, period, room, frameLen, wanted, stream,
               faulted>>

SoundInit ==
  /\ i = 0 /\ s = 0 /\ size = 0 /\ data = <<>>
  /\ period = 0 /\ room = 0 /\ frameLen = 0
  /\ wanted = TRUE
  /\ stream = <<>>
  /\ faulted = FALSE

-----------------------------------------------------------------------------
(* cbuf_write: the new samples overwrite the oldest ones.                   *)

\* Of a block larger than the buffer only its end is kept.
Fitting(block) ==
  IF Len(block) > size THEN SubSeq(block, Len(block) - size + 1, Len(block))
                       ELSE block

\* The data with block stored from the write index, around the end.
Stored(block) ==
  LET j == (i + s) % size
  IN  [p \in 0..(size - 1) |->
         LET k == (p + size - j) % size
         IN  IF k < Len(block) THEN block[k + 1] ELSE data[p]]

\* The oldest samples make room for the n new ones.
StartStays(n) == i
StartAfter(n) == IF n > size - s THEN (i + (n - (size - s))) % size ELSE i
SizeAfter(n) == IF n > size - s THEN size ELSE s + n

CbufWrite(all) ==
  LET block == Fitting(all)
  IN  /\ data' = Stored(block)
      /\ i' = StartAfter(Len(block))
      /\ s' = SizeAfter(Len(block))

-----------------------------------------------------------------------------
(* snd_callback with cbuf_read, in SDL's thread.                            *)

\* The n oldest samples.
Oldest(n) == [k \in 1..n |-> data[(i + k - 1) % size]]

Available(n) == IF n > s THEN s ELSE n

FillStream ==
  LET got == Available(period)
  IN  /\ period > 0 /\ size > 0
      /\ stream' = Oldest(got) \o [k \in 1..(period - got) |-> Silence]
      /\ i' = (i + got) % size
      /\ s' = s - got
      /\ UNCHANGED <<size, data, period, room, frameLen, wanted, faulted>>

\* The remainder modulo a size of zero.
FillFaults ==
  /\ period > 0 /\ size = 0
  /\ faulted' = TRUE
  /\ UNCHANGED <<i, s, size, data, period, room, frameLen, wanted, stream>>

-----------------------------------------------------------------------------
(* The emulator's thread: one_frame mixes a block, pd_sound_write queues it *)
(* when there is a buffer.  A frame the debugger cut short queues the       *)
(* previous block again, which is one of the blocks of this choice.         *)

\* SN76496Update_16_2 and the rest store 2 * len samples through sndi.lr.
MixFits == room = Channels * frameLen

Frame(block) ==
  /\ wanted /\ MixFits
  /\ Len(block) = Channels * frameLen
  /\ IF size = 0 THEN UNCHANGED <<i, s, data>> ELSE CbufWrite(block)
  /\ UNCHANGED <<size, period, room, frameLen, wanted, stream, faulted>>

MixFaults ==
  /\ wanted /\ ~MixFits
  /\ faulted' = TRUE
  /\ UNCHANGED <<i, s, size, data, period, room, frameLen, wanted, stream>>

-----------------------------------------------------------------------------
(* pd_sound_deinit and pd_sound_init, from main and from the prompt         *)

\* pd_sound_deinit: the frame buffer goes, its length stays behind.
Closed ==
  /\ i' = 0 /\ s' = 0 /\ size' = 0 /\ data' = <<>>
  /\ period' = 0 /\ room' = 0

\* SDL refuses the audio subsystem or the device: an early return.
Refused == Closed /\ UNCHANGED frameLen

\* The device has the wrong format or memory runs out: snd_error.
GivenUp == Closed /\ frameLen' = 0

\* In unsigned arithmetic: a sum below zero is more memory than there is.
BufferSizeMono(d, segments) == Channels * (segments * d.asked) + d.period
BufferSize(d, segments) == Channels * (segments * d.asked + d.period)

Opened(d, segments) ==
  /\ BufferSize(d, segments) >= 0
  /\ size' = BufferSize(d, segments)
  /\ i' = 0 /\ s' = 0
  /\ data' = [p \in 0..(size' - 1) |-> Silence]
  /\ period' = Channels * d.period
  /\ frameLen' = d.len
  /\ room' = Channels * d.len

SoundOn ==
  /\ wanted' = TRUE
  /\ \/ Refused
     \/ GivenUp
     \/ \E d \in Devices, segments \in Segments : Opened(d, segments)
  /\ UNCHANGED <<stream, faulted>>

SoundOff ==
  /\ wanted' = FALSE
  /\ Closed
  /\ UNCHANGED <<frameLen, stream, faulted>>

-----------------------------------------------------------------------------
BlocksOf(n) == [1..n -> Samples]

SoundNext ==
  /\ ~faulted
  /\ \/ \E block \in BlocksOf(Channels * frameLen) : Frame(block)
     \/ MixFaults
     \/ FillStream
     \/ FillFaults
     \/ SoundOn
     \/ SoundOff

SoundSpec == SoundInit /\ [][SoundNext]_soundVars

-----------------------------------------------------------------------------
(* Properties                                                               *)

SoundTypeOK ==
  /\ size \in Nat /\ s \in 0..size
  /\ i \in 0..size /\ (size > 0 => i < size)
  /\ data \in [0..(size - 1) -> Samples]
  /\ period \in Nat /\ room \in Nat /\ frameLen \in Nat
  /\ wanted \in BOOLEAN /\ faulted \in BOOLEAN
  /\ stream \in Seq(Samples)

\* However blocks overrun the buffer and periods drain it, both indices stay
\* on a boundary between stereo frames: left and right never change places.
ChannelsKept == i % Channels = 0 /\ s % Channels = 0 /\ size % Channels = 0

\* After the device is closed or could not be opened, "cleanup" leaves no
\* length without a buffer (snd_error clears sndi.len with sndi.lr): the next
\* frame is never mixed through a null pointer.
CleanupIsComplete == wanted => MixFits

\* The samples that wait, the oldest first.
Waiting == [k \in 1..s |-> data[(i + k - 1) % size]]

Fifo == INSTANCE AudioFifo WITH
          capacity <- size, queue <- Waiting, played <- stream,
          Capacities <- {BufferSize(d, n) : d \in Devices, n \in Segments},
          Blocks <- UNION {BlocksOf(Channels * d.len) : d \in Devices},
          Periods <- {Channels * d.period : d \in Devices}

\* Two threads, wrap-around and overruns notwithstanding, the emulator and
\* the device see a queue of the most recent samples: none is played twice,
\* out of order or after a newer one, and only the oldest are lost.
PlaysLatestInOrder == Fifo!FifoSpec
=============================================================================
