------------------------------ MODULE AudioFifo ------------------------------
(***************************************************************************)
(* What the sound buffer of sdl/sdl.cpp promises to the emulator, which     *)
(* puts one frame of samples at a time, and to the audio device, which      *)
(* takes a period at a time: a queue that keeps the most recent samples     *)
(* when it overflows, and that is completed with silence when it runs dry.  *)
(***************************************************************************)
EXTENDS Sequences, Naturals

CONSTANTS Samples,    \* the values one 16-bit sample may have
          Silence,    \* the sample the device plays when it has nothing else
          Capacities, \* the capacities the queue may be opened with
          Blocks,     \* the blocks of samples that may be put
          Periods     \* how many samples the device may take

VARIABLES capacity,   \* the most samples the queue may hold, 0 when closed
          queue,      \* the samples waiting to be played, the oldest first
          played      \* the samples of the last period the device took

fifoVars == <<capacity, queue, played>>

Least(m, n) == IF m < n THEN m ELSE n

\* The last n elements of s, all of s when it has no more than n.
Latest(s, n) == SubSeq(s, Len(s) - Least(n, Len(s)) + 1, Len(s))

FifoInit == capacity = 0 /\ queue = <<>> /\ played = <<>>

Open(c) == capacity' = c /\ queue' = <<>> /\ UNCHANGED played

Close == capacity' = 0 /\ queue' = <<>> /\ UNCHANGED played

Put(block) ==
  /\ queue' = Latest(queue \o block, capacity)
  /\ UNCHANGED <<capacity, played>>

Take(n) ==
  LET got == Least(n, Len(queue))
  IN  /\ capacity > 0
      /\ played' = SubSeq(queue, 1, got) \o [k \in 1..(n - got) |-> Silence]
      /\ queue' = SubSeq(queue, got + 1, Len(queue))
      /\ UNCHANGED capacity

FifoNext ==
  \/ \E c \in Capacities : Open(c)
  \/ Close
  \/ \E block \in Blocks : Put(block)
  \/ \E n \in Periods : Take(n)

FifoSpec == FifoInit /\ [][FifoNext]_fifoVars
=============================================================================
