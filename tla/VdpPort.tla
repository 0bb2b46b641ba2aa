------------------------------ MODULE VdpPort -------------------------------
(***************************************************************************)
(* The ports of the video chip (vdp.cpp, mem.cpp): the control port takes  *)
(* register writes and commands in two halves, the data port reads and     *)
(* writes the memory the command names, and a write marks what it changed  *)
(* in the dirty flags the renderer consults.                               *)
(*                                                                         *)
(* Memory is counted in words.  An address is Low positions (A13-A0) under *)
(* two high bits (A15-A14); video RAM has 2 * Low of them.  CRAM is one    *)
(* entry, VSRAM, which nothing is derived from, is left out, but its mode  *)
(* is not.                                                                 *)
(***************************************************************************)
EXTENDS Integers

CONSTANTS Low,        \* addresses the first half of a command can tell apart
          Links,      \* what a word of video RAM may hold
          Colours,    \* what the entry of CRAM may hold
          Bases,      \* the values of register 5 (sprite table)
          DmaLength   \* registers 0x13 and 0x14

ASSUME VdpAssumption ==
  /\ Low \in Nat \ {0} /\ DmaLength \in Nat
  /\ DmaLength <= 2 * Low
  /\ 0 \in Links /\ 0 \in Bases
  /\ Colours # {}

VramSize == 2 * Low
Cells == 0..(VramSize - 1)

VARIABLES
  pending,    \* cmd_pending
  mode,       \* rw_mode
  addr,       \* rw_addr & 0xffff
  dma,        \* rw_dma
  dmaMode,    \* register 0x17: "fill", or "move" from the bus or video RAM
  base,       \* register 5
  wide,       \* register 12, bit 0: H40
  displayOn,  \* register 1, bit 6
  vram, cram,
  dirtyVram, dirtyCram, dirtyBase   \* dirt[0x34] & 1, & 2, dirt[0x30] & 0x20

portVars == <<pending, mode, addr, dma>>
regVars == <<dmaMode, base, wide, displayOn>>
memVars == <<vram, cram>>
dirtVars == <<dirtyVram, dirtyCram, dirtyBase>>
vdpVars == <<portVars, regVars, memVars, dirtVars>>

\* The codes of the modes: CD1-CD0 come with the first half of a command,
\* CD4-CD2 with the second.
ReadVram == 0
WriteVram == 4
WriteCram == 12
FirstCodes == {ReadVram, WriteVram, WriteCram}
SecondCodes == {0, 16}      \* CD2 turns 4 into a VSRAM write, 12 into nothing
Modes == {f + s : f \in FirstCodes, s \in SecondCodes}

\* md_vdp::reset clears memory and registers and marks everything.
Cleared ==
  /\ pending' = FALSE /\ mode' = ReadVram /\ addr' = 0 /\ dma' = FALSE
  /\ dmaMode' = "move" /\ base' = 0 /\ wide' = FALSE /\ displayOn' = FALSE
  /\ vram' = [a \in Cells |-> 0] /\ cram' \in Colours
  /\ dirtyVram' = TRUE /\ dirtyCram' = TRUE /\ dirtyBase' = TRUE

PortInit ==
  /\ pending = FALSE /\ mode = ReadVram /\ addr = 0 /\ dma = FALSE
  /\ dmaMode = "move" /\ base = 0 /\ wide = FALSE /\ displayOn = FALSE
  /\ vram = [a \in Cells |-> 0] /\ cram \in Colours
  /\ dirtyVram = TRUE /\ dirtyCram = TRUE /\ dirtyBase = TRUE

-----------------------------------------------------------------------------
(* putword, for one word and for the n words of a transfer, and what it     *)
(* marks.  Every entry of CRAM shares one flag, so a write of another entry *)
(* marks it too.                                                            *)

\* Video RAM after words went to consecutive addresses from start: the last
\* one written to a cell stays.
Stored(start, n, words) ==
  [a \in Cells |->
     LET ks == {k \in 0..(n - 1) : (start + k) % VramSize = a}
     IN  IF ks = {} THEN vram[a]
                    ELSE words[CHOOSE k \in ks : \A j \in ks : j <= k]]

MarksFirstCell(start, new) == dirtyVram \/ new[start] # vram[start]
MarksVram(start, new) == dirtyVram \/ new # vram
MarksNothing(new) == dirtyCram
MarksCram(new) == dirtyCram \/ new # cram

\* n increments after an address; register 15 holds one word.
AfterUnbounded(start, n) == start + n
After(start, n) == (start + n) % VramSize

PutWords(start, code, n, words, colour) ==
  /\ IF code = WriteVram /\ n > 0
       THEN LET new == Stored(start, n, words)
            IN  vram' = new /\ dirtyVram' = MarksVram(start, new)
       ELSE UNCHANGED <<vram, dirtyVram>>
  /\ IF code = WriteCram /\ n > 0
       THEN cram' = colour /\ dirtyCram' \in {MarksCram(colour), TRUE}
       ELSE UNCHANGED <<cram, dirtyCram>>
  /\ addr' = After(start, n)
  /\ UNCHANGED dirtyBase

-----------------------------------------------------------------------------
(* The data port                                                            *)

\* writeword: a plain write, a fill, or nothing while the code of another
\* transfer is still in place.
WriteData(word, colour) ==
  /\ \/ ~dma /\ PutWords(addr, mode, 1, [k \in {0} |-> word], colour)
     \/ /\ dma /\ dmaMode = "fill"
        /\ PutWords(addr, mode, DmaLength,
                    [k \in 0..(DmaLength - 1) |-> word], colour)
     \/ dma /\ dmaMode # "fill" /\ UNCHANGED <<memVars, addr, dirtVars>>
  /\ pending' = FALSE
  /\ UNCHANGED <<mode, dma, regVars>>

\* readword and readbyte: the address moves, whatever the mode.
ReadData ==
  /\ addr' = After(addr, 1)
  /\ pending' = FALSE
  /\ UNCHANGED <<mode, dma, regVars, memVars, dirtVars>>

-----------------------------------------------------------------------------
(* The control port                                                         *)

\* m68k_VDP_read, one byte of the status.
ReadStatusByte ==
  /\ pending' = FALSE
  /\ UNCHANGED <<mode, addr, dma, regVars, memVars, dirtVars>>

\* misc_readword returns the status and leaves the flag alone.
ReadStatusWord == UNCHANGED <<portVars, regVars, memVars, dirtVars>>

FirstHalf(code, low) ==
  /\ ~pending
  /\ addr' = (addr \div Low) * Low + low
  /\ mode' = code
  /\ dma' = FALSE
  /\ pending' = TRUE
  /\ UNCHANGED <<regVars, memVars, dirtVars>>

\* command, second half: a transfer from the bus or within video RAM is done
\* at once, with the address and the mode this half completes; its words may
\* be any.
SecondHalf(code, high, wantsDma) ==
  /\ pending
  /\ pending' = FALSE
  /\ mode' = mode + code
  /\ dma' = wantsDma
  /\ LET start == (high * Low) + (addr % Low)
     IN  IF wantsDma /\ dmaMode # "fill"
           THEN \E words \in [0..(DmaLength - 1) -> Links], colour \in Colours :
                  PutWords(start, mode + code, DmaLength, words, colour)
           ELSE addr' = start /\ UNCHANGED <<memVars, dirtVars>>
  /\ UNCHANGED regVars

\* write_reg, only when no half is pending; its registers of interest.  It
\* clears rw_mode, but not CD5, which is in rw_dma.
WriteRegister ==
  /\ ~pending
  /\ mode' = ReadVram
  /\ \/ /\ base' \in Bases
        /\ dirtyBase' = (dirtyBase \/ base' # base)
        /\ UNCHANGED <<dmaMode, wide, displayOn>>
     \/ /\ wide' \in BOOLEAN
        /\ UNCHANGED <<dmaMode, base, displayOn, dirtyBase>>
     \/ /\ displayOn' \in BOOLEAN
        /\ UNCHANGED <<dmaMode, base, wide, dirtyBase>>
     \/ /\ dmaMode' \in {"move", "fill"}
        /\ UNCHANGED <<base, wide, displayOn, dirtyBase>>
  /\ UNCHANGED <<pending, addr, dma, memVars, dirtyVram, dirtyCram>>

PortStep ==
  \/ \E word \in Links, colour \in Colours : WriteData(word, colour)
  \/ ReadData \/ ReadStatusByte \/ ReadStatusWord
  \/ \E code \in FirstCodes, low \in 0..(Low - 1) : FirstHalf(code, low)
  \/ \E code \in SecondCodes, high \in {0, 1}, wantsDma \in BOOLEAN :
       SecondHalf(code, high, wantsDma)
  \/ WriteRegister

-----------------------------------------------------------------------------
PortTypeOK ==
  /\ pending \in BOOLEAN /\ dma \in BOOLEAN
  /\ mode \in Modes /\ (pending => mode \in FirstCodes)
  /\ addr \in Cells
  /\ dmaMode \in {"move", "fill"} /\ base \in Bases
  /\ wide \in BOOLEAN /\ displayOn \in BOOLEAN
  /\ vram \in [Cells -> Links] /\ cram \in Colours
  /\ dirtyVram \in BOOLEAN /\ dirtyCram \in BOOLEAN /\ dirtyBase \in BOOLEAN

=============================================================================
