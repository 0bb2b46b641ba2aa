--------------------------- MODULE VdpLinesProofs ---------------------------
(***************************************************************************)
(* For every size of memory and of transfer, and every table of sprites:   *)
(* what the renderer keeps between lines is what it would compute anew.    *)
(*                                                                         *)
(* The invariant is inductive once the flags are known to be Boolean: an   *)
(* access that changes memory without a mark would break it, and so would  *)
(* a line that drops a mark without computing what the mark asked for.     *)
(***************************************************************************)
EXTENDS VdpLines, WellFoundedInduction, TLAPS

FlagsAreBoolean ==
  dirtyVram \in BOOLEAN /\ dirtyCram \in BOOLEAN /\ dirtyBase \in BOOLEAN

LinesInv == FlagsAreBoolean /\ cram \in Colours /\ PaletteIsCurrent /\ OrderIsCurrent

\* What an access to the ports may do to the flags and the memory.
MarksItsChanges ==
  /\ FlagsAreBoolean' /\ cram' \in Colours
  /\ (dirtyVram => dirtyVram') /\ (vram' # vram => dirtyVram')
  /\ (dirtyCram => dirtyCram') /\ (cram' # cram => dirtyCram')
  /\ (dirtyBase => dirtyBase') /\ (base' # base => dirtyBase')

-----------------------------------------------------------------------------
\* A transfer of any length to any address marks what it changes.
LEMMA PutWordsMarks ==
  ASSUME FlagsAreBoolean, cram \in Colours,
         NEW start, NEW code, NEW n, NEW words, NEW colour \in Colours,
         PutWords(start, code, n, words, colour), UNCHANGED base
  PROVE  MarksItsChanges
<1>1. /\ dirtyVram' \in BOOLEAN
      /\ (dirtyVram => dirtyVram') /\ (vram' # vram => dirtyVram')
  <2>1. CASE code = WriteVram /\ n > 0
    <3>1. vram' = Stored(start, n, words)
      BY <2>1, Zenon DEF PutWords
    <3>2. dirtyVram' = (dirtyVram \/ vram' # vram)
      BY <2>1, <3>1, Zenon DEF PutWords, MarksVram
    <3> QED BY <3>2, Zenon DEF FlagsAreBoolean
  <2>2. CASE ~(code = WriteVram /\ n > 0)
    BY <2>2, Zenon DEF PutWords, FlagsAreBoolean
  <2> QED BY <2>1, <2>2
<1>2. /\ dirtyCram' \in BOOLEAN
      /\ (dirtyCram => dirtyCram') /\ (cram' # cram => dirtyCram')
  <2>1. CASE code = WriteCram /\ n > 0
    <3>1. cram' = colour /\ dirtyCram' \in {dirtyCram \/ colour # cram, TRUE}
      BY <2>1, Zenon DEF PutWords, MarksCram
    <3>2. CASE dirtyCram' = (dirtyCram \/ cram' # cram)
      BY <3>2, Zenon DEF FlagsAreBoolean
    <3>3. CASE dirtyCram' = TRUE
      BY <3>3, Zenon
    <3> QED BY <3>1, <3>2, <3>3, Zenon
  <2>2. CASE ~(code = WriteCram /\ n > 0)
    BY <2>2, Zenon DEF PutWords, FlagsAreBoolean
  <2> QED BY <2>1, <2>2
<1>3. cram' \in Colours
  BY Zenon DEF PutWords
<1> QED BY <1>1, <1>2, <1>3 DEF PutWords, MarksItsChanges, FlagsAreBoolean

\* Nothing touched, nothing to mark.
LEMMA QuietMarks ==
  ASSUME FlagsAreBoolean, cram \in Colours, UNCHANGED <<memVars, dirtVars, base>>
  PROVE  MarksItsChanges
BY DEF MarksItsChanges, FlagsAreBoolean, memVars, dirtVars

\* Every access to the ports marks what it changes.
LEMMA PortMarks ==
  ASSUME FlagsAreBoolean, cram \in Colours, PortStep
  PROVE  MarksItsChanges
<1>1. ASSUME NEW word \in Links, NEW colour \in Colours,
             WriteData(word, colour)
      PROVE  MarksItsChanges
  <2>0. UNCHANGED base
    BY <1>1 DEF WriteData, regVars
  <2>1. CASE PutWords(addr, mode, 1, [k \in {0} |-> word], colour)
    BY <2>0, <2>1, PutWordsMarks
  <2>2. CASE PutWords(addr, mode, DmaLength,
                      [k \in 0..(DmaLength - 1) |-> word], colour)
    BY <2>0, <2>2, PutWordsMarks
  <2>3. CASE UNCHANGED <<memVars, addr, dirtVars>>
    BY <2>0, <2>3, QuietMarks
  <2> QED BY <1>1, <2>1, <2>2, <2>3 DEF WriteData
<1>2. CASE ReadData \/ ReadStatusByte \/ ReadStatusWord
  BY <1>2, QuietMarks DEF ReadData, ReadStatusByte, ReadStatusWord, regVars
<1>3. ASSUME NEW code \in FirstCodes, NEW low \in 0..(Low - 1),
             FirstHalf(code, low)
      PROVE  MarksItsChanges
  BY <1>3, QuietMarks DEF FirstHalf, regVars
<1>4. ASSUME NEW code \in SecondCodes, NEW high \in {0, 1},
             NEW wantsDma \in BOOLEAN, SecondHalf(code, high, wantsDma)
      PROVE  MarksItsChanges
  <2> DEFINE start == (high * Low) + (addr % Low)
  <2>0. UNCHANGED base
    BY <1>4 DEF SecondHalf, regVars
  <2>1. ASSUME NEW words \in [0..(DmaLength - 1) -> Links],
               NEW colour \in Colours,
               PutWords(start, mode + code, DmaLength, words, colour)
        PROVE  MarksItsChanges
    BY <2>0, <2>1, PutWordsMarks
  <2>2. CASE UNCHANGED <<memVars, dirtVars>>
    BY <2>0, <2>2, QuietMarks
  <2> QED BY <1>4, <2>1, <2>2, Zenon DEF SecondHalf
<1>5. CASE WriteRegister
  <2>1. UNCHANGED <<memVars, dirtyVram, dirtyCram>>
    BY <1>5 DEF WriteRegister
  <2>2. CASE dirtyBase' = (dirtyBase \/ base' # base)
    BY <2>1, <2>2, Zenon DEF MarksItsChanges, FlagsAreBoolean, memVars
  <2>3. CASE UNCHANGED <<base, dirtyBase>>
    BY <2>1, <2>3 DEF MarksItsChanges, FlagsAreBoolean, memVars
  <2> QED BY <1>5, <2>2, <2>3 DEF WriteRegister
<1> QED BY <1>1, <1>2, <1>3, <1>4, <1>5 DEF PortStep

-----------------------------------------------------------------------------
\* For what lies behind video RAM, the walk depends on the links in it and the
\* table's base only.
LEMMA WalkUnchanged ==
  ASSUME NEW max, NEW behind, UNCHANGED <<vram, base>>
  PROVE  Walk(max, behind)' = Walk(max, behind)
BY DEF Walk, Visited, LinkAt

\* Both limits are constants, and so their walks change with memory only.
LEMMA OrdersUnchanged ==
  ASSUME NEW behind, UNCHANGED <<vram, base>>
  PROVE  Orders(behind)' = Orders(behind)
BY WalkUnchanged DEF Orders

\* Memory changed under the caches, which stay as they were.
LEMMA MarkedKeeps ==
  ASSUME LinesInv, MarksItsChanges, UNCHANGED <<highpal, order>>
  PROVE  LinesInv'
<1>1. PaletteIsCurrent'
  BY DEF LinesInv, MarksItsChanges, PaletteIsCurrent
<1>2. ASSUME ~dirtyVram', ~dirtyBase'
      PROVE  \E behind \in Colours : order' \in Orders(behind)'
  <2>1. ~dirtyVram /\ ~dirtyBase /\ UNCHANGED <<vram, base>>
    BY <1>2 DEF MarksItsChanges
  <2>2. PICK behind \in Colours : order \in Orders(behind)
    BY <2>1 DEF LinesInv, OrderIsCurrent
  <2> QED BY <2>1, <2>2, OrdersUnchanged
<1>3. OrderIsCurrent'
  BY <1>2 DEF OrderIsCurrent
<1> QED BY <1>1, <1>3 DEF LinesInv, MarksItsChanges

\* A line drops a mark only as it computes what was marked.
LEMMA DrawKeeps ==
  ASSUME LinesInv, DrawScanline
  PROVE  LinesInv'
<1>0. UNCHANGED <<vram, cram, base>>
  BY DEF DrawScanline, memVars, regVars
<1>1. FlagsAreBoolean'
  BY DEF LinesInv, FlagsAreBoolean, DrawScanline, DrawPalette, DrawOrder
<1>2. PaletteIsCurrent'
  BY <1>0 DEF LinesInv, PaletteIsCurrent, DrawScanline, DrawPalette,
              PaletteDue
<1>3. ASSUME ~dirtyVram', ~dirtyBase'
      PROVE  \E behind \in Colours : order' \in Orders(behind)'
  <2>1. CASE displayOn /\ OrderDue
    <3>1. order' = Walk(MaxSprites, cram)
      BY <2>1 DEF DrawScanline, DrawOrder
    <3>2. PICK behind \in Colours : behind = cram
      BY DEF LinesInv
    <3>3. order' \in Orders(behind)
      BY <3>1, <3>2 DEF MaxSprites, Orders
    <3> QED BY <3>3, <1>0, OrdersUnchanged
  <2>2. CASE ~(displayOn /\ OrderDue)
    <3>1. UNCHANGED <<order, dirtyBase, dirtyVram>>
      BY <2>2 DEF DrawScanline, DrawOrder
    <3>2. PICK behind \in Colours : order \in Orders(behind)
      BY <3>1, <1>3 DEF LinesInv, OrderIsCurrent
    <3> QED BY <3>1, <3>2, <1>0, OrdersUnchanged
  <2> QED BY <2>1, <2>2
<1>4. OrderIsCurrent'
  BY <1>3 DEF OrderIsCurrent
<1> QED BY <1>0, <1>1, <1>2, <1>4 DEF LinesInv

LEMMA LinesInvStep == LinesInv /\ [LinesNext]_linesVars => LinesInv'
<1> SUFFICES ASSUME LinesInv, [LinesNext]_linesVars PROVE LinesInv'
  OBVIOUS
<1>1. CASE PortStep /\ UNCHANGED <<highpal, order>>
  BY <1>1, PortMarks, MarkedKeeps DEF LinesInv
<1>2. CASE DrawScanline
  BY <1>2, DrawKeeps
<1>3. CASE ResetVdp \/ LoadState
  <2>1. dirtyVram' = TRUE /\ dirtyCram' = TRUE /\ dirtyBase' = TRUE
    BY <1>3 DEF ResetVdp, Cleared, LoadState, MarksAll
  <2>2. CASE ResetVdp
    BY <2>1, <2>2 DEF LinesInv, PaletteIsCurrent, OrderIsCurrent, FlagsAreBoolean,
       ResetVdp, Cleared
  <2>3. CASE LoadState
    <3>1. PICK file \in Saves : cram' = file.cram
      BY <2>3 DEF LoadState
    <3>2. file.cram \in Colours
      BY LinesAssumption DEF LinesAssumption
    <3> QED BY <2>1, <3>1, <3>2 DEF LinesInv, PaletteIsCurrent, OrderIsCurrent,
            FlagsAreBoolean
  <2> QED BY <1>3, <2>2, <2>3
<1>4. CASE UNCHANGED linesVars
  <2>1. UNCHANGED <<memVars, dirtVars, base>> /\ UNCHANGED <<highpal, order>>
    BY <1>4 DEF linesVars, vdpVars, regVars
  <2> QED BY <2>1, QuietMarks, MarkedKeeps DEF LinesInv
<1> QED BY <1>1, <1>2, <1>3, <1>4 DEF LinesNext

-----------------------------------------------------------------------------
LEMMA LinesInvAlways == LinesSpec => []LinesInv
<1>1. LinesInit => LinesInv
  BY DEF LinesInit, PortInit, LinesInv, FlagsAreBoolean, PaletteIsCurrent,
         OrderIsCurrent
<1> QED BY <1>1, LinesInvStep, PTL DEF LinesSpec

\* Whatever accesses, resets and loads fall between lines, an unmarked palette
\* is CRAM's (draw_scanline, poke_cram).
THEOREM PaletteIsCurrentAlways == LinesSpec => []PaletteIsCurrent
<1>1. LinesInv => PaletteIsCurrent
  BY DEF LinesInv
<1> QED BY <1>1, LinesInvAlways, PTL

\* And an unmarked sprite order is that of the links in the table register 5
\* names, cut at one of the two limits, wherever the table lies: its links in
\* video RAM are those there now, and those behind it some that were there
\* (draw_scanline, poke_vram, write_reg).
THEOREM OrderIsCurrentAlways == LinesSpec => []OrderIsCurrent
<1>1. LinesInv => OrderIsCurrent
  BY DEF LinesInv
<1> QED BY <1>1, LinesInvAlways, PTL
-----------------------------------------------------------------------------
(* Types                                                                    *)

(* The least-number principle, and what the choice in Stored needs.        *)
LEMMA LeastOf ==
  ASSUME NEW T, T \subseteq Nat, T # {}
  PROVE  \E x \in T : \A y \in T : x <= y
<1> DEFINE R == OpToRel(<, Nat)
<1>1. PICK x \in T : \A y \in T : ~ (<<y, x>> \in R)
  BY NatLessThanWellFounded, WFMin
<1>2. \A y \in T : ~ (y < x)
  BY <1>1 DEF OpToRel
<1> QED BY <1>2

LEMMA LargestOf ==
  ASSUME NEW n \in Nat, NEW ks, ks \subseteq 0..(n - 1), ks # {}
  PROVE  \E k \in ks : \A j \in ks : j <= k
<1> DEFINE T == {n - 1 - k : k \in ks}
<1>0. \A k \in ks : k \in Nat /\ k <= n - 1
  OBVIOUS
<1>1. T \subseteq Nat
  BY <1>0
<1>2. T # {}
  OBVIOUS
<1>3. PICK x \in T : \A y \in T : x <= y
  BY <1>1, <1>2, LeastOf
<1>4. PICK k \in ks : x = n - 1 - k
  BY <1>3
<1>5. ASSUME NEW j \in ks PROVE j <= k
  <2>1. n - 1 - j \in T
    OBVIOUS
  <2>2. n - 1 - k <= n - 1 - j
    BY <1>3, <1>4, <2>1
  <2> QED BY <1>0, <2>2
<1> QED BY <1>5

\* Remainders of an address: both halves of a command stay in their range.
LEMMA SizesAreNat == Low \in Nat /\ Low > 0 /\ VramSize \in Nat /\ VramSize > 0
                       /\ Cells = 0..(VramSize - 1) /\ DmaLength \in Nat
BY VdpAssumption DEF VdpAssumption, VramSize, Cells

LEMMA RemainderInRange ==
  ASSUME NEW a \in Nat, NEW n \in Nat, n > 0
  PROVE  a % n \in 0..(n - 1)
OBVIOUS

LEMMA AfterType ==
  ASSUME NEW start \in Cells, NEW n \in Nat
  PROVE  After(start, n) \in Cells
BY SizesAreNat, RemainderInRange DEF After

LEMMA StoredType ==
  ASSUME vram \in [Cells -> Links], NEW start, NEW n \in Nat,
         NEW words \in [0..(n - 1) -> Links]
  PROVE  Stored(start, n, words) \in [Cells -> Links]
<1> DEFINE Ks(a) == {k \in 0..(n - 1) : (start + k) % VramSize = a}
           last(a) == CHOOSE k \in Ks(a) : \A j \in Ks(a) : j <= k
<1>1. ASSUME NEW a \in Cells, Ks(a) # {}
      PROVE  last(a) \in 0..(n - 1)
  <2>1. \E k \in Ks(a) : \A j \in Ks(a) : j <= k
    <3>1. Ks(a) \subseteq 0..(n - 1)
      OBVIOUS
    <3> HIDE DEF Ks
    <3> QED BY <1>1, <3>1, LargestOf
  <2>2. last(a) \in Ks(a)
    <3> HIDE DEF Ks
    <3> QED BY <2>1
  <2> QED BY <2>2
<1>2. ASSUME NEW a \in Cells
      PROVE  (IF Ks(a) = {} THEN vram[a] ELSE words[last(a)]) \in Links
  <2> HIDE DEF Ks, last
  <2> QED BY <1>1, <1>2
<1>3. Stored(start, n, words)
        = [a \in Cells |-> IF Ks(a) = {} THEN vram[a] ELSE words[last(a)]]
  BY DEF Stored
<1> HIDE DEF Ks, last
<1> QED BY <1>2, <1>3

LEMMA PutWordsType ==
  ASSUME PortTypeOK, NEW start \in Cells, NEW code, NEW n \in Nat,
         NEW words \in [0..(n - 1) -> Links], NEW colour \in Colours,
         PutWords(start, code, n, words, colour)
  PROVE  /\ vram' \in [Cells -> Links] /\ cram' \in Colours /\ addr' \in Cells
         /\ dirtyVram' \in BOOLEAN /\ dirtyCram' \in BOOLEAN /\ dirtyBase' \in BOOLEAN
<1>1. vram \in [Cells -> Links] /\ cram \in Colours /\ FlagsAreBoolean
  BY DEF PortTypeOK, FlagsAreBoolean
<1>2. vram' \in [Cells -> Links]
  BY <1>1, StoredType, Zenon DEF PutWords
<1>3. cram' \in Colours
  BY <1>1, Zenon DEF PutWords
<1>4. addr' \in Cells
  BY AfterType DEF PutWords
<1>5. dirtyVram' \in BOOLEAN
  BY <1>1, Zenon DEF PutWords, FlagsAreBoolean, MarksVram
<1>6. dirtyCram' \in BOOLEAN
  <2>1. CASE code = WriteCram /\ n > 0
    <3>1. dirtyCram' \in {MarksCram(colour), TRUE}
      BY <2>1, Zenon DEF PutWords
    <3> QED BY <1>1, <3>1, Zenon DEF FlagsAreBoolean, MarksCram
  <2>2. CASE ~(code = WriteCram /\ n > 0)
    BY <1>1, <2>2, Zenon DEF PutWords, FlagsAreBoolean
  <2> QED BY <2>1, <2>2
<1>7. dirtyBase' \in BOOLEAN
  BY <1>1 DEF PutWords, FlagsAreBoolean
<1> QED BY <1>2, <1>3, <1>4, <1>5, <1>6, <1>7

\* What an access leaves in the ports and the memory, when the registers stay.
AccessOK ==
  /\ vram' \in [Cells -> Links] /\ cram' \in Colours /\ addr' \in Cells
  /\ dirtyVram' \in BOOLEAN /\ dirtyCram' \in BOOLEAN /\ dirtyBase' \in BOOLEAN

LEMMA QuietType == PortTypeOK /\ UNCHANGED <<memVars, addr, dirtVars>> => AccessOK
BY DEF PortTypeOK, AccessOK, memVars, dirtVars

LEMMA AccessType ==
  ASSUME PortTypeOK, AccessOK, UNCHANGED regVars, mode' \in Modes, dma' \in BOOLEAN,
         pending' \in BOOLEAN, pending' => mode' \in FirstCodes
  PROVE  PortTypeOK'
BY Zenon DEF PortTypeOK, AccessOK, regVars

LEMMA FirstCodesAreModes ==
  /\ FirstCodes \subseteq Modes
  /\ \A f \in FirstCodes, c \in SecondCodes : f + c \in Modes
BY DEF Modes, FirstCodes, SecondCodes, ReadVram, WriteVram, WriteCram

LEMMA AddressHalves ==
  ASSUME NEW a \in Cells
  PROVE  /\ \A low \in 0..(Low - 1) : (a \div Low) * Low + low \in Cells
         /\ \A high \in {0, 1} : (high * Low) + (a % Low) \in Cells
<1>1. Low \in Nat /\ Low > 0 /\ a \in Nat /\ a < 2 * Low /\ Cells = 0..((2 * Low) - 1)
  BY SizesAreNat DEF VramSize
<1>2. a \div Low \in {0, 1}
  <2> DEFINE q == a \div Low
  <2>1. q \in Nat /\ a % Low \in 0..(Low - 1)
    BY <1>1
  <2>2. a % Low = a - Low * q
    BY <1>1, Z3
  <2> HIDE DEF q
  <2>3. Low * q < 2 * Low
    BY <1>1, <2>1, <2>2
  <2>4. ~(q >= 2)
    <3> SUFFICES ASSUME q >= 2 PROVE FALSE
      OBVIOUS
    <3>1. PICK r \in Nat : q = r + 2
      BY <2>1
    <3>2. Low * q = (Low * r) + (2 * Low) /\ Low * r \in Nat
      BY <1>1, <3>1
    <3> QED BY <1>1, <2>3, <3>2
  <2>5. q = 0 \/ q = 1
    BY <2>1, <2>4
  <2> QED BY <2>5 DEF q
<1>3. a % Low \in 0..(Low - 1)
  BY <1>1
<1>4. (a \div Low) * Low \in {0, Low}
  BY <1>1, <1>2
<1>5. ASSUME NEW low \in 0..(Low - 1) PROVE (a \div Low) * Low + low \in Cells
  BY <1>1, <1>4
<1>6. ASSUME NEW high \in {0, 1} PROVE (high * Low) + (a % Low) \in Cells
  <2> DEFINE rest == a % Low
  <2>1. high * Low \in {0, Low} /\ rest \in 0..(Low - 1)
    BY <1>1, <1>3
  <2> HIDE DEF rest
  <2> QED BY <1>1, <2>1 DEF rest
<1> QED BY <1>5, <1>6
LEMMA PortTypeInit == LinesInit => PortTypeOK
<1> SUFFICES ASSUME LinesInit PROVE PortTypeOK
  OBVIOUS
<1>1. mode \in Modes /\ ~pending
  BY FirstCodesAreModes DEF LinesInit, PortInit, FirstCodes
<1>2. addr \in Cells
  BY SizesAreNat DEF LinesInit, PortInit
<1>3. vram \in [Cells -> Links] /\ base \in Bases /\ cram \in Colours
  BY VdpAssumption DEF LinesInit, PortInit, VdpAssumption
<1> QED BY <1>1, <1>2, <1>3, Zenon DEF LinesInit, PortInit, PortTypeOK

LEMMA ClearedType == Cleared => PortTypeOK'
<1> SUFFICES ASSUME Cleared PROVE PortTypeOK'
  OBVIOUS
<1>1. mode' \in Modes /\ ~pending'
  BY FirstCodesAreModes DEF Cleared, FirstCodes
<1>2. addr' \in Cells
  BY SizesAreNat DEF Cleared
<1>3. vram' \in [Cells -> Links] /\ base' \in Bases /\ cram' \in Colours
  BY VdpAssumption DEF Cleared, VdpAssumption
<1> QED BY <1>1, <1>2, <1>3, Zenon DEF Cleared, PortTypeOK

LEMMA PortStepType ==
  ASSUME PortTypeOK, PortStep
  PROVE  PortTypeOK'
<1>0. /\ mode \in Modes /\ dma \in BOOLEAN /\ pending \in BOOLEAN /\ addr \in Cells
      /\ (pending => mode \in FirstCodes)
  BY DEF PortTypeOK
<1>1. ASSUME NEW word \in Links, NEW colour \in Colours, WriteData(word, colour)
      PROVE  PortTypeOK'
  <2>1. pending' = FALSE /\ UNCHANGED <<mode, dma, regVars>>
    BY <1>1 DEF WriteData
  <2>2. CASE PutWords(addr, mode, 1, [k \in {0} |-> word], colour)
    <3>1. [k \in {0} |-> word] \in [0..(1 - 1) -> Links]
      OBVIOUS
    <3>2. AccessOK
      BY <1>0, <2>2, <3>1, PutWordsType DEF AccessOK
    <3> QED BY <1>0, <2>1, <3>2, AccessType
  <2>3. CASE PutWords(addr, mode, DmaLength, [k \in 0..(DmaLength - 1) |-> word], colour)
    <3>1. [k \in 0..(DmaLength - 1) |-> word] \in [0..(DmaLength - 1) -> Links]
      OBVIOUS
    <3>2. AccessOK
      BY <1>0, <2>3, <3>1, PutWordsType, SizesAreNat DEF AccessOK
    <3> QED BY <1>0, <2>1, <3>2, AccessType
  <2>4. CASE UNCHANGED <<memVars, addr, dirtVars>>
    BY <1>0, <2>1, <2>4, QuietType, AccessType
  <2> QED BY <1>1, <2>2, <2>3, <2>4 DEF WriteData
<1>2. CASE ReadData
  <2>1. AccessOK
    <3>1. addr' \in Cells
      BY <1>0, <1>2, AfterType DEF ReadData
    <3> QED BY <1>2, <3>1 DEF ReadData, PortTypeOK, AccessOK, memVars, dirtVars
  <2> QED BY <1>0, <1>2, <2>1, AccessType DEF ReadData
<1>3. CASE ReadStatusByte
  BY <1>0, <1>3, QuietType, AccessType DEF ReadStatusByte
<1>4. CASE ReadStatusWord
  BY <1>0, <1>4, QuietType, AccessType DEF ReadStatusWord, portVars
<1>5. ASSUME NEW code \in FirstCodes, NEW low \in 0..(Low - 1), FirstHalf(code, low)
      PROVE  PortTypeOK'
  <2>1. addr' \in Cells
    BY <1>0, <1>5, AddressHalves DEF FirstHalf
  <2>2. AccessOK
    BY <1>5, <2>1 DEF FirstHalf, PortTypeOK, AccessOK, memVars, dirtVars
  <2>3. mode' \in Modes /\ mode' \in FirstCodes /\ dma' = FALSE /\ pending' = TRUE
          /\ UNCHANGED regVars
    BY <1>5, FirstCodesAreModes DEF FirstHalf
  <2> QED BY <2>2, <2>3, AccessType
<1>6. ASSUME NEW code \in SecondCodes, NEW high \in {0, 1}, NEW wantsDma \in BOOLEAN,
             SecondHalf(code, high, wantsDma)
      PROVE  PortTypeOK'
  <2> DEFINE start == (high * Low) + (addr % Low)
  <2>1. start \in Cells
    BY <1>0, AddressHalves
  <2>2. mode' \in Modes /\ pending' = FALSE /\ dma' \in BOOLEAN /\ UNCHANGED regVars
    BY <1>0, <1>6, FirstCodesAreModes DEF SecondHalf
  <2>3. \/ \E words \in [0..(DmaLength - 1) -> Links], colour \in Colours :
             PutWords(start, mode + code, DmaLength, words, colour)
        \/ addr' = start /\ UNCHANGED <<memVars, dirtVars>>
    BY <1>6, Zenon DEF SecondHalf
  <2> HIDE DEF start
  <2>4. AccessOK
    <3>1. ASSUME NEW words \in [0..(DmaLength - 1) -> Links], NEW colour \in Colours,
                 PutWords(start, mode + code, DmaLength, words, colour)
          PROVE  AccessOK
      BY <2>1, <3>1, PutWordsType, SizesAreNat DEF AccessOK
    <3>2. CASE addr' = start /\ UNCHANGED <<memVars, dirtVars>>
      BY <2>1, <3>2 DEF PortTypeOK, AccessOK, memVars, dirtVars
    <3> QED BY <2>3, <3>1, <3>2
  <2> QED BY <2>2, <2>4, AccessType
<1>7. CASE WriteRegister
  <2>1. mode' \in Modes /\ pending' = FALSE
    BY <1>7, FirstCodesAreModes DEF WriteRegister, PortTypeOK, FirstCodes
  <2>2. dmaMode' \in {"move", "fill"} /\ base' \in Bases /\ wide' \in BOOLEAN
          /\ displayOn' \in BOOLEAN /\ dirtyBase' \in BOOLEAN
    BY <1>7, Zenon DEF WriteRegister, PortTypeOK
  <2>3. UNCHANGED <<addr, dma, vram, cram, dirtyVram, dirtyCram>>
    BY <1>7 DEF WriteRegister, memVars
  <2> QED BY <2>1, <2>2, <2>3, Zenon DEF PortTypeOK
<1> QED BY <1>1, <1>2, <1>3, <1>4, <1>5, <1>6, <1>7 DEF PortStep

LEMMA PortTypeStep == PortTypeOK /\ LinesInv /\ [LinesNext]_linesVars => PortTypeOK'
<1> SUFFICES ASSUME PortTypeOK, LinesInv, [LinesNext]_linesVars PROVE PortTypeOK'
  OBVIOUS
<1>1. CASE PortStep
  BY <1>1, PortStepType
<1>2. CASE DrawScanline
  <2>1. UNCHANGED <<portVars, regVars, memVars>>
    BY <1>2 DEF DrawScanline
  <2>2. FlagsAreBoolean'
    BY <1>2, DrawKeeps DEF LinesInv
  <2> QED BY <2>1, <2>2, Zenon DEF PortTypeOK, FlagsAreBoolean, portVars, regVars, memVars
<1>3. CASE ResetVdp
  BY <1>3, ClearedType DEF ResetVdp
<1>4. CASE LoadState
  <2>1. PICK file \in Saves :
          /\ pending' = FALSE /\ mode' = ReadVram /\ addr' = 0 /\ dma' = FALSE
          /\ dmaMode' = file.dmaMode /\ base' = file.base /\ wide' = file.wide
          /\ displayOn' = file.displayOn
          /\ vram' = file.vram /\ cram' = file.cram
    BY <1>4 DEF LoadState
  <2>2. dirtyVram' = TRUE /\ dirtyCram' = TRUE /\ dirtyBase' = TRUE
    BY <1>4 DEF LoadState, MarksAll
  <2>3. file \in [dmaMode : {"move", "fill"}, base : Bases, wide : BOOLEAN,
                  displayOn : BOOLEAN, vram : [Cells -> Links], cram : Colours]
    BY LinesAssumption DEF LinesAssumption
  <2>4. dmaMode' \in {"move", "fill"} /\ base' \in Bases /\ wide' \in BOOLEAN
          /\ displayOn' \in BOOLEAN /\ vram' \in [Cells -> Links] /\ cram' \in Colours
    BY <2>1, <2>3
  <2>5. mode' \in Modes /\ addr' \in Cells
    BY <2>1, FirstCodesAreModes, SizesAreNat DEF FirstCodes
  <2> QED BY <2>1, <2>2, <2>4, <2>5, Zenon DEF PortTypeOK
<1>5. CASE UNCHANGED linesVars
  BY <1>5, Zenon DEF linesVars, vdpVars, portVars, regVars, memVars, dirtVars, PortTypeOK
<1> QED BY <1>1, <1>2, <1>3, <1>4, <1>5 DEF LinesNext

\* For every size of memory, length of transfer and saved state: the address
\* stays inside video RAM across transfers that wrap, the mode is one a command
\* can name, and only a first half leaves a command pending (command, putword).
THEOREM PortTypeCorrect == LinesSpec => []PortTypeOK
BY PortTypeInit, PortTypeStep, LinesInvAlways, PTL DEF LinesSpec

=============================================================================
