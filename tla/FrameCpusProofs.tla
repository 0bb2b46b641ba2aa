-------------------------- MODULE FrameCpusProofs --------------------------
(* Theorems about FrameCpus, for every division of the lines into cycles,    *)
(* every length of an instruction and every number of lines.                 *)
EXTENDS FrameCpus, VdpIrqProofs

(***************************************************************************)
(* The scheduled frame is one of the frames VdpIrq allows.                 *)
(***************************************************************************)
LEMMA StepIsIrqStep == [CpuNext]_cpuVars => [IrqNext]_irqVars
<1> SUFFICES ASSUME CpuNext PROVE [IrqNext]_irqVars
  BY DEF cpuVars
<1>1. CASE OneFrame
  <2>1. CASE CpuStartFrame
    BY <2>1 DEF CpuStartFrame, IrqNext, FrameStep
  <2>2. CASE BeginLine
    BY <2>2 DEF BeginLine, IrqNext, FrameStep
  <2>3. CASE RunPart
    BY <2>3 DEF RunPart, M68kStep, M68kDone, Z80Run
  <2>4. CASE EndHblank
    BY <2>4 DEF EndHblank, IrqNext, FrameStep
  <2>5. CASE EndVdelay
    BY <2>5 DEF EndVdelay, IrqNext, FrameStep
  <2>6. CASE EndLine
    BY <2>6 DEF EndLine
  <2>7. CASE EndFrame
    BY <2>7 DEF EndFrame, IrqNext, FrameStep
  <2> QED BY <1>1, <2>1, <2>2, <2>3, <2>4, <2>5, <2>6, <2>7 DEF OneFrame
<1>2. CASE Bus
  BY <1>2 DEF Bus, BusRequest, BusCancel, ResetOn, ResetOff, Access
<1>3. CASE GameIrq
  BY <1>3 DEF GameIrq, IrqNext
<1>4. CASE CpuReset
  BY <1>4 DEF CpuReset, IrqNext
<1>5. CASE LoadState
  BY <1>5 DEF LoadState, IrqNext
<1> QED BY <1>1, <1>2, <1>3, <1>4, <1>5 DEF CpuNext

(* one_frame with both CPUs implements the frame in which the 68K acts at    *)
(* any time: what is proved of VdpIrq holds of it.                           *)
THEOREM CpuImplementsIrq == CpuSpec => IrqSpec
<1>1. CpuInit => IrqInit
  BY DEF CpuInit
<1> QED BY <1>1, StepIsIrqStep, PTL DEF CpuSpec, IrqSpec

-----------------------------------------------------------------------------
(***************************************************************************)
(* Types.                                                                  *)
(***************************************************************************)
Kinds == {"free", "held"}

PlaceOK ==
  /\ turn \in {"begin", "68k", "z80", "end"}
  /\ line \in 0..Lines - 1 /\ part \in Parts

OdoOK == m68k \in Nat /\ z80 \in Nat

BusOK == busreq \in BOOLEAN /\ reset \in BOOLEAN /\ z80Irq \in BOOLEAN

AccountOK ==
  /\ owed \subseteq Kinds /\ executed \subseteq Kinds /\ skipped \subseteq Kinds
  /\ lateRelease \in BOOLEAN

CpuParts == PlaceOK /\ OdoOK /\ BusOK /\ AccountOK

LEMMA PartsAreType == CpuTypeOK <=> IrqTypeOK /\ CpuParts
BY DEF CpuTypeOK, CpuParts, PlaceOK, OdoOK, BusOK, AccountOK, Kinds

LEMMA CyclesAreNat ==
  /\ \A p \in Parts : M68kCycles[p] \in Nat /\ Z80Cycles[p] \in Nat
  /\ VblankLine \in Nat /\ Lines \in Nat /\ VblankLine + 2 <= Lines /\ Longest \in Nat \ {0}
BY FrameCpusAssumption

LEMMA TargetIsNat ==
  ASSUME PlaceOK, OdoOK
  PROVE  /\ Z80Max \in Nat /\ M68kMax \in Nat
         /\ SyncTarget(m68k, Z80Max) \in Nat
         /\ SyncTarget(m68k, Z80Max) <= Z80Max
<1>1. line \in Nat /\ part \in Parts /\ "display" \in Parts
  BY CyclesAreNat DEF PlaceOK, Parts
<1>2. Z80Max \in Nat /\ M68kMax \in Nat
  BY <1>1, CyclesAreNat DEF Z80Max, M68kMax
<1> QED BY <1>2 DEF SyncTarget, OdoOK

LEMMA ExecuteTypes ==
  ASSUME NEW target \in Nat, NEW time \in SUBSET Kinds, Execute(target, time), AccountOK
  PROVE  z80' \in Nat /\ z80' < target + Longest /\ owed' = {} /\ skipped' = skipped
         /\ executed' = executed \cup time
BY CyclesAreNat DEF Execute

LEMMA SkipTypes ==
  ASSUME NEW target \in Nat, NEW time \in SUBSET Kinds, Skip(target, time), AccountOK
  PROVE  z80' \in Nat /\ z80' < target + Longest /\ owed' = {} /\ executed' = executed
         /\ skipped' = skipped \cup time
BY CyclesAreNat DEF Skip

LEMMA SyncTypes ==
  ASSUME NEW fake \in BOOLEAN, Sync(fake), PlaceOK, OdoOK, AccountOK
  PROVE  /\ z80' \in Nat /\ (z80' = z80 \/ z80' < Z80Max + Longest)
         /\ owed' \subseteq Kinds /\ executed' \subseteq Kinds /\ skipped' \subseteq Kinds
<1> DEFINE target == SyncTarget(m68k, Z80Max)
<1>1. target \in Nat /\ Z80Max \in Nat /\ target <= Z80Max /\ owed \in SUBSET Kinds
  BY TargetIsNat DEF AccountOK
<1> HIDE DEF target
<1>2. CASE UpToDate
  BY <1>2 DEF UpToDate, OdoOK, AccountOK
<1>3. CASE Execute(target, owed)
  BY <1>1, <1>3, ExecuteTypes, CyclesAreNat DEF AccountOK
<1>4. CASE Skip(target, owed)
  BY <1>1, <1>4, SkipTypes, CyclesAreNat DEF AccountOK
<1> QED BY <1>2, <1>3, <1>4 DEF Sync, target

LEMMA KindIsKind == Kind \in Kinds /\ {Kind} \subseteq Kinds
BY DEF Kind, Kinds

LEMMA Z80RunTypes ==
  ASSUME Z80Run, PlaceOK, OdoOK, AccountOK
  PROVE  /\ z80' \in Nat /\ (z80' = z80 \/ z80' < Z80Max + Longest)
         /\ owed' \subseteq Kinds /\ executed' \subseteq Kinds /\ skipped' \subseteq Kinds
<1> DEFINE time == IF Z80Max > SyncTarget(m68k, Z80Max) THEN owed \cup {Kind} ELSE owed
<1>1. Z80Max \in Nat /\ time \in SUBSET Kinds
  BY TargetIsNat, KindIsKind DEF AccountOK
<1>2. UpToDate \/ Skip(Z80Max, time) \/ Execute(Z80Max, time)
  BY DEF Z80Run
<1> HIDE DEF time
<1>3. CASE UpToDate
  BY <1>3 DEF UpToDate, OdoOK, AccountOK
<1>4. CASE Execute(Z80Max, time)
  BY <1>1, <1>4, ExecuteTypes DEF AccountOK
<1>5. CASE Skip(Z80Max, time)
  BY <1>1, <1>5, SkipTypes DEF AccountOK
<1> QED BY <1>2, <1>3, <1>4, <1>5

LEMMA BusTypes ==
  ASSUME Bus, CpuParts
  PROVE  /\ UNCHANGED <<irqVars, place, m68k, z80Irq>> /\ Running68k
         /\ CpuParts' /\ (z80' = z80 \/ z80' < Z80Max + Longest)
<1> USE DEF CpuParts
<1>1. UNCHANGED <<irqVars, place, m68k, z80Irq>> /\ Running68k
  BY DEF Bus, BusRequest, BusCancel, ResetOn, ResetOff, Access
<1>2. PlaceOK' /\ m68k' \in Nat /\ z80Irq' \in BOOLEAN
  BY <1>1 DEF PlaceOK, OdoOK, BusOK, place
<1>3. busreq' \in BOOLEAN /\ reset' \in BOOLEAN
  BY Zenon DEF Bus, BusRequest, BusCancel, ResetOn, ResetOff, BusOK
<1>4. lateRelease' \in BOOLEAN
  BY Zenon DEF Bus, BusRequest, BusCancel, ResetOn, ResetOff, AccountOK
<1>5. UpToDate \/ Sync(TRUE) \/ Sync(FALSE)
  BY DEF Bus, BusRequest, BusCancel, ResetOn, ResetOff
<1>6. /\ z80' \in Nat /\ (z80' = z80 \/ z80' < Z80Max + Longest)
      /\ owed' \subseteq Kinds /\ executed' \subseteq Kinds /\ skipped' \subseteq Kinds
  <2>1. CASE UpToDate
    BY <2>1 DEF UpToDate, OdoOK, AccountOK
  <2>2. CASE Sync(TRUE) \/ Sync(FALSE)
    BY <2>2, SyncTypes
  <2> QED BY <1>5, <2>1, <2>2
<1> QED BY <1>1, <1>2, <1>3, <1>4, <1>6 DEF OdoOK, BusOK, AccountOK

LEMMA BeginTypes ==
  ASSUME NEW newLine \in 0..Lines - 1, NEW newPart \in Parts, Begin(newLine, newPart), CpuParts
  PROVE  /\ line' = newLine /\ part' = newPart /\ OdoOK' /\ AccountOK'
         /\ UNCHANGED <<m68k, z80, busreq, reset, executed, skipped, lateRelease>>
<1>1. UNCHANGED <<m68k, z80, busreq, reset, executed, skipped, lateRelease>>
      /\ line' = newLine /\ part' = newPart
  BY DEF Begin
<1>2. owed' \subseteq Kinds
  BY KindIsKind DEF Begin, OwedAt, CpuParts, AccountOK
<1> QED BY <1>1, <1>2 DEF CpuParts, OdoOK, AccountOK

LEMMA CpuPartsStep == CpuParts /\ [CpuNext]_cpuVars => CpuParts'
<1> SUFFICES ASSUME CpuParts, [CpuNext]_cpuVars PROVE CpuParts'
  OBVIOUS
<1> USE DEF CpuParts
<1>1. CASE CpuStartFrame \/ CpuReset \/ LoadState
  <2>1. /\ turn' \in {"begin", "end"} /\ line' = 0 /\ part' = "hblank" /\ OdometersCleared
    BY <1>1 DEF CpuStartFrame, CpuReset, LoadState, PlaceCleared
  <2>2. PlaceOK' /\ OdoOK'
    BY <2>1, CyclesAreNat DEF OdometersCleared, PlaceOK, OdoOK, Parts
  <2>4. AccountOK'
    BY <2>1 DEF OdometersCleared, AccountOK
  <2>3. BusOK'
    BY Zenon, <1>1 DEF CpuStartFrame, CpuReset, LoadState, PlaceCleared, BusOK
  <2> QED BY <2>2, <2>3, <2>4
<1>2. CASE BeginLine
  BY <1>2 DEF BeginLine, PlaceOK, OdoOK, BusOK, AccountOK, z80Vars, account
<1>3. CASE M68kStep
  <2>1. m68k' \in Nat
    BY <1>3, CyclesAreNat DEF M68kStep, OdoOK
  <2>2. owed' \subseteq Kinds
    BY <1>3, KindIsKind DEF M68kStep, OwedAt, AccountOK
  <2> QED BY <1>3, <2>1, <2>2 DEF M68kStep, place, PlaceOK, OdoOK, BusOK, AccountOK
<1>4. CASE M68kDone
  BY <1>4 DEF M68kDone, PlaceOK, OdoOK, BusOK, AccountOK, z80Vars, account
<1>5. CASE Z80Run
  BY <1>5, Z80RunTypes DEF Z80Run, PlaceOK, OdoOK, BusOK, AccountOK
<1>6. CASE EndHblank \/ EndVdelay
  <2>1. PICK p \in Parts : Begin(line, p)
    BY <1>6 DEF EndHblank, EndVdelay, Parts
  <2>2. PlaceOK' /\ OdoOK' /\ AccountOK'
    BY <1>6, <2>1, BeginTypes DEF PlaceOK, EndHblank, EndVdelay
  <2>3. busreq' = busreq /\ reset' = reset /\ (z80Irq' = z80Irq \/ z80Irq' = (z80Irq \/ ~reset))
    BY <1>6, <2>1 DEF Begin, EndHblank, EndVdelay
  <2> QED BY <2>2, <2>3 DEF BusOK
<1>7. CASE EndLine
  <2>1. line + 1 \in 0..Lines - 1 /\ "hblank" \in Parts
    BY <1>7, CyclesAreNat DEF EndLine, PlaceOK, Parts
  <2>2. OdoOK' /\ AccountOK' /\ line' = line + 1 /\ part' = "hblank" /\ turn' = "begin"
    BY <1>7, <2>1, BeginTypes DEF EndLine
  <2>3. busreq' = busreq /\ reset' = reset /\ z80Irq' = Z80IrqLeft
    BY <1>7 DEF Begin, EndLine
  <2> QED BY <2>1, <2>2, <2>3 DEF PlaceOK, BusOK, Z80IrqLeft
<1>8. CASE EndFrame
  <2>1. z80Irq' \in BOOLEAN
    BY <1>8 DEF EndFrame, Z80IrqLeft, BusOK
  <2> QED BY <1>8, <2>1 DEF EndFrame, place, account, PlaceOK, OdoOK, BusOK, AccountOK
<1>9. CASE Bus
  BY <1>9, BusTypes
<1>10. CASE GameIrq
  BY <1>10 DEF GameIrq, place, z80Vars, account, PlaceOK, OdoOK, BusOK, AccountOK
<1>11. CASE UNCHANGED cpuVars
  BY <1>11 DEF cpuVars, place, z80Vars, account, PlaceOK, OdoOK, BusOK, AccountOK
<1> QED BY <1>1, <1>2, <1>3, <1>4, <1>5, <1>6, <1>7, <1>8, <1>9, <1>10, <1>11
        DEF CpuNext, OneFrame, RunPart

LEMMA CpuPartsAlways == CpuSpec => []CpuParts
<1>1. CpuInit => CpuParts
  <2> SUFFICES ASSUME CpuInit PROVE CpuParts
    OBVIOUS
  <2>1. PlaceOK /\ OdoOK
    BY CyclesAreNat DEF CpuInit, PlaceOK, OdoOK, Parts
  <2>2. BusOK /\ AccountOK
    BY DEF CpuInit, BusOK, AccountOK
  <2> QED BY <2>1, <2>2 DEF CpuParts
<1> QED BY <1>1, CpuPartsStep, PTL DEF CpuSpec

(* Odometers, lines and flags keep their types, however long the game holds  *)
(* the Z80.                                                                  *)
THEOREM CpuTypeCorrect == CpuSpec => []CpuTypeOK
<1>1. IrqInv => IrqTypeOK
  BY DEF IrqInv
<1> QED BY <1>1, CpuPartsAlways, PartsAreType, CpuImplementsIrq, IrqInvAlways, PTL

-----------------------------------------------------------------------------
(***************************************************************************)
(* How far the odometers get.                                              *)
(***************************************************************************)
Limits ==
  InFrame => m68k < M68kMax + Longest /\ z80 < Z80Max + Longest

\* The cycles from the start of the frame to the end of a part.
Share(cycles, l, p) == (l * cycles["display"]) + cycles[p]

LEMMA LimitsAreShares ==
  /\ Limits <=> (InFrame => /\ m68k < Share(M68kCycles, line, part) + Longest
                           /\ z80 < Share(Z80Cycles, line, part) + Longest)
  /\ Limits' <=> (InFrame' => /\ m68k' < Share(M68kCycles, line', part') + Longest
                             /\ z80' < Share(Z80Cycles, line', part') + Longest)
BY DEF Limits, M68kMax, Z80Max, Share

LEMMA ShareGrows ==
  ASSUME NEW cycles \in {M68kCycles, Z80Cycles}, NEW l \in Nat, NEW p \in Parts,
         NEW newLine \in Nat, NEW newPart \in Parts,
         \/ newLine = l /\ p = "hblank"
         \/ newLine = l /\ newPart = "display"
         \/ newLine = l + 1 /\ p = "display"
  PROVE  /\ Share(cycles, l, p) \in Nat /\ Share(cycles, newLine, newPart) \in Nat
         /\ Share(cycles, newLine, newPart) >= Share(cycles, l, p)
<1>1. /\ cycles["hblank"] \in Nat /\ cycles["vdelay"] \in Nat /\ cycles["display"] \in Nat
      /\ cycles["hblank"] <= cycles["vdelay"] /\ cycles["vdelay"] <= cycles["display"]
  BY FrameCpusAssumption DEF Parts
<1>2. /\ cycles[newPart] \in Nat /\ cycles["hblank"] <= cycles[newPart]
      /\ cycles[p] \in Nat /\ cycles[p] <= cycles["display"]
  BY <1>1 DEF Parts
<1>3. ASSUME NEW d \in Nat PROVE (l + 1) * d = (l * d) + d /\ l * d \in Nat
  OBVIOUS
<1>4. /\ (l + 1) * cycles["display"] = (l * cycles["display"]) + cycles["display"]
      /\ l * cycles["display"] \in Nat
  BY <1>1, <1>3
<1> USE DEF Share
<1>5. CASE newLine = l + 1 /\ p = "display"
  <2>1. newLine * cycles["display"] = (l * cycles["display"]) + cycles["display"]
    BY <1>4, <1>5
  <2> QED BY <1>1, <1>2, <1>4, <1>5, <2>1
<1>6. CASE newLine = l /\ p = "hblank"
  BY <1>1, <1>2, <1>4, <1>6
<1>7. CASE newLine = l /\ newPart = "display"
  BY <1>1, <1>2, <1>4, <1>7
<1> QED BY <1>5, <1>6, <1>7

LEMMA LimitsStep == CpuParts /\ Limits /\ [CpuNext]_cpuVars => Limits'
<1> SUFFICES ASSUME CpuParts, Limits, [CpuNext]_cpuVars, InFrame' PROVE Limits'
  BY DEF Limits
<1>0. CpuParts'
  BY CpuPartsStep
<1>a. m68k \in Nat /\ z80 \in Nat /\ Longest \in Nat /\ Longest > 0
  BY CyclesAreNat DEF CpuParts, OdoOK
<1>b. line \in Nat /\ part \in Parts /\ line' \in Nat /\ part' \in Parts
  BY <1>0, CyclesAreNat DEF CpuParts, PlaceOK
<1>1. CASE CpuStartFrame
  <2>1. m68k' = 0 /\ z80' = 0
    BY <1>1 DEF CpuStartFrame, OdometersCleared
  <2>2. line' = 0 /\ part' = "hblank"
    BY <1>1 DEF CpuStartFrame
  <2>3. ASSUME NEW cycles \in {M68kCycles, Z80Cycles} PROVE Share(cycles, line', part') \in Nat
    BY <1>b, <2>2, <2>3, ShareGrows
  <2> QED BY <1>a, <2>1, <2>3, LimitsAreShares
<1>2. CASE CpuReset \/ LoadState \/ EndFrame
  BY <1>2 DEF CpuReset, LoadState, EndFrame, FinishFrame, Enter, IrqReset, IrqLoad, IrqCleared,
     InFrame
<1>3. CASE InFrame /\ (BeginLine \/ M68kDone \/ GameIrq)
  <2>1. UNCHANGED <<line, part, m68k, z80>>
    BY <1>3 DEF BeginLine, M68kDone, GameIrq, place, z80Vars
  <2> QED BY <1>3, <2>1 DEF Limits, M68kMax, Z80Max
<1>4. CASE InFrame /\ M68kStep
  <2>1. UNCHANGED <<line, part, z80>> /\ m68k < M68kMax
    BY <1>4 DEF M68kStep, Running68k, place
  <2>2. PICK n \in 1..Longest : m68k' = m68k + n
    BY <1>4 DEF M68kStep
  <2>3. m68k' < M68kMax + Longest
    <3>1. M68kMax \in Nat
      BY TargetIsNat DEF CpuParts
    <3> QED BY <1>a, <2>1, <2>2, <3>1
  <2> QED BY <1>4, <2>1, <2>3 DEF Limits, M68kMax, Z80Max
<1>5. CASE InFrame /\ Z80Run
  <2>1. UNCHANGED <<line, part, m68k>> /\ (z80' = z80 \/ z80' < Z80Max + Longest)
    BY <1>5, Z80RunTypes DEF Z80Run, CpuParts
  <2> QED BY <1>5, <2>1 DEF Limits, M68kMax, Z80Max
<1>6. CASE InFrame /\ (EndHblank \/ EndVdelay \/ EndLine)
  <2>1. UNCHANGED <<m68k, z80>>
    BY <1>6 DEF EndHblank, EndVdelay, EndLine, Begin
  <2>2. \/ line' = line /\ part = "hblank"
        \/ line' = line /\ part' = "display"
        \/ line' = line + 1 /\ part = "display"
    BY <1>6 DEF EndHblank, EndVdelay, EndLine, Begin
  <2>3. ASSUME NEW cycles \in {M68kCycles, Z80Cycles}
        PROVE  /\ Share(cycles, line, part) \in Nat /\ Share(cycles, line', part') \in Nat
               /\ Share(cycles, line', part') >= Share(cycles, line, part)
    BY <1>b, <2>2, <2>3, ShareGrows
  <2> QED BY <1>a, <1>6, <2>1, <2>3, LimitsAreShares
<1>7. CASE InFrame /\ Bus
  <2>1. UNCHANGED <<line, part, m68k>> /\ (z80' = z80 \/ z80' < Z80Max + Longest)
    BY <1>7, BusTypes DEF place
  <2> QED BY <1>7, <2>1 DEF Limits, M68kMax, Z80Max
<1>8. CASE UNCHANGED cpuVars
  BY <1>8 DEF cpuVars, irqVars, place, z80Vars, Limits, M68kMax, Z80Max, InFrame
<1> QED BY <1>1, <1>2, <1>3, <1>4, <1>5, <1>6, <1>7, <1>8 DEF CpuNext, OneFrame, RunPart

(* Neither CPU gets more than the rest of an instruction beyond its share.   *)
THEOREM NeitherRunsAheadAlways == CpuSpec => []NeitherRunsAhead
<1>1. CpuInit => Limits
  BY DEF CpuInit, IrqInit, Limits, InFrame
<1>2. Limits <=> NeitherRunsAhead
  BY DEF Limits, NeitherRunsAhead
<1> QED BY <1>1, <1>2, LimitsStep, CpuPartsAlways, PTL DEF CpuSpec

-----------------------------------------------------------------------------
(***************************************************************************)
(* What the Z80 was while its odometer lagged behind.                      *)
(***************************************************************************)
Target == SyncTarget(m68k, Z80Max)

\* Nothing is owed unless z80_sync would do something about it.
OwedIsLag == owed # {} => Target > z80

\* All that is owed to a held Z80 was held; the reverse has one exception.
OwedIsKind ==
  /\ Held => owed \subseteq {"held"}
  /\ ~Held /\ "held" \in owed => lateRelease

AccountInv ==
  /\ ExecutedWasFree /\ SkippedWasHeld
  /\ InFrame => OwedIsLag /\ OwedIsKind

LEMMA SyncAccount ==
  ASSUME CpuParts, AccountInv, InFrame, NEW fake \in BOOLEAN, Sync(fake),
         fake <=> Held
  PROVE  /\ owed' = {} /\ "free" \notin skipped'
         /\ "held" \in executed' => lateRelease
<1>1. Target \in Nat /\ z80 \in Nat
  BY TargetIsNat DEF CpuParts, OdoOK, Target
<1>2. CASE Target <= z80 /\ UpToDate
  <2>1. owed = {}
    BY <1>1, <1>2 DEF AccountInv, OwedIsLag
  <2> QED BY <1>2, <2>1 DEF UpToDate, AccountInv, ExecutedWasFree, SkippedWasHeld
<1>3. CASE fake /\ Skip(Target, owed)
  BY <1>3 DEF Skip, AccountInv, OwedIsKind, ExecutedWasFree, SkippedWasHeld
<1>4. CASE ~fake /\ Execute(Target, owed)
  BY <1>4 DEF Execute, AccountInv, OwedIsKind, ExecutedWasFree, SkippedWasHeld
<1> QED BY <1>2, <1>3, <1>4 DEF Sync, Target

\* What a later target adds to the account.
LEMMA OwedMore ==
  ASSUME CpuParts, AccountInv, InFrame, NEW target \in Nat, target >= Target,
         owed' = owed \/ (owed' = OwedAt(target, Kind)),
         UNCHANGED <<z80, busreq, reset, lateRelease>>
  PROVE  OwedIsKind' /\ (owed' # {} => target > z80')
<1>1. Target \in Nat /\ z80 \in Nat
  BY TargetIsNat DEF CpuParts, OdoOK, Target
<1>2. owed # {} => target > z80
  BY <1>1 DEF AccountInv, OwedIsLag
<1>3. CASE owed' = owed
  BY <1>2, <1>3 DEF AccountInv, OwedIsKind, Held
<1>4. CASE owed' = OwedAt(target, Kind)
  BY <1>1, <1>2, <1>4 DEF OwedAt, Kind, AccountInv, OwedIsKind, Held
<1> QED BY <1>3, <1>4

LEMMA HalfGrows ==
  ASSUME NEW a \in Nat, NEW b \in Nat, a <= b
  PROVE  a \div 2 \in Nat /\ b \div 2 \in Nat /\ a \div 2 <= b \div 2
OBVIOUS

LEMMA AccountStep == CpuParts /\ AccountInv /\ [CpuNext]_cpuVars => AccountInv'
<1> SUFFICES ASSUME CpuParts, AccountInv, [CpuNext]_cpuVars PROVE AccountInv'
  OBVIOUS
<1>0. CpuParts'
  BY CpuPartsStep
<1>1. CASE CpuStartFrame \/ CpuReset \/ LoadState
  <2>1. OdometersCleared
    BY <1>1 DEF CpuStartFrame, CpuReset, LoadState, PlaceCleared
  <2> QED BY <2>1 DEF OdometersCleared, AccountInv, ExecutedWasFree, SkippedWasHeld,
          OwedIsLag, OwedIsKind
<1>2. CASE EndFrame
  BY <1>2 DEF EndFrame, FinishFrame, Enter, account, AccountInv, ExecutedWasFree,
     SkippedWasHeld, InFrame
<1>3. CASE InFrame /\ (BeginLine \/ M68kDone \/ GameIrq)
  BY <1>3 DEF BeginLine, M68kDone, GameIrq, place, z80Vars, account, AccountInv,
     ExecutedWasFree, SkippedWasHeld, OwedIsLag, OwedIsKind, Held, Target, Z80Max
<1>8. CASE UNCHANGED cpuVars
  BY <1>8 DEF cpuVars, irqVars, place, z80Vars, account, AccountInv,
     ExecutedWasFree, SkippedWasHeld, OwedIsLag, OwedIsKind, Held, Target, Z80Max, InFrame
<1>4. CASE InFrame /\ M68kStep
  <2>1. UNCHANGED <<line, part, z80, busreq, reset, executed, skipped, lateRelease>>
    BY <1>4 DEF M68kStep, place
  <2>2. m68k \in Nat /\ m68k' \in Nat /\ m68k' >= m68k
    BY <1>4, CyclesAreNat DEF M68kStep, CpuParts, OdoOK
  <2>3. Z80Max \in Nat
    BY TargetIsNat DEF CpuParts
  <2> DEFINE target == SyncTarget(m68k', Z80Max)
  <2>4. target \in Nat /\ Target \in Nat /\ target >= Target
    <3>1. /\ m68k \div 2 \in Nat /\ m68k' \div 2 \in Nat
          /\ m68k \div 2 <= m68k' \div 2
      BY <2>2, HalfGrows
    <3> QED BY <2>3, <3>1 DEF SyncTarget, Target
  <2>5. owed' = owed \/ owed' = OwedAt(target, Kind)
    BY <1>4 DEF M68kStep
  <2>6. Target' = target
    BY <2>1 DEF Target, SyncTarget, Z80Max
  <2> HIDE DEF target
  <2>7. OwedIsKind' /\ (owed' # {} => target > z80')
    BY <1>4, <2>1, <2>4, <2>5, OwedMore
  <2>8. OwedIsLag'
    BY <2>6, <2>7 DEF OwedIsLag
  <2> QED BY <2>1, <2>7, <2>8 DEF AccountInv, ExecutedWasFree, SkippedWasHeld
<1>5. CASE InFrame /\ Z80Run
  <2> DEFINE time == IF Z80Max > Target THEN owed \cup {Kind} ELSE owed
  <2>1. UNCHANGED <<line, part, m68k, busreq, reset, lateRelease, irqVars>>
    BY <1>5 DEF Z80Run
  <2>2. time \in SUBSET (owed \cup {Kind})
    OBVIOUS
  <2>3. UpToDate \/ (Held /\ Skip(Z80Max, time)) \/ (~Held /\ Execute(Z80Max, time))
    BY <1>5 DEF Z80Run, Target
  <2> HIDE DEF time
  <2>4. CASE UpToDate
    BY <1>5, <2>1, <2>4 DEF UpToDate, AccountInv, ExecutedWasFree, SkippedWasHeld,
       OwedIsLag, OwedIsKind, Held, Target, Z80Max, InFrame
  <2>5. CASE Held /\ Skip(Z80Max, time)
    BY <1>5, <2>1, <2>2, <2>5 DEF Skip, Kind, AccountInv, ExecutedWasFree, SkippedWasHeld,
       OwedIsLag, OwedIsKind, Held
  <2>6. CASE ~Held /\ Execute(Z80Max, time)
    BY <1>5, <2>1, <2>2, <2>6 DEF Execute, Kind, AccountInv, ExecutedWasFree,
       SkippedWasHeld, OwedIsLag, OwedIsKind, Held
  <2> QED BY <2>3, <2>4, <2>5, <2>6
<1>6. CASE InFrame /\ (EndHblank \/ EndVdelay \/ EndLine)
  <2>1. /\ UNCHANGED <<m68k, z80, busreq, reset, executed, skipped, lateRelease>>
        /\ owed' = OwedAt(SyncTarget(m68k, Z80Max'), Kind)
    BY <1>6 DEF EndHblank, EndVdelay, EndLine, Begin
  <2>2. \/ line' = line /\ part = "hblank"
        \/ line' = line /\ part' = "display"
        \/ line' = line + 1 /\ part = "display"
    BY <1>6 DEF EndHblank, EndVdelay, EndLine, Begin
  <2>3. line \in Nat /\ part \in Parts /\ line' \in Nat /\ part' \in Parts /\ m68k \in Nat
    BY <1>0, CyclesAreNat DEF CpuParts, PlaceOK, OdoOK
  <2> DEFINE max == Share(Z80Cycles, line, part)
             newMax == Share(Z80Cycles, line', part')
  <2>4. max \in Nat /\ newMax \in Nat /\ newMax >= max
    BY <2>2, <2>3, ShareGrows
  <2>5. Target = SyncTarget(m68k, max) /\ Target' = SyncTarget(m68k', newMax)
        /\ SyncTarget(m68k, Z80Max') = SyncTarget(m68k, newMax)
    BY DEF Target, Z80Max, Share
  <2> HIDE DEF max, newMax
  <2> DEFINE target == SyncTarget(m68k, newMax)
  <2>6. target \in Nat /\ target >= Target
    BY <2>3, <2>4, <2>5 DEF SyncTarget
  <2>7. owed' = OwedAt(target, Kind) /\ Target' = target
    BY <2>1, <2>5
  <2> HIDE DEF target
  <2>8. OwedIsKind' /\ (owed' # {} => target > z80')
    BY <1>6, <2>1, <2>6, <2>7, OwedMore
  <2>9. OwedIsLag'
    BY <2>7, <2>8 DEF OwedIsLag
  <2> QED BY <2>1, <2>8, <2>9 DEF AccountInv, ExecutedWasFree, SkippedWasHeld
<1>7. CASE InFrame /\ Bus
  <2>0. UNCHANGED <<line, part, m68k>> /\ (UpToDate => UNCHANGED <<z80, owed, executed, skipped>>)
    BY <1>7, BusTypes DEF place, UpToDate
  <2>1. CASE (BusRequest /\ reset) \/ (ResetOn /\ busreq) \/ ResetOff
    <3>1. UpToDate
      BY <2>1 DEF BusRequest, ResetOn, ResetOff
    <3>2. Held /\ (lateRelease => lateRelease')
      <4>1. CASE (BusRequest /\ reset) \/ (ResetOn /\ busreq)
        <5>1. lateRelease' = lateRelease
          BY <4>1 DEF BusRequest, ResetOn
        <5> QED BY Zenon, <4>1, <5>1 DEF Held
      <4>2. CASE ResetOff
        <5>1. reset /\ lateRelease' = (lateRelease \/ (~busreq /\ "held" \in owed))
          BY <4>2 DEF ResetOff
        <5> QED BY Zenon, <5>1 DEF Held
      <4> QED BY <2>1, <4>1, <4>2
    <3>3. ~Held' /\ "held" \in owed => lateRelease'
      <4>1. CASE (BusRequest /\ reset) \/ (ResetOn /\ busreq)
        BY <4>1 DEF BusRequest, ResetOn, Held
      <4>2. CASE ResetOff
        <5>1. busreq' = busreq /\ lateRelease' = (lateRelease \/ (~busreq /\ "held" \in owed))
          BY <4>2 DEF ResetOff
        <5> QED BY Zenon, <5>1 DEF Held
      <4> QED BY <2>1, <4>1, <4>2
    <3> QED BY <1>7, <2>0, <3>1, <3>2, <3>3 DEF AccountInv, ExecutedWasFree, SkippedWasHeld,
            OwedIsLag, OwedIsKind, Target, Z80Max, InFrame
  <2>2. CASE (BusRequest /\ ~reset) \/ (ResetOn /\ ~busreq) \/ BusCancel
    <3>1. \E fake \in BOOLEAN : Sync(fake) /\ (fake <=> Held) /\ lateRelease' = lateRelease
      BY <2>2 DEF BusRequest, ResetOn, BusCancel, Held, Access
    <3>2. owed' = {} /\ "free" \notin skipped' /\ ("held" \in executed' => lateRelease')
      BY <1>7, <3>1, SyncAccount
    <3> QED BY <3>2 DEF AccountInv, ExecutedWasFree, SkippedWasHeld, OwedIsLag, OwedIsKind
  <2> QED BY <1>7, <2>1, <2>2 DEF Bus
<1> QED BY <1>1, <1>2, <1>3, <1>4, <1>5, <1>6, <1>7, <1>8 DEF CpuNext, OneFrame, RunPart

LEMMA AccountAlways == CpuSpec => []AccountInv
<1>1. CpuInit => AccountInv
  BY DEF CpuInit, IrqInit, AccountInv, ExecutedWasFree, SkippedWasHeld, InFrame
<1> QED BY <1>1, AccountStep, CpuPartsAlways, PTL DEF CpuSpec

(* The Z80 runs for no cycle in which the 68K held it, late releases of the  *)
(* reset apart.                                                              *)
THEOREM ExecutedWasFreeAlways == CpuSpec => []ExecutedWasFree
<1>1. AccountInv => ExecutedWasFree
  BY DEF AccountInv
<1> QED BY <1>1, AccountAlways, PTL

(* No cycle in which the Z80 was free is dropped.                            *)
THEOREM SkippedWasHeldAlways == CpuSpec => []SkippedWasHeld
<1>1. AccountInv => SkippedWasHeld
  BY DEF AccountInv
<1> QED BY <1>1, AccountAlways, PTL

-----------------------------------------------------------------------------
(***************************************************************************)
(* The Z80's interrupt.                                                    *)
(***************************************************************************)
\* The interrupt is down between frames, and only the first line of vblank has
\* a delay before its display part.
VblankInv ==
  /\ Z80IrqInVblank
  /\ ~InFrame => ~z80Irq
  /\ InFrame /\ part = "vdelay" => line = VblankLine

LEMMA VblankStep == CpuParts /\ VblankInv /\ [CpuNext]_cpuVars => VblankInv'
<1> SUFFICES ASSUME CpuParts, VblankInv, [CpuNext]_cpuVars PROVE VblankInv'
  OBVIOUS
<1> USE DEF VblankInv, Z80IrqInVblank
<1>0. line \in Nat /\ line < Lines
  BY CyclesAreNat DEF CpuParts, PlaceOK
<1>1. CASE CpuStartFrame
  BY <1>1 DEF CpuStartFrame, StartFrame, Enter, InFrame
<1>2. CASE CpuReset
  BY <1>2 DEF CpuReset, IrqReset, IrqCleared, PlaceCleared, InFrame
<1>3. CASE LoadState
  BY <1>3 DEF LoadState, IrqLoad, IrqCleared, PlaceCleared, InFrame
<1>4. CASE InFrame /\ (BeginLine \/ RunPart \/ GameIrq \/ Bus)
  <2>1. UNCHANGED <<line, part, z80Irq>>
    BY <1>4 DEF BeginLine, RunPart, M68kStep, M68kDone, Z80Run, GameIrq, Bus, BusRequest,
       BusCancel, ResetOn, ResetOff, Access, place, z80Vars
  <2>2. phase' = phase
    BY <1>4 DEF BeginLine, HintTrigger, RunPart, M68kStep, M68kDone, Z80Run, GameIrq,
       GameRegisters, WriteVintEnable, WriteHintEnable, Acknowledge, Bus, BusRequest,
       BusCancel, ResetOn, ResetOff, Access, irqVars
  <2> QED BY <1>4, <2>1, <2>2 DEF InFrame
<1>5. CASE InFrame /\ EndHblank
  BY <1>5 DEF EndHblank, RaiseVintFlag, Begin, irqVars, InFrame
<1>6. CASE InFrame /\ EndVdelay
  BY <1>6 DEF EndVdelay, VintTrigger, Begin, InFrame
<1>7. CASE InFrame /\ EndLine
  BY <1>0, <1>7, CyclesAreNat DEF EndLine, Z80IrqLeft, Begin, irqVars, InFrame
<1>8. CASE InFrame /\ EndFrame
  <2>1. line # VblankLine
    BY <1>0, <1>8, CyclesAreNat DEF EndFrame
  <2>2. ~z80Irq'
    BY <1>8, <2>1 DEF EndFrame, Z80IrqLeft
  <2>3. ~InFrame'
    BY <1>8 DEF EndFrame, FinishFrame, Enter, InFrame
  <2> QED BY <2>2, <2>3
<1>9. CASE UNCHANGED cpuVars
  BY <1>9 DEF cpuVars, irqVars, place, z80Vars, InFrame
<1> QED BY <1>1, <1>2, <1>3, <1>4, <1>5, <1>6, <1>7, <1>8, <1>9 DEF CpuNext, OneFrame

(* The Z80's interrupt never reaches into the next frame.                    *)
THEOREM Z80IrqInVblankAlways == CpuSpec => []Z80IrqInVblank
<1>1. CpuInit => VblankInv
  BY DEF CpuInit, IrqInit, VblankInv, Z80IrqInVblank, InFrame
<1>2. VblankInv => Z80IrqInVblank
  BY DEF VblankInv
<1> QED BY <1>1, <1>2, VblankStep, CpuPartsAlways, PTL DEF CpuSpec

(* With two CPUs that are given cycles, held and reset, the interrupts keep  *)
(* every promise VdpIrq makes of them.                                       *)
THEOREM CpuKeepsIrq ==
  CpuSpec => /\ [](AssertedIsPending /\ FlagMeansPending)
             /\ VintConsumedAsLevel6 /\ HintSurvivesVint
BY CpuImplementsIrq, AssertedIsPendingAlways, FlagMeansPendingAlways,
   VintConsumedAsLevel6Always, HintSurvivesVintAlways, PTL
=============================================================================
