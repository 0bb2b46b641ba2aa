---------------------------- MODULE VdpIrqProofs ----------------------------
(* Theorems about VdpIrq: the module has no constants, so what TLC finds on  *)
(* its states is complete; the proofs give the argument.                     *)
EXTENDS VdpIrq, TLAPS

(* The line tells 6 whenever an enabled vint is pending, but for a late      *)
(* enable: this is what makes VintConsumedAsLevel6 hold of an acknowledge.   *)
LineIsCurrent ==
  vintPending /\ vintEnabled /\ irq # 6 => lateEnable

IrqInv == IrqTypeOK /\ AssertedIsPending /\ FlagMeansPending /\ LineIsCurrent

LEMMA IrqInvInit == IrqInit => IrqInv
<1> SUFFICES ASSUME IrqInit PROVE IrqInv
  OBVIOUS
<1>1. IrqTypeOK
  BY Zenon DEF IrqInit, IrqTypeOK
<1>2. AssertedIsPending /\ FlagMeansPending /\ LineIsCurrent
  BY DEF IrqInit, AssertedIsPending, FlagMeansPending, LineIsCurrent
<1> QED BY <1>1, <1>2 DEF IrqInv

LEMMA IrqTypeStep == IrqTypeOK /\ [IrqNext]_irqVars => IrqTypeOK'
<1> SUFFICES ASSUME IrqTypeOK, [IrqNext]_irqVars PROVE IrqTypeOK'
  OBVIOUS
<1>1. ASSUME NEW vint \in BOOLEAN, NEW hint \in BOOLEAN, Trigger(vint, hint)
      PROVE  /\ vintPending' \in BOOLEAN /\ hintPending' \in BOOLEAN
             /\ irq' \in {0, 4, 6} /\ stale' \in BOOLEAN /\ lateEnable' \in BOOLEAN
  BY <1>1 DEF Trigger, Level
<1>2. CASE HintTrigger
  BY <1>1, <1>2 DEF HintTrigger, IrqTypeOK
<1>3. CASE RaiseVintFlag
  BY <1>3 DEF RaiseVintFlag, IrqTypeOK
<1>4. CASE VintTrigger
  BY <1>1, <1>4 DEF VintTrigger, IrqTypeOK
<1>5. CASE StartFrame \/ FinishFrame
  BY <1>5 DEF StartFrame, FinishFrame, Enter, IrqTypeOK
<1>6. CASE GameRegisters
  <2>1. ASSUME NEW on \in BOOLEAN, WriteVintEnable(on) PROVE IrqTypeOK'
    BY <2>1 DEF WriteVintEnable, IrqTypeOK
  <2>2. ASSUME NEW on \in BOOLEAN, WriteHintEnable(on) PROVE IrqTypeOK'
    BY <2>2 DEF WriteHintEnable, IrqTypeOK
  <2> QED BY <1>6, <2>1, <2>2 DEF GameRegisters
<1>7. CASE Acknowledge
  BY <1>7 DEF Acknowledge, VintLeft, FlagLeft, HintLeft, LevelLeft, SignalsVint,
     IrqTypeOK
<1>8. CASE IrqReset \/ IrqLoad
  BY <1>8 DEF IrqReset, IrqLoad, IrqCleared, IrqTypeOK
<1>9. CASE UNCHANGED irqVars
  BY <1>9 DEF irqVars, IrqTypeOK
<1> QED BY <1>2, <1>3, <1>4, <1>5, <1>6, <1>7, <1>8, <1>9 DEF IrqNext, FrameStep

LEMMA IrqInvStep == IrqInv /\ [IrqNext]_irqVars => IrqInv'
<1> SUFFICES ASSUME IrqInv, [IrqNext]_irqVars PROVE IrqInv'
  OBVIOUS
<1>0. IrqTypeOK'
  BY IrqTypeStep DEF IrqInv
<1> USE <1>0 DEF IrqInv, IrqTypeOK, AssertedIsPending, FlagMeansPending, LineIsCurrent
<1>1. CASE HintTrigger
  BY <1>1 DEF HintTrigger, Trigger, Level
<1>2. CASE RaiseVintFlag
  BY <1>2 DEF RaiseVintFlag
<1>3. CASE VintTrigger
  BY <1>3 DEF VintTrigger, Trigger, Level
<1>4. CASE StartFrame \/ FinishFrame
  BY <1>4 DEF StartFrame, FinishFrame, Enter
<1>5. CASE GameRegisters
  <2>1. ASSUME NEW on \in BOOLEAN, WriteVintEnable(on) PROVE IrqInv'
    BY <2>1 DEF WriteVintEnable
  <2>2. ASSUME NEW on \in BOOLEAN, WriteHintEnable(on) PROVE IrqInv'
    BY <2>2 DEF WriteHintEnable
  <2> QED BY ONLY <1>5, <2>1, <2>2 DEF GameRegisters
<1>6. CASE Acknowledge
  BY <1>6 DEF Acknowledge, VintLeft, FlagLeft, HintLeft, LevelLeft, SignalsVint
<1>7. CASE IrqReset \/ IrqLoad
  BY <1>7 DEF IrqReset, IrqLoad, IrqCleared
<1>8. CASE UNCHANGED irqVars
  BY <1>8 DEF irqVars
<1> QED BY <1>1, <1>2, <1>3, <1>4, <1>5, <1>6, <1>7, <1>8 DEF IrqNext, FrameStep

LEMMA IrqInvAlways == IrqSpec => []IrqInv
BY IrqInvInit, IrqInvStep, PTL DEF IrqSpec

(* The 68K is interrupted only for an interrupt that is pending.             *)
THEOREM AssertedIsPendingAlways == IrqSpec => []AssertedIsPending
<1>1. IrqInv => AssertedIsPending
  BY DEF IrqInv
<1> QED BY <1>1, IrqInvAlways, PTL

(* The vint flag of the status register announces an interrupt that was not  *)
(* delivered yet.                                                            *)
THEOREM FlagMeansPendingAlways == IrqSpec => []FlagMeansPending
<1>1. IrqInv => FlagMeansPending
  BY DEF IrqInv
<1> QED BY <1>1, IrqInvAlways, PTL

(* No acknowledge of a hint consumes a vint, unless vint was enabled late.   *)
THEOREM VintConsumedAsLevel6Always == IrqSpec => VintConsumedAsLevel6
<1>1. IrqInv /\ [IrqNext]_irqVars =>
        [vintPending /\ ~vintPending' => irq = 6 \/ lateEnable \/ IrqCleared]_irqVars
  <2> SUFFICES ASSUME IrqInv, IrqNext, vintPending, ~vintPending'
               PROVE  irq = 6 \/ lateEnable \/ IrqCleared
    OBVIOUS
  <2>1. CASE FrameStep
    BY <2>1 DEF FrameStep, HintTrigger, RaiseVintFlag, VintTrigger, StartFrame,
       FinishFrame, Enter, Trigger
  <2>2. CASE GameRegisters
    BY <2>2 DEF GameRegisters, WriteVintEnable, WriteHintEnable
  <2>3. CASE Acknowledge
    BY <2>3 DEF Acknowledge, VintLeft, SignalsVint, IrqInv, LineIsCurrent
  <2> QED BY <2>1, <2>2, <2>3 DEF IrqNext, IrqReset, IrqLoad
<1> QED BY <1>1, IrqInvAlways, PTL DEF IrqSpec, VintConsumedAsLevel6

(* An acknowledge of level 6 leaves a hint that the game wants pending, with *)
(* its level on the line: taking the vint never loses a hint.                *)
THEOREM HintSurvivesVintAlways == IrqSpec => HintSurvivesVint
<1>1. IrqInv /\ [IrqNext]_irqVars =>
        [vintPending /\ ~vintPending' /\ hintPending /\ hintEnabled
           => (hintPending' /\ irq' = 4) \/ IrqCleared]_irqVars
  <2> SUFFICES ASSUME IrqInv, IrqNext, vintPending, ~vintPending', hintPending, hintEnabled
               PROVE  (hintPending' /\ irq' = 4) \/ IrqCleared
    OBVIOUS
  <2>1. CASE FrameStep
    BY <2>1 DEF FrameStep, HintTrigger, RaiseVintFlag, VintTrigger, StartFrame,
       FinishFrame, Enter, Trigger
  <2>2. CASE GameRegisters
    BY <2>2 DEF GameRegisters, WriteVintEnable, WriteHintEnable
  <2>3. CASE Acknowledge
    <3>1. SignalsVint(vintPending)
      BY <2>3 DEF Acknowledge, VintLeft
    <3> QED BY <2>3, <3>1 DEF Acknowledge, HintLeft, LevelLeft
  <2>4. CASE IrqReset \/ IrqLoad
    BY <2>4 DEF IrqReset, IrqLoad
  <2> QED BY <2>1, <2>2, <2>3, <2>4 DEF IrqNext
<1> QED BY <1>1, IrqInvAlways, PTL DEF IrqSpec, HintSurvivesVint
=============================================================================
