------------------------------- MODULE VdpIrq -------------------------------
(***************************************************************************)
(* The interrupts of the video chip (mdfr.cpp, mem.cpp): one_frame raises  *)
(* horizontal and vertical interrupts while it walks over the lines of a   *)
(* frame, m68k_vdp_irq_trigger turns them into a level on the 68K's        *)
(* interrupt line, and m68k_vdp_irq_handler runs when the 68K acknowledges *)
(* that level.  The game enables either kind with VDP registers 0 and 1 at *)
(* any moment, also between the trigger and the acknowledge.               *)
(*                                                                         *)
(* The 68K is outside this module: it acknowledges an asserted level at    *)
(* once, later, or never (its mask may be up), which is what the           *)
(* level-triggered cores (Musashi, Cyclone) do.                            *)
(***************************************************************************)
EXTENDS Naturals

VARIABLES
  phase,         \* where one_frame is: "lines", "delay" (vint flag shown,
                 \* interrupt not raised yet), "vblank", or "idle" outside
  vintPending,   \* vdp.vint_pending
  hintPending,   \* vdp.hint_pending
  vintEnabled,   \* vdp.reg[1] & 0x20
  hintEnabled,   \* vdp.reg[0] & 0x10
  vintFlag,      \* coo5 & 0x80, the vint flag of the status register
  irq,           \* level given to m68k_irq: 0, 4 or 6
  stale,         \* history: the level was asserted before a reset
  lateEnable     \* history: vint was enabled while pending but not asserted

irqVars == <<phase, vintPending, hintPending, vintEnabled, hintEnabled,
             vintFlag, irq, stale, lateEnable>>

IrqInit ==
  /\ phase = "idle"
  /\ vintPending = FALSE /\ hintPending = FALSE
  /\ vintEnabled = FALSE /\ hintEnabled = FALSE
  /\ vintFlag = FALSE
  /\ irq = 0
  /\ stale = FALSE /\ lateEnable = FALSE

-----------------------------------------------------------------------------
(* m68k_vdp_irq_trigger: vint before hint, and 0 withdraws the line        *)

\* Mutant: hint has priority.
LevelHintFirst(vint, hint) ==
  IF hint /\ hintEnabled THEN 4 ELSE IF vint /\ vintEnabled THEN 6 ELSE 0

Level(vint, hint) ==
  IF vint /\ vintEnabled THEN 6 ELSE IF hint /\ hintEnabled THEN 4 ELSE 0

\* The trigger after the pending bits became vint and hint.
Trigger(vint, hint) ==
  /\ vintPending' = vint /\ hintPending' = hint
  /\ irq' = Level(vint, hint)
  /\ stale' = FALSE
  /\ lateEnable' = FALSE

\* Does the trigger signal a vertical interrupt (and so register a vblank
\* with the Sega VR)?  Mutant: also when the game has it disabled.
SignalsVintAlways(vint) == vint
SignalsVint(vint) == vint /\ vintEnabled

\* The line counter ran out on a displayed line, or on the first line of
\* vblank before the vint flag is set.
HintTrigger ==
  /\ phase = "lines"
  /\ Trigger(vintPending, TRUE)
  /\ UNCHANGED <<phase, vintEnabled, hintEnabled, vintFlag>>

\* "Toggle vint flag", some cycles before the interrupt itself.
RaiseVintFlag ==
  /\ phase = "lines"
  /\ phase' = "delay"
  /\ vintFlag' = TRUE
  /\ UNCHANGED <<vintPending, hintPending, vintEnabled, hintEnabled, irq,
                 stale, lateEnable>>

VintTrigger ==
  /\ phase = "delay"
  /\ phase' = "vblank"
  /\ Trigger(TRUE, hintPending)
  /\ UNCHANGED <<vintEnabled, hintEnabled, vintFlag>>

Enter(from, to) ==
  /\ phase = from
  /\ phase' = to
  /\ UNCHANGED <<vintPending, hintPending, vintEnabled, hintEnabled, vintFlag,
                 irq, stale, lateEnable>>

StartFrame == Enter("idle", "lines")

FinishFrame == Enter("vblank", "idle")

-----------------------------------------------------------------------------
(* The game and the 68K, which run inside one_frame only                   *)

\* Writing a VDP register does not trigger anything (write_reg).
WriteVintEnable(on) ==
  /\ phase # "idle"
  /\ vintEnabled' = on
  /\ lateEnable' = (\/ lateEnable
                    \/ on /\ ~vintEnabled /\ vintPending /\ irq # 6)
  /\ UNCHANGED <<phase, vintPending, hintPending, hintEnabled, vintFlag, irq,
                 stale>>

WriteHintEnable(on) ==
  /\ phase # "idle"
  /\ hintEnabled' = on
  /\ UNCHANGED <<phase, vintPending, hintPending, vintEnabled, vintFlag, irq,
                 stale, lateEnable>>

\* What the acknowledge leaves behind: the vint, the status flag (mutant: never
\* cleared), the hint (mutant: goes with the vint) and the level (mutant: stays
\* up).
VintLeft == vintPending /\ ~SignalsVint(vintPending)

FlagNotCleared == vintFlag
FlagLeft == vintFlag /\ ~SignalsVint(vintPending)

VintTakesHint == FALSE
HintLeft == SignalsVint(vintPending) /\ hintPending /\ hintEnabled

LineStaysUp == IF HintLeft THEN 4 ELSE irq
LevelLeft == IF HintLeft THEN 4 ELSE 0

\* m68k_vdp_irq_handler, which is not told the acknowledged level.
Acknowledge ==
  /\ phase # "idle" /\ irq # 0
  /\ vintPending' = VintLeft
  /\ vintFlag' = FlagLeft
  /\ hintPending' = HintLeft
  /\ irq' = LevelLeft
  /\ stale' = FALSE
  /\ UNCHANGED <<phase, vintEnabled, hintEnabled, lateEnable>>

\* md::reset clears the VDP and the status, between two frames; no m68k_irq
\* call withdraws the level.
IrqCleared ==
  /\ phase = "idle"
  /\ vintPending' = FALSE /\ hintPending' = FALSE
  /\ vintFlag' = FALSE /\ lateEnable' = FALSE
  /\ stale' = (irq # 0)
  /\ UNCHANGED <<phase, irq>>

IrqReset == IrqCleared /\ vintEnabled' = FALSE /\ hintEnabled' = FALSE

\* import_gst resets the machine, then takes the registers of the saved one.
IrqLoad == IrqCleared /\ vintEnabled' \in BOOLEAN /\ hintEnabled' \in BOOLEAN

-----------------------------------------------------------------------------
GameRegisters == \E on \in BOOLEAN : WriteVintEnable(on) \/ WriteHintEnable(on)

FrameStep ==
  StartFrame \/ HintTrigger \/ RaiseVintFlag \/ VintTrigger \/ FinishFrame

IrqNext == FrameStep \/ GameRegisters \/ Acknowledge \/ IrqReset \/ IrqLoad

IrqSpec == IrqInit /\ [][IrqNext]_irqVars

\* The main loop keeps drawing frames; nothing makes the 68K acknowledge.
IrqFairSpec ==
  /\ IrqSpec
  /\ WF_irqVars(StartFrame) /\ WF_irqVars(RaiseVintFlag)
  /\ WF_irqVars(VintTrigger) /\ WF_irqVars(FinishFrame)

-----------------------------------------------------------------------------
IrqTypeOK ==
  /\ phase \in {"idle", "lines", "delay", "vblank"}
  /\ vintPending \in BOOLEAN /\ hintPending \in BOOLEAN
  /\ vintEnabled \in BOOLEAN /\ hintEnabled \in BOOLEAN
  /\ vintFlag \in BOOLEAN
  /\ irq \in {0, 4, 6}
  /\ stale \in BOOLEAN /\ lateEnable \in BOOLEAN

\* The 68K is never interrupted for nothing: an asserted level has its
\* interrupt pending, unless the level survived a reset of the machine.
AssertedIsPending ==
  /\ irq = 6 => vintPending \/ stale
  /\ irq = 4 => hintPending \/ stale

\* A game that polls the status register instead of taking the interrupt
\* sees the vint flag only while the interrupt is still to be delivered, or
\* is about to be raised.
FlagMeansPending == vintFlag => vintPending \/ phase = "delay"

\* A vertical interrupt is consumed by an acknowledge of level 6.  The one
\* exception: the game enables it late, while the line still carries the
\* level of a horizontal interrupt, whose acknowledge then consumes it.
VintConsumedAsLevel6 ==
  [][vintPending /\ ~vintPending' => irq = 6 \/ lateEnable \/ IrqCleared]_irqVars

\* Taking the vertical interrupt does not lose a horizontal one that the game
\* wants and that was raised before; only a reset of the machine drops both.
HintSurvivesVint ==
  [][vintPending /\ ~vintPending' /\ hintPending /\ hintEnabled
       => (hintPending' /\ irq' = 4) \/ IrqCleared]_irqVars

\* A game that leaves the vertical interrupt enabled gets level 6 on every
\* frame it is ready to take it.
VintDelivered == <>[]vintEnabled => []<>(irq = 6)
=============================================================================
