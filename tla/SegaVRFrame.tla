---------------------------- MODULE SegaVRFrame ----------------------------
(***************************************************************************)
(* The Sega VR headset inside a frame: one_frame walks over the lines and   *)
(* raises interrupts (VdpIrq), every vertical one registers a vblank with   *)
(* the headset (SegaVR), and the game acknowledges and polls in between.    *)
(* Controls, head movement and resets are handled between frames only, by   *)
(* the main loop.                                                           *)
(***************************************************************************)
EXTENDS SegaVR, VdpIrq

VARIABLES
  scannedOnLeft,  \* skHmdFlag_ScannedOnLeft
  told,           \* history: eye the game last read from nibble 0
  latched,        \* history: told, at the last vblank
  scanned         \* history: latched, when the last scan began

tellVars == <<told, latched, scanned>>
frameVars == <<segavrVars, irqVars, scannedOnLeft, tellVars>>

\* No eye was told yet, or not the one that is encoded.
Nothing == "none"

InFrame == phase # "idle"

FrameInit ==
  /\ Init /\ IrqInit
  /\ scannedOnLeft = FALSE
  /\ told = Nothing /\ latched = Nothing /\ scanned = Nothing

-----------------------------------------------------------------------------
(* one_frame                                                               *)

\* Mutant: the scan begins on the eye that is encoded now.
BeginScanEncoded ==
  /\ StartFrame
  /\ scannedOnLeft' = ("left" \in encoded.eyes)
  /\ scanned' = latched
  /\ UNCHANGED <<segavrVars, told, latched>>

\* segavr_begin_scan, when the first line starts.
BeginScan ==
  /\ StartFrame
  /\ scannedOnLeft' = vblankedOnLeft
  /\ scanned' = latched
  /\ UNCHANGED <<segavrVars, told, latched>>

\* What a registered vblank does to the told eye: a headsmack or a flip makes
\* the headset deviate from what the game was told.
RegisterTold ==
  /\ latched' = IF swapEyes THEN Nothing ELSE told
  /\ told' = IF encoded'.eyes = encoded.eyes THEN told ELSE Nothing
  /\ UNCHANGED scanned

\* The call of segavr_register_vblank in m68k_vdp_irq_trigger: an enabled vint
\* that is still pending registers once more on every hint.
RegisterIf(signalled) ==
  IF signalled THEN RegisterVblank /\ RegisterTold
  ELSE UNCHANGED <<segavrVars, tellVars>>

FrameTrigger ==
  /\ \/ HintTrigger /\ RegisterIf(SignalsVint(vintPending))
     \/ VintTrigger /\ RegisterIf(SignalsVint(TRUE))
  /\ UNCHANGED scannedOnLeft

FrameVintFlag == RaiseVintFlag /\ UNCHANGED <<segavrVars, scannedOnLeft, tellVars>>

\* The last line was run: control returns to the main loop.
EndFrame ==
  /\ FinishFrame
  /\ UNCHANGED <<segavrVars, scannedOnLeft, told, latched, scanned>>

-----------------------------------------------------------------------------
(* The game, run by one_frame between two triggers                         *)

EyeTold(enc) ==
  IF "left" \in enc.eyes THEN "left" ELSE IF "right" \in enc.eyes THEN "right" ELSE Nothing

GamePoll ==
  /\ InFrame
  /\ ReadData
  /\ told' = IF requestIndex = 0 THEN EyeTold(encoded') ELSE told
  /\ UNCHANGED <<irqVars, scannedOnLeft, latched, scanned>>

GameWrite ==
  /\ InFrame
  /\ (\E d \in Values : WriteData(d)) \/ (\E d \in Masks : WriteMask(d))
  /\ told' = IF requestIndex' = IndexReset THEN Nothing ELSE told
  /\ UNCHANGED <<irqVars, scannedOnLeft, latched, scanned>>

GameIrq ==
  /\ Acknowledge \/ GameRegisters
  /\ UNCHANGED <<segavrVars, scannedOnLeft, tellVars>>

-----------------------------------------------------------------------------
(* The main loop between two frames                                        *)

\* ctl_hmd, ctl_hmd_release and ctl_hmd_headsmack, from pd_handle_events.
HeadControl ==
  /\ ~InFrame
  /\ (\E on \in BOOLEAN : SetMovement(on)) \/ Headsmack
  /\ UNCHANGED <<irqVars, scannedOnLeft, tellVars>>

\* segavr_apply_hmd_movement at the end of a turn of the main loop.
HeadMove ==
  /\ ~InFrame
  /\ ApplyMovement
  /\ UNCHANGED <<irqVars, scannedOnLeft, tellVars>>

\* md::reset, from the reset control or when a state is loaded.
MachineReset ==
  /\ HmdInit
  /\ IrqReset \/ IrqLoad
  /\ scannedOnLeft' = FALSE
  /\ told' = Nothing /\ latched' = Nothing /\ scanned' = Nothing

-----------------------------------------------------------------------------
FrameNext ==
  \/ BeginScan \/ FrameTrigger \/ FrameVintFlag \/ EndFrame
  \/ GamePoll \/ GameWrite \/ GameIrq
  \/ HeadControl \/ HeadMove \/ MachineReset

FrameSpec == FrameInit /\ [][FrameNext]_frameVars

-----------------------------------------------------------------------------
FrameTypeOK ==
  /\ TypeOK /\ IrqTypeOK
  /\ scannedOnLeft \in BOOLEAN
  /\ {told, latched, scanned} \subseteq Eyes \cup {Nothing}

\* The picture that steal_frame takes for the left eye is the one whose scan
\* began after the vblank in which the game had been told "left", and
\* likewise for the right eye, whatever the game polls in between.
ScannedEyeIsToldEye == scanned # Nothing => (scannedOnLeft <=> scanned = "left")
=============================================================================
