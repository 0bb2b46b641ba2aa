------------------------------- MODULE SegaVR -------------------------------
(***************************************************************************)
(* The Sega VR headset of segavr/md_vr.cpp: the request protocol a game    *)
(* drives through the second pad port (0xA10005, direction mask at         *)
(* 0xA1000B), the eye the headset asks the game to draw, and the vblank    *)
(* counter that swaps eyes and times the headset out.                      *)
(*                                                                         *)
(* Every handler of md_vr.cpp that touches this state is one action.  The  *)
(* callers (68K bus, VDP interrupt trigger, main loop) may call them in    *)
(* any order here; SegaVRFrame restricts the order to the one of the     *)
(* frame loop.                                                             *)
(***************************************************************************)
EXTENDS Integers, FiniteSets

CONSTANTS
  Angles,           \* encodings of the head angles (18 bits in the code)
  Straight,         \* the encoding of pitch 0, yaw 0
  Masks,            \* bytes a game writes to 0xA1000B
  Values,           \* bytes a game writes to 0xA10005
  FlipInVblank,     \* dgen_segavr_flipinvblank
  EyeSwapInterval,  \* dgen_segavr_eyeswapinterval
  TimeoutInterval,  \* dgen_segavr_timeoutinterval, 0: never
  MaxVblankCount    \* bound of mHmdVblankCounter, for TLC only

\* skHMDThMask, skHMDIdle and skHMDReset.
HMDThMask == 96
HMDIdle == 96
HMDReset == 64

ASSUME SegaVRAssumption ==
  /\ Straight \in Angles
  /\ Masks \subseteq 0..255 /\ HMDThMask \in Masks
  /\ Values \subseteq 0..255
  /\ FlipInVblank \in BOOLEAN
  /\ EyeSwapInterval \in Nat \ {0}
  /\ TimeoutInterval \in Nat
  /\ MaxVblankCount \in Nat

\* Values of mHmdRequestIndex; 0..4 are the five data nibbles.
IndexReset == -4
IndexIdle == -3
IndexID0 == -2
IndexID1 == -1
Nibbles == 0..4

VARIABLES
  thRwMask,       \* mHmdThRwMask
  requestBit,     \* mHmdRequestBit, as bit 5 of the last byte: 0 or 1
  requestIndex,   \* mHmdRequestIndex
  angles,         \* mHmdAngles
  moving,         \* mHmdAVel is not (0, 0)
  encoded,        \* mHmdEncoded: the eye bits set in it, and its angle bits
  vblankCounter,  \* mHmdVblankCounter
  isActive, vblankedOnLeft, justReset, swapEyes,  \* bits of mHmdFlags
  polled,         \* history: nibble 0 was read since the last vblank
  restarted,      \* history: the headset was reset since the last vblank
  silent          \* history: vblanks since nibble 0 was read or the headset
                  \* reset, TimeoutInterval at most

linkVars == <<thRwMask, requestBit, requestIndex, justReset>>
headVars == <<angles, moving>>
eyeVars == <<encoded, vblankCounter, isActive, vblankedOnLeft, swapEyes, polled,
             restarted, silent>>
segavrVars == <<linkVars, headVars, eyeVars>>

-----------------------------------------------------------------------------
(* Eye bits                                                                *)

Eyes == {"left", "right"}

Encodings == [eyes : SUBSET Eyes, angles : Angles]

\* Mutant: the swap sets the new eye bit and keeps the old one.
SwapEyeBitsKeepsOld(e) ==
  [e EXCEPT !.eyes = IF "left" \in @ THEN @ \cup {"right"} ELSE @ \cup {"left"}]

\* swap_hmd_eye_bits: no eye bit at all counts as "not left".
SwapEyeBits(e) ==
  [e EXCEPT !.eyes = IF "left" \in e.eyes THEN {"right"} ELSE {"left"}]

\* What one read of the port answers: the TL line (bit 4) and a payload that
\* stands for the other bits of the byte.  TL is low on every even nibble.
Answer(index, enc) ==
  CASE index = IndexReset -> [tl |-> 0, data |-> "reset"]
    [] index = IndexIdle  -> [tl |-> 1, data |-> "idle"]
    [] index = IndexID0   -> [tl |-> 0, data |-> "id0"]
    [] index = IndexID1   -> [tl |-> 1, data |-> "id1"]
    [] index \in Nibbles  -> [tl |-> index % 2, data |-> enc]

\* Mutants: a counter that is never wrapped, and a modulo never negative.
SuccessorUnbounded(index) == index + 1
SuccessorFloored(index) == (index + 1) % 5

\* (mHmdRequestIndex + 1) % 5 of C, which keeps the sign of the dividend.
Successor(index) == IF index + 1 < 0 THEN index + 1 ELSE (index + 1) % 5

-----------------------------------------------------------------------------
(* segavr_init, called by the constructor of md and by md::reset           *)

Init ==
  /\ thRwMask = 0 /\ requestBit = 0 /\ requestIndex = 0
  /\ angles = Straight /\ moving = FALSE
  /\ encoded = [eyes |-> {}, angles |-> Straight]
  /\ vblankCounter = 0
  /\ isActive = FALSE /\ vblankedOnLeft = FALSE
  /\ justReset = FALSE /\ swapEyes = FALSE
  /\ polled = FALSE /\ restarted = TRUE /\ silent = 0

HmdInit ==
  /\ thRwMask' = 0 /\ requestBit' = 0 /\ requestIndex' = 0
  /\ angles' = Straight /\ moving' = FALSE
  /\ encoded' = [eyes |-> {}, angles |-> Straight]
  /\ vblankCounter' = 0
  /\ isActive' = FALSE /\ vblankedOnLeft' = FALSE
  /\ justReset' = FALSE /\ swapEyes' = FALSE
  /\ polled' = FALSE /\ restarted' = TRUE /\ silent' = 0

-----------------------------------------------------------------------------
(* segavr_catch_io_write, 0xA10005                                         *)

PortDriven == thRwMask = HMDThMask

WriteIdle ==
  /\ requestIndex' = IndexIdle /\ requestBit' = 0
  /\ UNCHANGED <<thRwMask, justReset, headVars, eyeVars>>

WriteReset ==
  /\ requestIndex' = IndexReset /\ requestBit' = 0
  /\ isActive' = TRUE /\ vblankCounter' = 0
  /\ angles' = Straight
  /\ encoded' = [eyes |-> {"left"}, angles |-> Straight]
  /\ restarted' = TRUE /\ silent' = 0
  /\ UNCHANGED <<thRwMask, justReset, moving, vblankedOnLeft, swapEyes, polled>>

TrBit(d) == (d \div 32) % 2

\* The id nibbles are sent once after a reset the game saw acknowledged.
ToggledIndex ==
  IF Successor(requestIndex) = IndexID0 /\ ~justReset
  THEN 0 ELSE Successor(requestIndex)

WriteRequest(d) ==
  \/ /\ TrBit(d) # requestBit
     /\ requestBit' = TrBit(d)
     /\ requestIndex' = ToggledIndex
     /\ justReset' = (justReset /\ Successor(requestIndex) # IndexID0)
     /\ UNCHANGED <<thRwMask, headVars, eyeVars>>
  \/ TrBit(d) = requestBit /\ UNCHANGED segavrVars

WriteData(d) ==
  /\ PortDriven
  /\ CASE d = HMDIdle -> WriteIdle
       [] d = HMDReset -> WriteReset
       [] OTHER -> WriteRequest(d)

(* segavr_catch_io_write, 0xA1000B                                         *)
WriteMask(d) ==
  /\ thRwMask' = d
  /\ requestBit' = 0
  /\ requestIndex' = IndexID1
  /\ UNCHANGED <<justReset, headVars, eyeVars>>

-----------------------------------------------------------------------------
(* segavr_catch_io_read: the eye may swap when nibble 0 is read            *)

\* Mutant: off by one.
SwapDueOnReadLate == ~FlipInVblank /\ vblankCounter > EyeSwapInterval

SwapDueOnRead == ~FlipInVblank /\ vblankCounter >= EyeSwapInterval

ReadReset ==
  /\ requestIndex = IndexReset
  /\ justReset' = TRUE
  /\ UNCHANGED <<thRwMask, requestBit, requestIndex, headVars, eyeVars>>

\* Mutant: the swap on a read does not restart the vblank count.
ReadNibbleZeroKeepsCount ==
  /\ requestIndex = 0
  /\ encoded' = IF SwapDueOnRead THEN SwapEyeBits(encoded) ELSE encoded
  /\ polled' = TRUE /\ silent' = 0
  /\ UNCHANGED <<linkVars, headVars, vblankCounter, isActive, vblankedOnLeft,
                 swapEyes, restarted>>

ReadNibbleZero ==
  /\ requestIndex = 0
  /\ encoded' = IF SwapDueOnRead THEN SwapEyeBits(encoded) ELSE encoded
  /\ vblankCounter' = IF SwapDueOnRead THEN 0 ELSE vblankCounter
  /\ polled' = TRUE /\ silent' = 0
  /\ UNCHANGED <<linkVars, headVars, isActive, vblankedOnLeft, swapEyes,
                 restarted>>

ReadOther ==
  /\ requestIndex \notin {IndexReset, 0}
  /\ UNCHANGED segavrVars

ReadData == PortDriven /\ (ReadReset \/ ReadNibbleZero \/ ReadOther)

-----------------------------------------------------------------------------
(* segavr_register_vblank, called by m68k_vdp_irq_trigger                  *)

\* Mutants: an off-by-one, and a timeout that only flipping in vblank checks.
TimedOutLate(count) == TimeoutInterval > 0 /\ count > TimeoutInterval
TimedOutOnFlip(count) ==
  TimeoutInterval > 0 /\ count >= TimeoutInterval /\ FlipInVblank

TimedOut(count) == TimeoutInterval > 0 /\ count >= TimeoutInterval

\* Mutant: off by one.
FlipDueLate(count) == FlipInVblank /\ count > EyeSwapInterval

FlipDue(count) == FlipInVblank /\ count >= EyeSwapInterval

\* The eye recorded for the next scan is the one before a flip in vblank.
RegisterVblank ==
  LET count == vblankCounter + 1
      enc == IF swapEyes THEN SwapEyeBits(encoded) ELSE encoded
      flip == isActive /\ ~TimedOut(count) /\ FlipDue(count)
  IN  /\ count <= MaxVblankCount
      /\ swapEyes' = FALSE
      /\ vblankedOnLeft' = ("left" \in enc.eyes)
      /\ isActive' = (isActive /\ ~TimedOut(count))
      /\ encoded' = IF flip THEN SwapEyeBits(enc) ELSE enc
      /\ vblankCounter' = IF flip THEN 0 ELSE count
      /\ polled' = FALSE /\ restarted' = FALSE
      /\ silent' = IF silent < TimeoutInterval THEN silent + 1 ELSE silent
      /\ UNCHANGED <<linkVars, headVars>>

-----------------------------------------------------------------------------
(* Head movement and the "headsmack" control                               *)

\* segavr_set_hmd_movement, from the key, joystick and mouse controls.
SetMovement(on) ==
  /\ moving' = on
  /\ UNCHANGED <<linkVars, angles, eyeVars>>

\* segavr_update_hmd_angles keeps the eye bits.
UpdateAngles(a) ==
  /\ angles' = a
  /\ encoded' = [encoded EXCEPT !.angles = a]

\* segavr_apply_hmd_movement, once per turn of the main loop.
ApplyMovement ==
  /\ moving
  /\ \E a \in Angles : UpdateAngles(a)
  /\ UNCHANGED <<linkVars, moving, vblankCounter, isActive, vblankedOnLeft,
                 swapEyes, polled, restarted, silent>>

\* segavr_headsmack
Headsmack ==
  /\ swapEyes' = TRUE
  /\ UNCHANGED <<linkVars, headVars, encoded, vblankCounter, isActive,
                 vblankedOnLeft, polled, restarted, silent>>

-----------------------------------------------------------------------------
GameAccess == \/ ReadData
              \/ \E d \in Values : WriteData(d)
              \/ \E d \in Masks : WriteMask(d)

Next == \/ GameAccess
        \/ RegisterVblank
        \/ \E on \in BOOLEAN : SetMovement(on)
        \/ ApplyMovement
        \/ Headsmack
        \/ HmdInit

Spec == Init /\ [][Next]_segavrVars

\* The VDP keeps triggering vertical interrupts.
FairSpec == Spec /\ WF_segavrVars(RegisterVblank)

-----------------------------------------------------------------------------
TypeOK ==
  /\ thRwMask \in {0} \cup Masks
  /\ requestBit \in {0, 1}
  /\ requestIndex \in {IndexReset, IndexIdle, IndexID0, IndexID1} \cup Nibbles
  /\ angles \in Angles /\ moving \in BOOLEAN
  /\ encoded \in Encodings
  /\ vblankCounter \in 0..MaxVblankCount
  /\ isActive \in BOOLEAN /\ vblankedOnLeft \in BOOLEAN
  /\ justReset \in BOOLEAN /\ swapEyes \in BOOLEAN
  /\ polled \in BOOLEAN /\ restarted \in BOOLEAN /\ silent \in 0..TimeoutInterval

\* The headset names one eye at most, and exactly one once a game has reset
\* it: reads, vblanks, resets and headsmacks rewrite the eye bits
\* independently of each other, in any order.
OneEye ==
  /\ Cardinality(encoded.eyes) <= 1
  /\ isActive => Cardinality(encoded.eyes) = 1

\* Unless eyes flip in vblank, a headset that stays active was polled at nibble
\* 0 or reset by the game less than TimeoutInterval vblanks ago.  md_vr.cpp
\* measures that with the counter that also paces the eyes: a read clears it
\* only when it swaps the eye, so the counter may run ahead of the silence of
\* the game but must never fall behind it.  (Every flip in vblank clears it
\* without a poll, so a flipping headset may stay active for ever.)
TimeoutHonoured ==
  TimeoutInterval > 0 /\ isActive /\ ~FlipInVblank => silent < TimeoutInterval

\* When eyes flip in vblank an active headset never keeps an eye for more
\* than EyeSwapInterval vblanks.
FlipKeepsPace == FlipInVblank /\ isActive => vblankCounter < EyeSwapInterval

\* The angles a game reads are the head's angles, not older ones, although
\* the eye bits share the word and are rewritten separately.
EncodedTracksAngles == encoded.angles = angles

\* A game that reads nibble 0 several times in a vblank period is told the
\* same eye each time, unless it resets the headset in between.
EyeSteadyBetweenVblanks ==
  [][polled /\ polled' =>
       \/ encoded'.eyes = encoded.eyes
       \/ requestIndex' = IndexReset /\ encoded'.eyes = {"left"}]_segavrVars

\* Under the default settings a game that polls once a vblank period draws the
\* eyes in turn: each vblank records the other eye than the one before, unless
\* the headset was reset or smacked in between.
EyesAlternate ==
  [][RegisterVblank /\ ~FlipInVblank /\ EyeSwapInterval = 1
       /\ polled /\ ~restarted /\ ~swapEyes
     => vblankedOnLeft' # vblankedOnLeft]_segavrVars

\* The TL line a driver waits for changes with every request it toggles and
\* with no other, so the driver can tell the new nibble from the old one and a
\* byte written twice skips none; only the step from nibble 4 back to nibble 0
\* keeps the line.
HandshakeAlternates ==
  [][\A d \in Values \ {HMDIdle, HMDReset} : WriteData(d) =>
       IF requestBit' = requestBit
       THEN requestIndex' = requestIndex
       ELSE \/ Answer(requestIndex', encoded).tl # Answer(requestIndex, encoded).tl
            \/ requestIndex = 4]_segavrVars

\* A headset that no game polls or resets any more goes inactive, so that the
\* main loop may skip frames again (segavr_allow_frameskip).
AbandonedTimesOut ==
  <>[][~(ReadNibbleZero \/ WriteReset)]_segavrVars => <>[]~isActive
=============================================================================
