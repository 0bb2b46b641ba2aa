---------------------------- MODULE SegaVRProofs ----------------------------
(* Theorems about SegaVR, and about the headset inside a frame (SegaVRFrame), *)
(* for every set of angles, every choice of bytes a game writes and every     *)
(* setting of the intervals.                                                  *)
EXTENDS SegaVRFrame, VdpIrqProofs, FiniteSetTheorems

\* The Boolean part of TypeOK, proved apart from the numeric one.
FlagsType ==
  /\ moving \in BOOLEAN /\ isActive \in BOOLEAN /\ vblankedOnLeft \in BOOLEAN
  /\ justReset \in BOOLEAN /\ swapEyes \in BOOLEAN /\ polled \in BOOLEAN
  /\ restarted \in BOOLEAN

Indices == {IndexReset, IndexIdle, IndexID0, IndexID1} \cup Nibbles

(* The index stays in the table that catch_io_read switches over: the        *)
(* remainder of a negative index is the index itself.                        *)
LEMMA SuccessorType ==
  ASSUME NEW i \in Indices
  PROVE  Successor(i) \in Indices
BY DEF Indices, IndexReset, IndexIdle, IndexID0, IndexID1, Nibbles, Successor

LEMMA SwapType ==
  ASSUME NEW e \in Encodings
  PROVE  SwapEyeBits(e) \in Encodings
BY DEF SwapEyeBits, Encodings, Eyes

LEMMA StraightType ==
  /\ [eyes |-> {}, angles |-> Straight] \in Encodings
  /\ [eyes |-> {"left"}, angles |-> Straight] \in Encodings
BY SegaVRAssumption DEF Encodings, Eyes

LEMMA TypeInit == Init => TypeOK
<1>1. [eyes |-> {}, angles |-> Straight] \in Encodings
  BY StraightType
<1>2. Init => FlagsType
  BY DEF Init, FlagsType
<1> QED BY <1>1, <1>2, SegaVRAssumption DEF Init, TypeOK, FlagsType, Nibbles

LEMMA TypeStep == TypeOK /\ [Next]_segavrVars => TypeOK'
<1> SUFFICES ASSUME TypeOK, [Next]_segavrVars PROVE TypeOK'
  OBVIOUS
<1> USE SegaVRAssumption
<1>1. CASE ReadData
  <2>1. CASE ReadReset
    BY <2>1 DEF ReadReset, TypeOK, headVars, eyeVars
  <2>2. CASE ReadNibbleZero
    BY <2>2, SwapType DEF ReadNibbleZero, TypeOK, linkVars, headVars
  <2>3. CASE ReadOther
    BY <2>3 DEF ReadOther, TypeOK, segavrVars, linkVars, headVars, eyeVars
  <2> QED BY <1>1, <2>1, <2>2, <2>3 DEF ReadData
<1>2. ASSUME NEW d \in Values, WriteData(d) PROVE TypeOK'
  <2>1. CASE WriteIdle
    BY <2>1 DEF WriteIdle, TypeOK, headVars, eyeVars
  <2>2. CASE WriteReset
    BY <2>2, StraightType DEF WriteReset, TypeOK
  <2>3. CASE WriteRequest(d)
    <3>1. TrBit(d) \in {0, 1}
      BY DEF TrBit
    <3>2. requestIndex \in Indices
      BY DEF TypeOK, Indices
    <3>3. ToggledIndex \in Indices
      BY <3>2, SuccessorType DEF ToggledIndex, Indices, Nibbles
    <3>4. justReset' \in BOOLEAN
      BY <2>3 DEF WriteRequest, TypeOK, segavrVars, linkVars
    <3> QED BY <2>3, <3>1, <3>3, <3>4
           DEF WriteRequest, TypeOK, Indices, segavrVars, linkVars, headVars, eyeVars
  <2> QED BY <1>2, <2>1, <2>2, <2>3 DEF WriteData
<1>3. ASSUME NEW d \in Masks, WriteMask(d) PROVE TypeOK'
  BY <1>3 DEF WriteMask, TypeOK, headVars, eyeVars
<1>4. CASE RegisterVblank
  <2> DEFINE enc == IF swapEyes THEN SwapEyeBits(encoded) ELSE encoded
  <2>1. enc \in Encodings /\ SwapEyeBits(enc) \in Encodings
    BY SwapType DEF TypeOK
  <2>2. encoded' \in Encodings
    BY <1>4, <2>1 DEF RegisterVblank
  <2>3. vblankCounter' \in 0..MaxVblankCount
    BY <1>4 DEF RegisterVblank, TypeOK
  <2>4. FlagsType'
    <3>1. isActive' \in BOOLEAN /\ vblankedOnLeft' \in BOOLEAN
      <4>1. isActive' = (isActive /\ ~TimedOut(vblankCounter + 1))
        BY <1>4 DEF RegisterVblank
      <4>2. vblankedOnLeft' = ("left" \in enc.eyes)
        BY <1>4 DEF RegisterVblank
      <4>3. (isActive /\ ~TimedOut(vblankCounter + 1)) \in BOOLEAN
        OBVIOUS
      <4>4. ("left" \in enc.eyes) \in BOOLEAN
        OBVIOUS
      <4> HIDE DEF enc
      <4>5. isActive' \in BOOLEAN
        BY <4>1, <4>3, Zenon
      <4>6. vblankedOnLeft' \in BOOLEAN
        BY <4>2, <4>4, Zenon
      <4> QED BY <4>5, <4>6
    <3>2. swapEyes' \in BOOLEAN /\ polled' \in BOOLEAN /\ restarted' \in BOOLEAN
      BY <1>4, Zenon DEF RegisterVblank
    <3>3. moving' \in BOOLEAN /\ justReset' \in BOOLEAN
      BY <1>4 DEF RegisterVblank, TypeOK, linkVars, headVars
    <3> QED BY <3>1, <3>2, <3>3 DEF FlagsType
  <2> QED BY <1>4, <2>2, <2>3, <2>4
         DEF RegisterVblank, TypeOK, FlagsType, linkVars, headVars
<1>5. ASSUME NEW on \in BOOLEAN, SetMovement(on) PROVE TypeOK'
  BY <1>5 DEF SetMovement, TypeOK, linkVars, eyeVars
<1>6. CASE ApplyMovement
  BY <1>6 DEF ApplyMovement, UpdateAngles, TypeOK, linkVars, Encodings
<1>7. CASE Headsmack
  BY <1>7 DEF Headsmack, TypeOK, linkVars, headVars
<1>8. CASE HmdInit
  <2>1. FlagsType'
    BY <1>8 DEF HmdInit, FlagsType
  <2> QED BY <1>8, <2>1, StraightType DEF HmdInit, TypeOK, FlagsType, Nibbles
<1>9. CASE UNCHANGED segavrVars
  BY <1>9 DEF TypeOK, segavrVars, linkVars, headVars, eyeVars
<1> QED BY <1>1, <1>2, <1>3, <1>4, <1>5, <1>6, <1>7, <1>8, <1>9 DEF Next, GameAccess

(* TypeOK is inductive: in particular the request index never leaves the     *)
(* nine values catch_io_read knows.                                          *)
THEOREM TypeCorrect == Spec => []TypeOK
BY TypeInit, TypeStep, PTL DEF Spec

-----------------------------------------------------------------------------
(* The eye and the counter.  OneEye alone is not inductive: that a swap      *)
(* leaves one eye bit needs the bits to be one of three sets, and the steady *)
(* eye needs the counter to be below the swap interval once nibble 0 was     *)
(* read.                                                                     *)

EyeShape ==
  /\ encoded.eyes \in {{}, {"left"}, {"right"}}
  /\ isActive => encoded.eyes # {}

\* The counter never falls behind the silence it is to measure, and no active
\* headset has let it reach the timeout.
SilenceCounted ==
  /\ TimeoutInterval > 0 /\ isActive => vblankCounter < TimeoutInterval
  /\ ~FlipInVblank => silent <= vblankCounter

PolledIsRecent == polled /\ ~FlipInVblank => vblankCounter < EyeSwapInterval

HeadInv ==
  /\ TypeOK
  /\ EyeShape
  /\ SilenceCounted
  /\ FlipKeepsPace
  /\ EncodedTracksAngles
  /\ PolledIsRecent

LEMMA SwapShape ==
  ASSUME NEW e \in Encodings
  PROVE  /\ SwapEyeBits(e).eyes \in {{"left"}, {"right"}}
         /\ SwapEyeBits(e).angles = e.angles
BY DEF SwapEyeBits, Encodings

LEMMA HeadInvInit == Init => HeadInv
<1> SUFFICES ASSUME Init PROVE HeadInv
  OBVIOUS
<1>1. TypeOK
  BY TypeInit
<1>2. EyeShape /\ EncodedTracksAngles
  BY DEF Init, EyeShape, EncodedTracksAngles
<1>3. SilenceCounted /\ FlipKeepsPace /\ PolledIsRecent
  BY DEF Init, SilenceCounted, FlipKeepsPace, PolledIsRecent
<1> QED BY <1>1, <1>2, <1>3 DEF HeadInv

(* A step that leaves the eye state alone keeps the invariant.               *)
LEMMA HeadInvFrame ==
  ASSUME HeadInv, TypeOK', UNCHANGED <<eyeVars, headVars>>
  PROVE  HeadInv'
BY DEF HeadInv, EyeShape, SilenceCounted, FlipKeepsPace, EncodedTracksAngles,
       PolledIsRecent, eyeVars, headVars

LEMMA HeadInvReadNibbleZero ==
  ASSUME HeadInv, TypeOK', ReadNibbleZero
  PROVE  HeadInv'
<1> USE SegaVRAssumption
<1>1. encoded \in Encodings /\ vblankCounter \in Nat
  BY DEF HeadInv, TypeOK
<1>2. EyeShape' /\ EncodedTracksAngles'
  BY <1>1, SwapShape
     DEF HeadInv, ReadNibbleZero, EyeShape, EncodedTracksAngles, headVars
<1>3. /\ vblankCounter' \in {0, vblankCounter} /\ isActive' = isActive
      /\ silent' = 0
  BY DEF ReadNibbleZero
<1>4. SilenceCounted' /\ FlipKeepsPace'
  BY <1>1, <1>3 DEF HeadInv, SilenceCounted, FlipKeepsPace
<1>5. PolledIsRecent'
  BY <1>1 DEF ReadNibbleZero, PolledIsRecent, SwapDueOnRead
<1> QED BY <1>2, <1>4, <1>5 DEF HeadInv

LEMMA HeadInvRegisterVblank ==
  ASSUME HeadInv, TypeOK', RegisterVblank
  PROVE  HeadInv'
<1> USE SegaVRAssumption
<1> DEFINE count == vblankCounter + 1
           enc == IF swapEyes THEN SwapEyeBits(encoded) ELSE encoded
           flip == isActive /\ ~TimedOut(count) /\ FlipDue(count)
<1>1. encoded \in Encodings /\ vblankCounter \in Nat /\ silent \in Nat
  BY DEF HeadInv, TypeOK
<1>2. /\ encoded' = (IF flip THEN SwapEyeBits(enc) ELSE enc)
      /\ vblankCounter' = (IF flip THEN 0 ELSE count)
      /\ isActive' <=> (isActive /\ ~TimedOut(count))
      /\ polled' = FALSE /\ angles' = angles
      /\ silent' \in {silent, silent + 1}
  BY DEF RegisterVblank, headVars
<1>3. enc \in Encodings /\ enc.angles = encoded.angles
      /\ enc.eyes \in {{}, {"left"}, {"right"}} /\ (isActive => enc.eyes # {})
  BY <1>1, SwapType, SwapShape DEF HeadInv, EyeShape
<1>4. EyeShape' /\ EncodedTracksAngles'
  <2> HIDE DEF enc, flip
  <2> QED BY <1>2, <1>3, SwapShape DEF HeadInv, EyeShape, EncodedTracksAngles
<1>5. SilenceCounted'
  <2>1. TimeoutInterval > 0 /\ isActive' => vblankCounter' < TimeoutInterval
    BY <1>1, <1>2 DEF TimedOut
  <2>2. ~FlipInVblank => vblankCounter' = vblankCounter + 1
    BY <1>2 DEF FlipDue
  <2>3. ~FlipInVblank => silent' <= vblankCounter'
    <3> SUFFICES ASSUME ~FlipInVblank PROVE silent' <= vblankCounter'
      OBVIOUS
    <3>1. silent <= vblankCounter
      BY DEF HeadInv, SilenceCounted
    <3> QED BY ONLY <1>1, <1>2, <2>2, <3>1, ~FlipInVblank
  <2> QED BY <2>1, <2>3 DEF SilenceCounted
<1>6. FlipKeepsPace'
  BY <1>1, <1>2 DEF FlipKeepsPace, FlipDue
<1>7. PolledIsRecent'
  BY <1>2 DEF PolledIsRecent
<1> QED BY <1>4, <1>5, <1>6, <1>7 DEF HeadInv

LEMMA HeadInvStep == HeadInv /\ [Next]_segavrVars => HeadInv'
<1> SUFFICES ASSUME HeadInv, [Next]_segavrVars PROVE HeadInv'
  OBVIOUS
<1> USE SegaVRAssumption
<1>0. TypeOK'
  BY TypeStep DEF HeadInv
<1>1. CASE ReadData
  <2>1. CASE ReadReset
    BY <1>0, <2>1, HeadInvFrame DEF ReadReset
  <2>2. CASE ReadNibbleZero
    BY <1>0, <2>2, HeadInvReadNibbleZero
  <2>3. CASE ReadOther
    BY <1>0, <2>3, HeadInvFrame DEF ReadOther, segavrVars
  <2> QED BY <1>1, <2>1, <2>2, <2>3 DEF ReadData
<1>2. ASSUME NEW d \in Values, WriteData(d) PROVE HeadInv'
  <2>1. CASE WriteIdle
    BY <1>0, <2>1, HeadInvFrame DEF WriteIdle
  <2>2. CASE WriteReset
    <3>1. vblankCounter' = 0 /\ silent' = 0 /\ angles' = Straight
          /\ encoded' = [eyes |-> {"left"}, angles |-> Straight]
      BY <2>2 DEF WriteReset
    <3>2. EyeShape' /\ EncodedTracksAngles'
      BY <3>1 DEF EyeShape, EncodedTracksAngles
    <3>3. SilenceCounted' /\ FlipKeepsPace' /\ PolledIsRecent'
      BY <3>1 DEF SilenceCounted, FlipKeepsPace, PolledIsRecent
    <3> QED BY <1>0, <3>2, <3>3 DEF HeadInv
  <2>3. CASE WriteRequest(d)
    BY <1>0, <2>3, HeadInvFrame DEF WriteRequest, segavrVars
  <2> QED BY <1>2, <2>1, <2>2, <2>3 DEF WriteData
<1>3. ASSUME NEW d \in Masks, WriteMask(d) PROVE HeadInv'
  BY <1>0, <1>3, HeadInvFrame DEF WriteMask
<1>4. CASE RegisterVblank
  BY <1>0, <1>4, HeadInvRegisterVblank
<1>5. ASSUME NEW on \in BOOLEAN, SetMovement(on) PROVE HeadInv'
  BY <1>0, <1>5 DEF SetMovement, HeadInv, EyeShape, SilenceCounted,
     FlipKeepsPace, EncodedTracksAngles, PolledIsRecent, eyeVars
<1>6. CASE ApplyMovement
  <2>1. encoded'.eyes = encoded.eyes /\ encoded'.angles = angles'
    BY <1>6 DEF ApplyMovement, UpdateAngles, HeadInv, TypeOK, Encodings
  <2> QED BY <1>0, <1>6, <2>1 DEF ApplyMovement, HeadInv, EyeShape, SilenceCounted,
     FlipKeepsPace, EncodedTracksAngles, PolledIsRecent
<1>7. CASE Headsmack
  BY <1>0, <1>7 DEF Headsmack, HeadInv, EyeShape, SilenceCounted, FlipKeepsPace,
     EncodedTracksAngles, PolledIsRecent, headVars
<1>8. CASE HmdInit
  <2>1. EyeShape' /\ EncodedTracksAngles'
    BY <1>8 DEF HmdInit, EyeShape, EncodedTracksAngles
  <2>2. SilenceCounted' /\ FlipKeepsPace' /\ PolledIsRecent'
    BY <1>8 DEF HmdInit, SilenceCounted, FlipKeepsPace, PolledIsRecent
  <2> QED BY <1>0, <2>1, <2>2 DEF HeadInv
<1>9. CASE UNCHANGED segavrVars
  BY <1>0, <1>9, HeadInvFrame DEF segavrVars
<1> QED BY <1>1, <1>2, <1>3, <1>4, <1>5, <1>6, <1>7, <1>8, <1>9 DEF Next, GameAccess

LEMMA HeadInvAlways == Spec => []HeadInv
BY HeadInvInit, HeadInvStep, PTL DEF Spec

(* At any time the headset names at most one eye, and exactly one once a     *)
(* game has reset it.                                                        *)
THEOREM OneEyeAlways == Spec => []OneEye
<1>1. HeadInv => OneEye
  <2> SUFFICES ASSUME HeadInv PROVE OneEye
    OBVIOUS
  <2>1. Cardinality({}) = 0 /\ Cardinality({"left"}) = 1 /\ Cardinality({"right"}) = 1
    BY FS_EmptySet, FS_Singleton
  <2> QED BY <2>1 DEF HeadInv, EyeShape, OneEye
<1> QED BY <1>1, HeadInvAlways, PTL

(* Unless eyes flip in vblank, an active headset was polled at nibble 0 or   *)
(* reset within the last TimeoutInterval vblanks.                             *)
THEOREM TimeoutHonouredAlways == Spec => []TimeoutHonoured
<1>1. HeadInv => TimeoutHonoured
  <2> SUFFICES ASSUME HeadInv, TimeoutInterval > 0, isActive, ~FlipInVblank
               PROVE  silent < TimeoutInterval
    BY DEF TimeoutHonoured
  <2>1. silent <= vblankCounter /\ vblankCounter < TimeoutInterval
    BY DEF HeadInv, SilenceCounted
  <2>2. silent \in Int /\ vblankCounter \in Int /\ TimeoutInterval \in Int
    BY SegaVRAssumption DEF HeadInv, TypeOK
  <2> QED BY ONLY <2>1, <2>2
<1> QED BY <1>1, HeadInvAlways, PTL

(* With eyes flipped in vblank no eye is held beyond the swap interval.      *)
THEOREM FlipKeepsPaceAlways == Spec => []FlipKeepsPace
<1>1. HeadInv => FlipKeepsPace
  BY DEF HeadInv
<1> QED BY <1>1, HeadInvAlways, PTL

(* A game reads the angles of the head as it is now.                         *)
THEOREM EncodedTracksAnglesAlways == Spec => []EncodedTracksAngles
<1>1. HeadInv => EncodedTracksAngles
  BY DEF HeadInv
<1> QED BY <1>1, HeadInvAlways, PTL

-----------------------------------------------------------------------------
(* Reads of nibble 0 within one vblank period name the same eye.             *)

LEMMA SteadyStep ==
  ASSUME HeadInv, Next, polled, polled'
  PROVE  \/ encoded'.eyes = encoded.eyes
         \/ requestIndex' = IndexReset /\ encoded'.eyes = {"left"}
<1> USE SegaVRAssumption
<1>1. CASE ReadData
  <2>1. ~SwapDueOnRead
    BY DEF HeadInv, PolledIsRecent, SwapDueOnRead, TypeOK
  <2> QED BY <1>1, <2>1 DEF ReadData, ReadReset, ReadNibbleZero, ReadOther,
         segavrVars, eyeVars
<1>2. ASSUME NEW d \in Values, WriteData(d)
      PROVE  \/ encoded'.eyes = encoded.eyes
             \/ requestIndex' = IndexReset /\ encoded'.eyes = {"left"}
  BY <1>2 DEF WriteData, WriteIdle, WriteReset, WriteRequest, segavrVars, eyeVars
<1>3. CASE \E d \in Masks : WriteMask(d)
  BY <1>3 DEF WriteMask, eyeVars
<1>4. ~RegisterVblank /\ ~HmdInit
  BY DEF RegisterVblank, HmdInit
<1>5. CASE \E on \in BOOLEAN : SetMovement(on)
  BY <1>5 DEF SetMovement, eyeVars
<1>6. CASE ApplyMovement
  BY <1>6 DEF ApplyMovement, UpdateAngles, HeadInv, TypeOK, Encodings
<1>7. CASE Headsmack
  BY <1>7 DEF Headsmack
<1> QED BY <1>1, <1>2, <1>3, <1>4, <1>5, <1>6, <1>7 DEF Next, GameAccess

(* A game that polls twice in a vblank period is told the same eye, whatever *)
(* the swap interval.                                                        *)
THEOREM EyeSteadyAlways == Spec => EyeSteadyBetweenVblanks
<1>1. HeadInv /\ [Next]_segavrVars =>
        [polled /\ polled' =>
           \/ encoded'.eyes = encoded.eyes
           \/ requestIndex' = IndexReset /\ encoded'.eyes = {"left"}]_segavrVars
  BY SteadyStep
<1> QED BY <1>1, HeadInvAlways, PTL DEF Spec, EyeSteadyBetweenVblanks

-----------------------------------------------------------------------------
(* Default settings: between two vblanks the first read of nibble 0 swaps    *)
(* the eye and later reads do not, so the recorded eye alternates.  The      *)
(* invariant relates the recorded eye with the one encoded now.              *)

DefaultSwap == ~FlipInVblank /\ EyeSwapInterval = 1

AlternateInv ==
  DefaultSwap /\ ~restarted =>
    IF polled THEN vblankedOnLeft <=> "left" \notin encoded.eyes
    ELSE vblankCounter >= 1 /\ (vblankedOnLeft <=> "left" \in encoded.eyes)

LEMMA AlternateStep == HeadInv /\ AlternateInv /\ [Next]_segavrVars => AlternateInv'
<1> SUFFICES ASSUME HeadInv, AlternateInv, DefaultSwap, ~restarted', [Next]_segavrVars
             PROVE  AlternateInv'
  BY DEF AlternateInv, DefaultSwap
<1> USE SegaVRAssumption
<1>0. encoded \in Encodings /\ vblankCounter \in Nat
  BY DEF HeadInv, TypeOK
<1>1. CASE ReadData
  <2>1. CASE ReadReset
    BY <2>1 DEF ReadReset, eyeVars, AlternateInv
  <2>2. CASE ReadNibbleZero
    <3>1. restarted' = restarted /\ vblankedOnLeft' = vblankedOnLeft /\ polled' = TRUE
      BY <2>2 DEF ReadNibbleZero
    <3>2. CASE polled
      <4>1. ~SwapDueOnRead
        BY <1>0, <3>2 DEF HeadInv, PolledIsRecent, SwapDueOnRead
      <4> QED BY <2>2, <3>1, <3>2, <4>1 DEF ReadNibbleZero, AlternateInv
    <3>3. CASE ~polled
      <4>1. SwapDueOnRead
        BY <1>0, <3>1, <3>3 DEF AlternateInv, DefaultSwap, SwapDueOnRead
      <4>2. "left" \in encoded'.eyes <=> "left" \notin encoded.eyes
        BY <1>0, <2>2, <4>1 DEF ReadNibbleZero, SwapEyeBits, Encodings
      <4> QED BY <3>1, <3>3, <4>2 DEF AlternateInv
    <3> QED BY <3>2, <3>3
  <2>3. CASE ReadOther
    BY <2>3 DEF ReadOther, segavrVars, eyeVars, AlternateInv
  <2> QED BY <1>1, <2>1, <2>2, <2>3 DEF ReadData
<1>2. ASSUME NEW d \in Values, WriteData(d) PROVE AlternateInv'
  BY <1>2 DEF WriteData, WriteIdle, WriteReset, WriteRequest, segavrVars, eyeVars,
     AlternateInv
<1>3. CASE \E d \in Masks : WriteMask(d)
  BY <1>3 DEF WriteMask, eyeVars, AlternateInv
<1>4. CASE RegisterVblank
  <2> DEFINE enc == IF swapEyes THEN SwapEyeBits(encoded) ELSE encoded
  <2>1. /\ vblankedOnLeft' = ("left" \in enc.eyes)
        /\ encoded' = enc /\ vblankCounter' = vblankCounter + 1
        /\ polled' = FALSE
    BY <1>4 DEF RegisterVblank, FlipDue, DefaultSwap
  <2>2. vblankCounter' >= 1
    BY <1>0, <2>1
  <2> QED BY <2>1, <2>2 DEF AlternateInv
<1>5. CASE \E on \in BOOLEAN : SetMovement(on)
  BY <1>5 DEF SetMovement, eyeVars, AlternateInv
<1>6. CASE ApplyMovement
  <2>1. encoded'.eyes = encoded.eyes
    BY <1>0, <1>6 DEF ApplyMovement, UpdateAngles, Encodings
  <2> QED BY <1>6, <2>1 DEF ApplyMovement, AlternateInv
<1>7. CASE Headsmack
  BY <1>7 DEF Headsmack, AlternateInv
<1>8. CASE HmdInit
  BY <1>8 DEF HmdInit
<1>9. CASE UNCHANGED segavrVars
  BY <1>9 DEF segavrVars, eyeVars, AlternateInv
<1> QED BY <1>1, <1>2, <1>3, <1>4, <1>5, <1>6, <1>7, <1>8, <1>9 DEF Next, GameAccess

LEMMA AlternateInvAlways == Spec => []AlternateInv
<1>1. Init => AlternateInv
  BY DEF Init, AlternateInv
<1> QED BY <1>1, AlternateStep, HeadInvAlways, PTL DEF Spec

(* A game that polls once per vblank draws the left and the right eye in     *)
(* turn.                                                                     *)
THEOREM EyesAlternateAlways == Spec => EyesAlternate
<1>1. AlternateInv =>
        [RegisterVblank /\ ~FlipInVblank /\ EyeSwapInterval = 1
           /\ polled /\ ~restarted /\ ~swapEyes
         => vblankedOnLeft' # vblankedOnLeft]_segavrVars
  <2> SUFFICES ASSUME AlternateInv, DefaultSwap, RegisterVblank,
                      polled, ~restarted, ~swapEyes
               PROVE  vblankedOnLeft' # vblankedOnLeft
    BY DEF DefaultSwap
  <2>1. vblankedOnLeft' = ("left" \in encoded.eyes)
    BY DEF RegisterVblank
  <2> QED BY <2>1 DEF AlternateInv
<1> QED BY <1>1, AlternateInvAlways, PTL DEF Spec, EyesAlternate

-----------------------------------------------------------------------------
(* The handshake                                                             *)

(* The TL line that goes with an index.                                      *)
LineOf(i) == IF i \in {-4, -2} THEN 0 ELSE IF i \in {-3, -1} THEN 1 ELSE i % 2

LEMMA AnswerLine ==
  ASSUME NEW i \in Indices, NEW enc
  PROVE  Answer(i, enc).tl = LineOf(i)
<1> USE DEF Answer, LineOf, IndexReset, IndexIdle, IndexID0, IndexID1, Nibbles
<1>1. CASE i \in Nibbles
  <2>1. Answer(i, enc) = [tl |-> i % 2, data |-> enc]
    BY <1>1
  <2> QED BY <1>1, <2>1
<1>2. Answer(-4, enc).tl = LineOf(-4)
  OBVIOUS
<1>3. Answer(-3, enc).tl = LineOf(-3)
  OBVIOUS
<1>4. Answer(-2, enc).tl = LineOf(-2)
  OBVIOUS
<1>5. Answer(-1, enc).tl = LineOf(-1)
  OBVIOUS
<1>6. i \in Nibbles \/ i = -4 \/ i = -3 \/ i = -2 \/ i = -1
  BY DEF Indices
<1> QED BY ONLY <1>1, <1>2, <1>3, <1>4, <1>5, <1>6

LEMMA LineAlternates ==
  ASSUME NEW i \in Indices, i # 4
  PROVE  /\ LineOf(Successor(i)) # LineOf(i)
         /\ Successor(i) = IndexID0 => LineOf(0) # LineOf(i)
BY DEF Indices, LineOf, Successor, IndexReset, IndexIdle, IndexID0, IndexID1, Nibbles

(* Whatever bytes a game uses and wherever it stands in the sequence, also   *)
(* when the id nibbles are passed over, a request it toggles changes TL; it  *)
(* keeps TL only when the five nibbles start again.  A byte that repeats the  *)
(* request bit moves nothing on.                                             *)
THEOREM HandshakeAlternatesAlways == Spec => HandshakeAlternates
<1> DEFINE Toggles == \/ Answer(requestIndex', encoded).tl # Answer(requestIndex, encoded).tl
                      \/ requestIndex = 4
<1>1. ASSUME TypeOK, NEW d \in Values \ {HMDIdle, HMDReset}, WriteData(d)
      PROVE  IF requestBit' = requestBit THEN requestIndex' = requestIndex ELSE Toggles
  <2>1. requestIndex \in Indices
    BY <1>1 DEF TypeOK, Indices
  <2>2. WriteRequest(d)
    BY <1>1 DEF WriteData
  <2>3. CASE requestBit' = requestBit
    BY <2>2, <2>3 DEF WriteRequest, segavrVars, linkVars
  <2>4. CASE requestBit' # requestBit /\ requestIndex # 4
    <3>1. requestIndex' = ToggledIndex
      BY <2>2, <2>4 DEF WriteRequest, segavrVars, linkVars
    <3>2. 0 \in Indices /\ Successor(requestIndex) \in Indices
      BY <2>1, SuccessorType DEF Indices, Nibbles
    <3>3. Answer(requestIndex', encoded).tl # Answer(requestIndex, encoded).tl
      BY <2>1, <2>4, <3>1, <3>2, AnswerLine, LineAlternates DEF ToggledIndex
    <3> QED BY <2>4, <3>3
  <2> QED BY <2>3, <2>4
<1>2. TypeOK /\ [Next]_segavrVars =>
        [\A d \in Values \ {HMDIdle, HMDReset} : WriteData(d) =>
           IF requestBit' = requestBit THEN requestIndex' = requestIndex ELSE Toggles]_segavrVars
  <2> HIDE DEF Toggles
  <2> QED BY <1>1
<1> QED BY <1>2, TypeCorrect, PTL DEF Spec, HandshakeAlternates

-----------------------------------------------------------------------------
(* The headset inside a frame                                                *)

(* What the game was told is what the headset holds; what it was told at the *)
(* last vblank is what begin_scan will latch.                                *)
ToldInv ==
  /\ told # Nothing => told = EyeTold(encoded)
  /\ latched # Nothing => (vblankedOnLeft <=> latched = "left")
  /\ ScannedEyeIsToldEye

LEMMA EyeToldIsLeft ==
  ASSUME NEW e PROVE EyeTold(e) = "left" <=> "left" \in e.eyes
BY DEF EyeTold, Nothing

LEMMA EyeToldBySet ==
  ASSUME NEW e, NEW f, e.eyes = f.eyes PROVE EyeTold(e) = EyeTold(f)
BY DEF EyeTold

LEMMA UntouchedHead ==
  ASSUME UNCHANGED <<encoded, vblankedOnLeft, scannedOnLeft, tellVars>>
  PROVE  ToldInv => ToldInv'
BY DEF ToldInv, ScannedEyeIsToldEye, tellVars

LEMMA RegisterStep ==
  ASSUME ToldInv, RegisterVblank, RegisterTold, UNCHANGED scannedOnLeft
  PROVE  ToldInv'
<1>1. CASE swapEyes
  <2>1. latched' = Nothing /\ UNCHANGED scanned
    BY <1>1 DEF RegisterTold
  <2>2. told' # Nothing => told' = told /\ encoded'.eyes = encoded.eyes
    BY DEF RegisterTold
  <2>3. told' # Nothing => told' = EyeTold(encoded')
    BY <2>2, EyeToldBySet DEF ToldInv
  <2> QED BY <2>1, <2>3 DEF ToldInv, ScannedEyeIsToldEye
<1>2. CASE ~swapEyes
  <2>1. latched' = told /\ UNCHANGED scanned
    BY <1>2 DEF RegisterTold
  <2>2. vblankedOnLeft' = ("left" \in encoded.eyes)
    BY <1>2 DEF RegisterVblank
  <2>3. told' # Nothing => told' = told /\ encoded'.eyes = encoded.eyes
    BY DEF RegisterTold
  <2>4. told' # Nothing => told' = EyeTold(encoded')
    BY <2>3, EyeToldBySet DEF ToldInv
  <2>5. latched' # Nothing => (latched' = "left" <=> "left" \in encoded.eyes)
    BY <2>1, EyeToldIsLeft DEF ToldInv
  <2>6. latched' # Nothing => (vblankedOnLeft' <=> latched' = "left")
    BY Zenon, <2>2, <2>5
  <2> QED BY <2>1, <2>4, <2>6 DEF ToldInv, ScannedEyeIsToldEye
<1> QED BY <1>1, <1>2

LEMMA PollStep ==
  ASSUME ToldInv, GamePoll
  PROVE  ToldInv'
<1>1. UNCHANGED <<scannedOnLeft, latched, scanned>> /\ vblankedOnLeft' = vblankedOnLeft
  BY DEF GamePoll, ReadData, ReadReset, ReadNibbleZero, ReadOther, segavrVars, eyeVars
<1>2. CASE requestIndex = 0
  <2>1. told' = EyeTold(encoded')
    BY <1>2 DEF GamePoll
  <2> QED BY <1>1, <2>1 DEF ToldInv, ScannedEyeIsToldEye
<1>3. CASE requestIndex # 0
  <2>1. UNCHANGED told /\ encoded' = encoded
    BY <1>3 DEF GamePoll, ReadData, ReadReset, ReadNibbleZero, ReadOther, segavrVars, eyeVars
  <2> QED BY <1>1, <2>1, UntouchedHead DEF tellVars
<1> QED BY <1>2, <1>3

LEMMA WriteStep ==
  ASSUME ToldInv, GameWrite
  PROVE  ToldInv'
<1>1. UNCHANGED <<scannedOnLeft, latched, scanned>>
  BY DEF GameWrite
<1>2. vblankedOnLeft' = vblankedOnLeft /\ (encoded' = encoded \/ requestIndex' = IndexReset)
  <2>1. ASSUME NEW d \in Values, WriteData(d)
        PROVE  vblankedOnLeft' = vblankedOnLeft /\ (encoded' = encoded \/ requestIndex' = IndexReset)
    BY <2>1 DEF WriteData, WriteIdle, WriteReset, WriteRequest, segavrVars, eyeVars
  <2>2. ASSUME NEW d \in Masks, WriteMask(d)
        PROVE  vblankedOnLeft' = vblankedOnLeft /\ encoded' = encoded
    BY <2>2 DEF WriteMask, eyeVars
  <2> QED BY <2>1, <2>2 DEF GameWrite
<1>3. CASE requestIndex' = IndexReset
  <2>1. told' = Nothing
    BY <1>3 DEF GameWrite
  <2> QED BY <1>1, <1>2, <2>1 DEF ToldInv, ScannedEyeIsToldEye
<1>4. CASE requestIndex' # IndexReset
  <2>1. UNCHANGED told /\ encoded' = encoded
    BY <1>2, <1>4 DEF GameWrite
  <2> QED BY <1>1, <1>2, <2>1, UntouchedHead DEF tellVars
<1> QED BY <1>3, <1>4

LEMMA FrameInvInit == FrameInit => ToldInv
BY DEF FrameInit, ToldInv, ScannedEyeIsToldEye

LEMMA FrameInvStep ==
  ToldInv /\ [FrameNext]_frameVars => ToldInv'
<1> SUFFICES ASSUME ToldInv, [FrameNext]_frameVars PROVE ToldInv'
  OBVIOUS
<1>1. CASE BeginScan
  <2>1. UNCHANGED <<encoded, vblankedOnLeft, told, latched>> /\ scanned' = latched
        /\ scannedOnLeft' = vblankedOnLeft /\ ~InFrame
    BY <1>1 DEF BeginScan, StartFrame, Enter, InFrame, segavrVars, eyeVars
  <2> QED BY <2>1 DEF ToldInv, ScannedEyeIsToldEye
<1>2. CASE FrameTrigger
  <2>1. PICK signalled \in BOOLEAN : RegisterIf(signalled)
    <3>1. ASSUME NEW vint PROVE SignalsVint(vint) \in BOOLEAN
      BY DEF SignalsVint
    <3> QED BY <1>2, <3>1 DEF FrameTrigger
  <2>2. UNCHANGED scannedOnLeft /\ InFrame /\ InFrame'
    BY <1>2 DEF FrameTrigger, HintTrigger, VintTrigger, InFrame
  <2>3. CASE RegisterVblank /\ RegisterTold
    BY <2>2, <2>3, RegisterStep
  <2>4. CASE UNCHANGED <<segavrVars, tellVars>>
    BY <2>2, <2>4, UntouchedHead DEF segavrVars, eyeVars
  <2> QED BY <2>1, <2>3, <2>4 DEF RegisterIf
<1>3. CASE FrameVintFlag \/ GameIrq
  <2>1. UNCHANGED <<segavrVars, scannedOnLeft, tellVars>> /\ InFrame'
    BY <1>3 DEF FrameVintFlag, RaiseVintFlag, GameIrq, Acknowledge, GameRegisters,
       WriteVintEnable, WriteHintEnable, InFrame
  <2> QED BY <2>1, UntouchedHead DEF segavrVars, eyeVars
<1>4. CASE EndFrame
  BY <1>4 DEF EndFrame, segavrVars, eyeVars, ToldInv, ScannedEyeIsToldEye
<1>5. CASE GamePoll
  <2>1. InFrame'
    BY <1>5 DEF GamePoll, InFrame, irqVars
  <2> QED BY <1>5, <2>1, PollStep
<1>6. CASE GameWrite
  <2>1. InFrame'
    BY <1>6 DEF GameWrite, InFrame, irqVars
  <2> QED BY <1>6, <2>1, WriteStep
<1>7. CASE HeadControl
  <2>1. UNCHANGED <<encoded, vblankedOnLeft, scannedOnLeft, tellVars>> /\ ~InFrame
    BY <1>7 DEF HeadControl, SetMovement, Headsmack, eyeVars
  <2> QED BY <2>1, UntouchedHead DEF tellVars
<1>8. CASE HeadMove
  <2>1. /\ UNCHANGED <<vblankedOnLeft, scannedOnLeft, tellVars>> /\ ~InFrame
        /\ encoded'.eyes = encoded.eyes
    BY <1>8 DEF HeadMove, ApplyMovement, UpdateAngles
  <2>2. EyeTold(encoded') = EyeTold(encoded)
    BY <2>1, EyeToldBySet
  <2> QED BY <2>1, <2>2 DEF tellVars, ToldInv, ScannedEyeIsToldEye
<1>9. CASE MachineReset
  BY <1>9 DEF MachineReset, ToldInv, ScannedEyeIsToldEye
<1>10. CASE UNCHANGED frameVars
  <2>1. UNCHANGED <<encoded, vblankedOnLeft, scannedOnLeft, tellVars, phase>>
    BY <1>10 DEF frameVars, segavrVars, eyeVars, irqVars
  <2> QED BY <2>1, UntouchedHead DEF tellVars
<1> QED BY <1>1, <1>2, <1>3, <1>4, <1>5, <1>6, <1>7, <1>8, <1>9, <1>10 DEF FrameNext

LEMMA FrameInvAlways == FrameSpec => []ToldInv
BY FrameInvInit, FrameInvStep, PTL DEF FrameSpec

(* The picture taken for an eye is the one whose scan began after the game   *)
(* had been told that eye, whatever it reads and writes in between.          *)
THEOREM ScannedEyeIsToldEyeAlways == FrameSpec => []ScannedEyeIsToldEye
<1>1. ToldInv => ScannedEyeIsToldEye
  BY DEF ToldInv
<1> QED BY <1>1, FrameInvAlways, PTL

-----------------------------------------------------------------------------
(* The composition is made of the protocol and of the interrupts: what is    *)
(* proved of either holds inside a frame.                                    *)
LEMMA FrameStepIsHeadsetStep == [FrameNext]_frameVars => [Next]_segavrVars
<1> SUFFICES ASSUME [FrameNext]_frameVars PROVE [Next]_segavrVars
  OBVIOUS
<1>1. CASE BeginScan \/ FrameVintFlag \/ EndFrame \/ GameIrq
  BY <1>1 DEF BeginScan, FrameVintFlag, EndFrame, GameIrq
<1>2. CASE FrameTrigger
  <2>1. RegisterVblank \/ UNCHANGED segavrVars
    BY <1>2 DEF FrameTrigger, RegisterIf
  <2> QED BY <2>1 DEF Next
<1>3. CASE GamePoll \/ GameWrite
  BY <1>3 DEF GamePoll, GameWrite, Next, GameAccess
<1>4. CASE HeadControl \/ HeadMove \/ MachineReset
  BY <1>4 DEF HeadControl, HeadMove, MachineReset, Next
<1>5. CASE UNCHANGED frameVars
  BY <1>5 DEF frameVars
<1> QED BY <1>1, <1>2, <1>3, <1>4, <1>5 DEF FrameNext

LEMMA FrameStepIsIrqStep == [FrameNext]_frameVars => [IrqNext]_irqVars
<1> SUFFICES ASSUME [FrameNext]_frameVars PROVE [IrqNext]_irqVars
  OBVIOUS
<1>1. CASE BeginScan \/ FrameTrigger \/ FrameVintFlag \/ EndFrame
  BY <1>1 DEF BeginScan, FrameTrigger, FrameVintFlag, EndFrame, IrqNext, FrameStep
<1>2. CASE GameIrq
  BY <1>2 DEF GameIrq, IrqNext
<1>3. CASE GamePoll \/ GameWrite \/ HeadControl \/ HeadMove
  BY <1>3 DEF GamePoll, GameWrite, HeadControl, HeadMove
<1>4. CASE MachineReset
  BY <1>4 DEF MachineReset, IrqNext
<1>5. CASE UNCHANGED frameVars
  BY <1>5 DEF frameVars
<1> QED BY <1>1, <1>2, <1>3, <1>4, <1>5 DEF FrameNext

(* Inside a frame the headset follows its protocol: every interleaving with  *)
(* interrupts, controls and resets is one SegaVR allows.                     *)
THEOREM FrameImplementsHeadset == FrameSpec => Spec
<1>1. FrameInit => Init
  BY DEF FrameInit
<1> QED BY <1>1, FrameStepIsHeadsetStep, PTL DEF FrameSpec, Spec

(* The interrupts of a frame with a headset are those of a frame.            *)
THEOREM FrameImplementsIrq == FrameSpec => IrqSpec
<1>1. FrameInit => IrqInit
  BY DEF FrameInit
<1> QED BY <1>1, FrameStepIsIrqStep, PTL DEF FrameSpec, IrqSpec

(* What the composition adds to the two.                                     *)
EyesTyped ==
  /\ scannedOnLeft \in BOOLEAN
  /\ told \in Eyes \cup {Nothing} /\ latched \in Eyes \cup {Nothing}
  /\ scanned \in Eyes \cup {Nothing}

LEMMA EyeToldType == ASSUME NEW e PROVE EyeTold(e) \in Eyes \cup {Nothing}
BY DEF EyeTold, Eyes

LEMMA EyesTypedStep ==
  TypeOK /\ TypeOK' /\ EyesTyped /\ [FrameNext]_frameVars => EyesTyped'
<1> SUFFICES ASSUME TypeOK, TypeOK', EyesTyped, [FrameNext]_frameVars PROVE EyesTyped'
  OBVIOUS
<1>1. CASE BeginScan
  <2>1. vblankedOnLeft \in BOOLEAN
    BY DEF TypeOK
  <2> QED BY <1>1, <2>1 DEF BeginScan, EyesTyped
<1>2. CASE FrameTrigger
  <2>1. CASE RegisterTold
    BY <1>2, <2>1 DEF FrameTrigger, RegisterTold, EyesTyped
  <2>2. CASE UNCHANGED tellVars
    BY <1>2, <2>2 DEF FrameTrigger, tellVars, EyesTyped
  <2> QED BY <1>2, <2>1, <2>2 DEF FrameTrigger, RegisterIf
<1>3. CASE GamePoll
  <2>1. encoded' \in Encodings
    BY DEF TypeOK
  <2> QED BY <1>3, <2>1, EyeToldType DEF GamePoll, EyesTyped
<1>4. CASE FrameVintFlag \/ EndFrame \/ GameWrite \/ GameIrq \/ HeadControl
           \/ HeadMove \/ MachineReset
  BY <1>4 DEF FrameVintFlag, EndFrame, GameWrite, GameIrq, HeadControl, HeadMove,
     MachineReset, tellVars, EyesTyped
<1>5. CASE UNCHANGED frameVars
  BY <1>5 DEF frameVars, tellVars, EyesTyped
<1> QED BY <1>1, <1>2, <1>3, <1>4, <1>5 DEF FrameNext

(* Every variable of a frame with a headset has its type: in particular the  *)
(* request index stays in its table, however many triggers a frame has.      *)
THEOREM FrameTypeCorrect == FrameSpec => []FrameTypeOK
<1>1. FrameInit => EyesTyped
  BY DEF FrameInit, EyesTyped
<1>2. EyesTyped /\ TypeOK /\ IrqInv => FrameTypeOK
  BY DEF EyesTyped, IrqInv, FrameTypeOK
<1> QED BY <1>1, <1>2, EyesTypedStep, FrameImplementsHeadset, FrameImplementsIrq, TypeCorrect,
           IrqInvAlways, PTL DEF FrameSpec

(* Inside a frame, where the headset is told of every trigger and the game is *)
(* interrupted while it reads, the pace of the flips and what is polled are  *)
(* what the protocol alone promises, and so are the interrupts.              *)
THEOREM FrameKeepsItsParts ==
  FrameSpec => /\ [](OneEye /\ TimeoutHonoured /\ FlipKeepsPace /\ EncodedTracksAngles)
               /\ EyeSteadyBetweenVblanks /\ EyesAlternate /\ HandshakeAlternates
               /\ [](AssertedIsPending /\ FlagMeansPending)
               /\ VintConsumedAsLevel6 /\ HintSurvivesVint
BY FrameImplementsHeadset, FrameImplementsIrq, OneEyeAlways, TimeoutHonouredAlways,
   FlipKeepsPaceAlways, EncodedTracksAnglesAlways, EyeSteadyAlways, EyesAlternateAlways,
   HandshakeAlternatesAlways, AssertedIsPendingAlways, FlagMeansPendingAlways,
   VintConsumedAsLevel6Always, HintSurvivesVintAlways, PTL
=============================================================================
