--------------------------- MODULE MainLoopProofs ---------------------------
(***************************************************************************)
(* Theorems about the main loop, for every length of a frame, every period *)
(* of the clock and every number of shots in a series: its pace, the eye a  *)
(* series begins with, and who combines a picture twice.                    *)
(***************************************************************************)
EXTENDS MainLoop, TLAPS

(* A turn begins without frames that are still due, and with a clock that   *)
(* was read, unless the headset was active in the turn before.              *)
TurnIsDone ==
  /\ loop = "measure" => todo = 0
  /\ clock # "unread" => lag = 0

(* A series that has not kicked off has no shot, and one that is over is not *)
(* kicked off; a kickoff before the first shot was inherited.               *)
KickoffIsOwn ==
  /\ kickoff => shotCount > 0
  /\ ~reasked /\ firstShot = "none" => ~kickoff

(* Only a frozen loop comes to a picture that is combined already.          *)
DrawnAnew == loop = "steal" /\ ~frozen => mixes = 0

LoopInv ==
  LoopTypeOK /\ TurnIsDone /\ KeepsPace /\ KickoffIsOwn /\ FreshSeriesStartsLeft /\ DrawnAnew

-----------------------------------------------------------------------------
(* Whole frames and the rest of one, as the loop counts them.               *)
LEMMA FramesAndRest ==
  ASSUME NEW due \in Nat, NEW frame \in Nat, frame > 0
  PROVE  /\ due \div frame \in Nat /\ due % frame \in 0..frame - 1
         /\ due = ((due \div frame) * frame) + (due % frame)
<1> DEFINE whole == due \div frame
           rest == due % frame
<1>1. whole \in Nat /\ rest \in 0..frame - 1
  OBVIOUS
<1>2. rest = due - frame * whole
  BY Z3
<1> HIDE DEF whole, rest
<1>3. due = whole * frame + rest
  BY <1>1, <1>2
<1> QED BY <1>1, <1>3 DEF whole, rest

LEMMA OneFrameLess ==
  ASSUME NEW n \in Nat, NEW frame \in Nat
  PROVE  (n - 1) * frame = n * frame - frame
  OBVIOUS

LEMMA LoopInvInit == LoopInit => LoopInv
<1> SUFFICES ASSUME LoopInit PROVE LoopInv
  OBVIOUS
<1> USE MainLoopAssumption, StealAssumption DEF LoopInit, StealInit
<1>1. LoopTypeOK
  <2>1. StealTypeOK
    <3>1. shotCount \in 0..QuadshotCount /\ mixes \in 0..2
      BY DEF StealAssumption
    <3> QED BY <3>1, Zenon DEF StealTypeOK
  <2>2. lag \in 0..Wrap - 1 /\ usec \in 0..PerFrame - 1 /\ todo \in Nat /\ credit \in Int
    BY DEF MainLoopAssumption
  <2> QED BY <2>1, <2>2, Zenon DEF LoopTypeOK
<1>2. TurnIsDone /\ KickoffIsOwn /\ FreshSeriesStartsLeft /\ DrawnAnew
  BY DEF TurnIsDone, KickoffIsOwn, FreshSeriesStartsLeft, DrawnAnew
<1>3. KeepsPace
  BY DEF KeepsPace, MainLoopAssumption
<1> QED BY <1>1, <1>2, <1>3 DEF LoopInv

-----------------------------------------------------------------------------
(* Measuring                                                                *)

LEMMA PassedIsTicks ==
  ASSUME LoopTypeOK, NEW elapsed \in Nat
  PROVE  Passed(elapsed) \in 0..Wrap - 1
  BY MainLoopAssumption DEF Passed, LoopTypeOK, MainLoopAssumption

LEMMA MeasureKeeps ==
  ASSUME LoopInv, Measure
  PROVE  LoopTypeOK' /\ TurnIsDone' /\ KeepsPace'
<1> PICK elapsed \in 0..MaxElapsed : MeasureUnpaced(elapsed) \/ MeasurePaced(elapsed)
  BY DEF Measure
<1>1. /\ PerFrame \in Nat /\ PerFrame > 0 /\ Wrap \in Nat /\ elapsed \in Nat
      /\ elapsed % Wrap \in Int
  BY MainLoopAssumption DEF MainLoopAssumption
<1>2. /\ Passed(elapsed) \in 0..Wrap - 1
      /\ usec \in 0..PerFrame - 1 /\ todo = 0 /\ loop = "measure" /\ credit \in Int
      /\ stopped \in BOOLEAN
  BY <1>1, PassedIsTicks DEF LoopInv, LoopTypeOK, TurnIsDone, Measure
<1>3. StealTypeOK'
  BY DEF Measure, LoopInv, LoopTypeOK, StealTypeOK, pictureVars, headset, shots, picture
<1>4. frozen' \in BOOLEAN /\ stop' \in BOOLEAN /\ stopped' = FALSE
  BY DEF Measure, LoopInv, LoopTypeOK
<1>5. CASE MeasureUnpaced(elapsed)
  <2> USE <1>5 DEF MeasureUnpaced
  <2>1. /\ lag' \in 0..Wrap - 1 /\ usec' = usec /\ todo' = 0 /\ credit' = usec
        /\ clock' = "unread" /\ loop' \in {"steal", "draw"}
    BY <1>2
  <2>2. LoopTypeOK'
    <3>1. lag' \in 0..Wrap - 1 /\ usec' \in 0..PerFrame - 1 /\ todo' \in Nat /\ credit' \in Int
      BY <1>1, <1>2, <2>1
    <3> QED BY <1>3, <1>4, <2>1, <3>1, Zenon DEF LoopTypeOK
  <2>3. TurnIsDone' /\ KeepsPace'
    BY <1>1, <1>2, <2>1 DEF TurnIsDone, KeepsPace
  <2> QED BY <2>2, <2>3
<1>6. CASE MeasurePaced(elapsed)
  <2> DEFINE due == usec + Passed(elapsed)
             frames == due \div PerFrame
  <2>1. due \in Nat /\ due = usec + Passed(elapsed)
    BY <1>1, <1>2
  <2>2. frames \in Nat /\ due % PerFrame \in 0..PerFrame - 1
          /\ due = (frames * PerFrame) + (due % PerFrame)
    BY <1>1, <2>1, FramesAndRest
  <2>3. /\ usec' = due % PerFrame /\ lag' = 0
        /\ todo' = IF frozen THEN 0 ELSE frames
        /\ loop' = CASE frames = 0 -> "events"
                     [] frames > 0 /\ frozen -> "steal"
                     [] frames > 1 /\ ~frozen -> "skip"
                     [] frames = 1 /\ ~frozen -> "draw"
        /\ clock' = IF clock = "unread" /\ ~stopped THEN "late" ELSE "read"
        /\ credit' = IF frozen THEN usec'
                     ELSE (IF clock = "late" THEN usec ELSE credit)
                            + (IF stopped THEN 0 ELSE elapsed % Wrap)
    BY <1>6 DEF MeasurePaced, LagAfter
  <2> HIDE DEF due, frames
  <2>4. loop' \in {"events", "steal", "skip", "draw"}
    BY <2>2, <2>3, <1>2 DEF LoopInv, LoopTypeOK
  <2>5. lag' \in 0..Wrap - 1
    BY <1>1, <1>2, <2>3
  <2>6. todo' \in Nat /\ usec' \in 0..PerFrame - 1 /\ clock' \in {"read", "late"}
    BY <2>2, <2>3
  <2>7. credit' \in Int
    BY <1>1, <1>2, <2>3, <2>6
  <2>8. LoopTypeOK'
    BY <1>3, <1>4, <2>4, <2>5, <2>6, <2>7, Zenon DEF LoopTypeOK
  <2>9. TurnIsDone'
    BY <2>3, <2>4 DEF TurnIsDone
  <2>10. KeepsPace'
    <3> SUFFICES ASSUME clock' # "late" PROVE credit' = todo' * PerFrame + usec'
      BY DEF KeepsPace
    <3>1. clock # "unread" \/ stopped
      BY <2>3
    <3>2. Passed(elapsed) = IF stopped THEN 0 ELSE elapsed % Wrap
      BY <3>1, <1>1 DEF Passed, LoopInv, TurnIsDone
    <3>3. clock # "late" => credit = usec
      BY <1>1, <1>2 DEF LoopInv, KeepsPace
    <3>4. CASE frozen
      BY <1>1, <2>3, <2>6, <3>4
    <3>5. CASE ~frozen
      <4>1. credit' = due
        BY <1>2, <2>1, <2>3, <3>2, <3>3, <3>5
      <4>2. due = todo' * PerFrame + usec'
        BY <2>2, <2>3, <3>5
      <4> QED BY <4>1, <4>2
    <3> QED BY <3>4, <3>5
  <2> QED BY <2>8, <2>9, <2>10
<1> QED BY <1>5, <1>6

-----------------------------------------------------------------------------
(* The rest of a turn                                                       *)

LEMMA StealTypeKept ==
  ASSUME LoopTypeOK, LoopNext
  PROVE  StealTypeOK'
<1> USE DEF StealTypeOK
<1>1. StealTypeOK /\ QuadshotCount \in Nat /\ QuadshotCount > 0
  BY StealAssumption DEF LoopTypeOK, StealAssumption
<1>2. CASE Measure \/ Freeze \/ Quit \/ EndEvents
  BY <1>1, <1>2, Zenon DEF Measure, Freeze, Quit, EndEvents, pictureVars, headset, shots, picture
<1>3. CASE SkipFrame
  BY <1>1, <1>3, Zenon DEF SkipFrame, Emulate, shots, picture
<1>4. CASE DrawFrame
  <2>1. mixes' \in 0..2
    BY <1>4 DEF DrawFrame
  <2> QED BY <1>1, <1>4, <2>1, Zenon DEF DrawFrame, Emulate, shots
<1>5. CASE Steal
  <2>1. shotCount' \in 0..QuadshotCount
    BY <1>1, <1>5 DEF Steal, StealFrame, StereoShot, TakesShot
  <2>2. mixes' \in 0..2
    BY <1>1, <1>5 DEF Steal, StealFrame, StealPicture
  <2>3. kickoff' \in BOOLEAN /\ shown' \in BOOLEAN
    BY <1>5, Zenon DEF Steal, StealFrame, StereoShot, StealPicture, KickoffAfter
  <2>4. firstShot' \in {"none", "left", "right"} /\ eyeMap' \in {"none", "fits", "misfit"}
    BY <1>1, <1>5 DEF Steal, StealFrame, StereoShot, StealPicture
  <2>5. UNCHANGED <<headset, reasked>>
    BY <1>5 DEF Steal, StealFrame, StereoShot
  <2> QED BY <1>1, <2>1, <2>2, <2>3, <2>4, <2>5, Zenon DEF headset
<1>6. CASE Control
  <2>1. CASE Quadshot
    <3>1. shotCount' \in 0..QuadshotCount /\ firstShot' \in {"none", "left", "right"}
      BY <1>1, <2>1 DEF Quadshot
    <3>2. reasked' \in BOOLEAN
      BY <2>1 DEF Quadshot
    <3> QED BY <1>1, <2>1, <3>1, <3>2, Zenon DEF Quadshot, headset, picture
  <2>2. CASE HeadsetReset
    <3>1. shotCount' \in 0..QuadshotCount
      BY <1>1, <2>2 DEF HeadsetReset
    <3> QED BY <1>1, <2>2, <3>1, Zenon DEF HeadsetReset, picture
  <2> QED BY <1>6, <2>1, <2>2 DEF Control
<1>7. CASE ResizeScreen
  <2>1. mixes' \in 0..2 /\ eyeMap' \in {"none", "fits", "misfit"}
    BY <1>1, <1>7 DEF ResizeScreen, Resize
  <2> QED BY <1>1, <1>7, <2>1, Zenon DEF ResizeScreen, Resize, headset, shots
<1> QED BY <1>2, <1>3, <1>4, <1>5, <1>6, <1>7 DEF LoopNext, Turn, Events

(* A frame that is emulated is taken off what is due and off the time.      *)
LEMMA EmulateKeepsPace ==
  ASSUME LoopTypeOK, TurnIsDone, KeepsPace, Emulate
  PROVE  todo' \in Nat /\ credit' \in Int /\ KeepsPace'
<1>1. /\ todo \in Nat /\ credit \in Int /\ usec \in Int /\ PerFrame \in Nat
      /\ UNCHANGED <<usec, clock>>
  BY MainLoopAssumption DEF LoopTypeOK, MainLoopAssumption, Emulate
<1>2. CASE todo > 0
  <2>1. todo' = todo - 1 /\ credit' = credit - PerFrame
    BY <1>2 DEF Emulate
  <2>2. (todo - 1) * PerFrame = (todo * PerFrame) - PerFrame
    BY <1>1, OneFrameLess
  <2>3. todo * PerFrame \in Int
    BY <1>1
  <2> QED BY <1>1, <1>2, <2>1, <2>2, <2>3 DEF KeepsPace
<1>3. CASE ~(todo > 0)
  <2>1. todo' = todo /\ credit' = credit
    BY <1>1, <1>3 DEF Emulate
  <2> QED BY <1>1, <2>1 DEF KeepsPace
<1> QED BY <1>2, <1>3

LEMMA PaceStep ==
  ASSUME LoopInv, [LoopNext]_loopVars
  PROVE  LoopTypeOK' /\ TurnIsDone' /\ KeepsPace'
<1> USE DEF LoopInv
<1>1. CASE Measure
  BY <1>1, MeasureKeeps
<1>2. CASE SkipFrame \/ DrawFrame
  <2>1. Emulate /\ loop' \in {"events", "steal"}
    BY <1>2 DEF SkipFrame, DrawFrame
  <2>2. todo' \in Nat /\ credit' \in Int /\ KeepsPace'
    BY <2>1, EmulateKeepsPace
  <2>3. StealTypeOK'
    BY <1>2, StealTypeKept DEF LoopNext, Turn
  <2>4. LoopTypeOK'
    BY <2>1, <2>2, <2>3, Zenon DEF LoopTypeOK, Emulate
  <2>5. TurnIsDone'
    BY <2>1 DEF Emulate, TurnIsDone
  <2> QED BY <2>2, <2>4, <2>5
<1>3. CASE Steal \/ Events \/ EndEvents
  <2>1. UNCHANGED clockVars
    BY <1>3, Zenon DEF Steal, Events, Control, ResizeScreen, Freeze, Quit, EndEvents
  <2>2. loop' \in {"measure", "skip", "draw", "steal", "events", "over"}
    <3>1. CASE Steal \/ Events
      BY <3>1 DEF LoopTypeOK, Steal, Events, Control, ResizeScreen, Freeze, Quit
    <3>2. CASE EndEvents
      BY <3>2 DEF LoopTypeOK, EndEvents, NextTurn
    <3> QED BY <1>3, <3>1, <3>2
  <2>3. StealTypeOK'
    BY <1>3, StealTypeKept DEF LoopNext, Turn
  <2>4. frozen' \in BOOLEAN /\ stop' \in BOOLEAN /\ stopped' \in BOOLEAN
    BY <1>3, Zenon DEF LoopTypeOK, Steal, Events, Control, ResizeScreen, Freeze, Quit, EndEvents
  <2>5. LoopTypeOK'
    BY <2>1, <2>2, <2>3, <2>4, Zenon DEF LoopTypeOK, clockVars
  <2>6. loop' = "measure" => loop = "measure" \/ todo = 0
    <3>1. CASE Steal \/ Events
      BY <3>1 DEF Steal, Events, Control, ResizeScreen, Freeze, Quit
    <3>2. CASE EndEvents
      BY <3>2 DEF LoopTypeOK, EndEvents
    <3> QED BY <1>3, <3>1, <3>2
  <2>7. TurnIsDone' /\ KeepsPace'
    BY <2>1, <2>6 DEF TurnIsDone, KeepsPace, clockVars
  <2> QED BY <2>5, <2>7
<1>4. CASE UNCHANGED loopVars
  <2>1. LoopTypeOK'
    <3>1. UNCHANGED <<headset, shots, picture>> /\ UNCHANGED <<loop, frozen, stop, stopped>>
            /\ UNCHANGED clockVars
      BY <1>4 DEF loopVars, pictureVars
    <3>2. StealTypeOK /\ StealTypeOK'
      BY <3>1, Zenon DEF headset, shots, picture, LoopTypeOK, StealTypeOK
    <3> QED BY <3>1, <3>2, Zenon DEF clockVars, LoopTypeOK
  <2>2. UNCHANGED <<loop, clockVars>>
    BY <1>4 DEF loopVars
  <2> QED BY <2>1, <2>2 DEF clockVars, TurnIsDone, KeepsPace
<1> QED BY <1>1, <1>2, <1>3, <1>4 DEF LoopNext, Turn

-----------------------------------------------------------------------------
(* Pictures                                                                 *)

LEMMA SeriesStep ==
  ASSUME LoopInv, [LoopNext]_loopVars
  PROVE  KickoffIsOwn' /\ FreshSeriesStartsLeft'
<1> USE DEF KickoffIsOwn, FreshSeriesStartsLeft
<1>1. KickoffIsOwn /\ FreshSeriesStartsLeft /\ shotCount \in Nat
        /\ kickoff \in BOOLEAN /\ reasked \in BOOLEAN
  BY StealAssumption DEF LoopInv, LoopTypeOK, StealTypeOK, StealAssumption
<1>2. CASE Steal
  <2> USE DEF TakesShot, KickoffAfter
  <2>1. /\ kickoff' = KickoffAfter
        /\ shotCount' = IF TakesShot THEN shotCount - 1 ELSE shotCount
        /\ firstShot' = IF TakesShot /\ firstShot = "none"
                        THEN (IF IsLeft THEN "left" ELSE "right") ELSE firstShot
        /\ reasked' = reasked
    BY <1>2 DEF Steal, StealFrame, StereoShot
  <2>2. CASE TakesShot
    <3>1. shotCount > 0 /\ shotCount' = shotCount - 1 /\ firstShot' # "none"
      BY <2>1, <2>2
    <3>2. kickoff' <=> shotCount # 1
      BY <2>1, <2>2
    <3>3. ~reasked /\ firstShot = "none" => IsLeft
      BY <1>1, <2>2
    <3>4. firstShot # "none" => firstShot' = firstShot
      BY <2>1
    <3>5. ~reasked /\ firstShot = "none" => firstShot' = "left"
      BY <2>1, <2>2, <3>3
    <3>6. KickoffIsOwn'
      BY <1>1, <3>1, <3>2
    <3>7. FreshSeriesStartsLeft'
      BY <1>1, <2>1, <3>4, <3>5
    <3> QED BY <3>6, <3>7
  <2>3. CASE ~TakesShot
    <3>1. (kickoff' <=> kickoff) /\ UNCHANGED <<shotCount, firstShot, reasked>>
      BY <2>1, <2>3
    <3> QED BY <1>1, <3>1
  <2> QED BY <2>2, <2>3
<1>3. CASE Control
  BY <1>1, <1>3, StealAssumption DEF Control, Quadshot, HeadsetReset, StealAssumption
<1>4. CASE UNCHANGED shots
  BY <1>1, <1>4 DEF shots
<1>5. UNCHANGED shots \/ Steal \/ Control
  BY DEF LoopNext, Turn, Events, Measure, SkipFrame, DrawFrame, Emulate, ResizeScreen, Resize,
     Freeze, Quit, EndEvents, loopVars, pictureVars
<1> QED BY <1>2, <1>3, <1>4, <1>5

LEMMA DrawnStep ==
  ASSUME LoopInv, [LoopNext]_loopVars
  PROVE  DrawnAnew'
<1> USE DEF DrawnAnew
<1>1. CASE Measure
  <2> PICK elapsed \in 0..MaxElapsed : MeasureUnpaced(elapsed) \/ MeasurePaced(elapsed)
    BY <1>1 DEF Measure
  <2>1. loop' = "steal" => frozen
    <3>1. CASE MeasureUnpaced(elapsed)
      BY <3>1 DEF MeasureUnpaced
    <3>2. CASE MeasurePaced(elapsed)
      <4>1. (usec + Passed(elapsed)) \div PerFrame \in Nat
        <5>1. usec + Passed(elapsed) \in Nat /\ PerFrame \in Nat /\ PerFrame > 0
          BY MainLoopAssumption, PassedIsTicks DEF MainLoopAssumption, LoopInv, LoopTypeOK
        <5> QED BY <5>1, FramesAndRest
      <4> QED BY <3>2, <4>1 DEF MeasurePaced, LoopInv, LoopTypeOK
    <3> QED BY <3>1, <3>2
  <2> QED BY <1>1, <2>1 DEF Measure
<1>2. CASE SkipFrame \/ DrawFrame \/ Steal
  BY <1>2 DEF SkipFrame, DrawFrame, Emulate, Steal
<1>3. CASE Events
  BY <1>3 DEF Events, Control, ResizeScreen, Freeze, Quit
<1>4. CASE EndEvents
  BY <1>4 DEF EndEvents, NextTurn, LoopInv, LoopTypeOK
<1>5. CASE UNCHANGED loopVars
  BY <1>5 DEF loopVars, pictureVars, picture, LoopInv
<1> QED BY <1>1, <1>2, <1>3, <1>4, <1>5 DEF LoopNext, Turn

-----------------------------------------------------------------------------
THEOREM LoopInvAlways == LoopSpec => []LoopInv
<1>1. LoopInv /\ [LoopNext]_loopVars => LoopInv'
  BY PaceStep, SeriesStep, DrawnStep DEF LoopInv
<1> QED BY LoopInvInit, <1>1, PTL DEF LoopSpec

(* The loop's variables keep their ranges: the clock is never behind the    *)
(* time that was measured, and less than a frame of time is left over.      *)
THEOREM LoopTypeCorrect == LoopSpec => []LoopTypeOK
<1>1. LoopInv => LoopTypeOK
  BY DEF LoopInv
<1> QED BY LoopInvAlways, <1>1, PTL

(* Outside the turns that measure from a stale clock, the time that passed   *)
(* and was not emulated is exactly the frames still due in this turn and the *)
(* part of a frame left over: main() neither loses time nor makes it up.     *)
THEOREM PaceIsKept == LoopSpec => []KeepsPace
<1>1. LoopInv => KeepsPace
  BY DEF LoopInv
<1> QED BY LoopInvAlways, <1>1, PTL

(* segavr_steal_frame starts a series with the left eye whatever its length, *)
(* unless it was asked for while another series was running.                *)
THEOREM SeriesStartsLeft == LoopSpec => []FreshSeriesStartsLeft
<1>1. LoopInv => FreshSeriesStartsLeft
  BY DEF LoopInv
<1> QED BY LoopInvAlways, <1>1, PTL

(* A loop that emulates gives segavr_steal_frame a picture that one_frame    *)
(* drew in this turn: only a frozen one mixes the left eye in once more.     *)
THEOREM OnlyFrozenCombinesTwice == LoopSpec => CombinedTwiceOnlyFrozen
<1>1. LoopInv /\ [LoopNext]_loopVars => [mixes = 1 /\ mixes' = 2 => frozen]_loopVars
  <2> SUFFICES ASSUME LoopInv, LoopNext, mixes = 1, mixes' = 2 PROVE frozen
    OBVIOUS
  <2>1. CASE Steal
    BY <2>1 DEF Steal, LoopInv, DrawnAnew
  <2>2. CASE LoopNext /\ ~Steal
    <3>1. mixes' = mixes \/ mixes' = 0
      BY <2>2 DEF LoopNext, Turn, Events, Measure, SkipFrame, DrawFrame, Control, Quadshot,
         HeadsetReset, ResizeScreen, Resize, Freeze, Quit, EndEvents, pictureVars, picture
    <3> QED BY <3>1
  <2> QED BY <2>1, <2>2
<1> QED BY LoopInvAlways, <1>1, PTL DEF LoopSpec, CombinedTwiceOnlyFrozen
=============================================================================
