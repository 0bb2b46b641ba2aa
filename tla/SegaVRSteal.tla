---------------------------- MODULE SegaVRSteal ----------------------------
(***************************************************************************)
(* What becomes of the pictures of a Sega VR game: segavr_steal_frame takes *)
(* stereo shots and keeps or combines the picture that one_frame drew into  *)
(* mdscr.  MainLoop says when it is called.                                 *)
(*                                                                         *)
(* The eye and the activity of the headset come from SegaVRFrame and are   *)
(* any value here.  Built with WITH_SEGAVR and without WITH_OPENVR;        *)
(* display mode on and 24 bits per pixel or more, so that frames are       *)
(* stolen exactly while the headset is active.                             *)
(***************************************************************************)
EXTENDS Naturals

CONSTANTS
  SwapEyeFrames,     \* dgen_segavr_swapeyeframes
  FlipBetweenPolls,  \* dgen_segavr_flipbetweenpolls
  QuadshotCount      \* dgen_segavr_quadshot_count

ASSUME StealAssumption ==
  /\ SwapEyeFrames \in BOOLEAN
  /\ FlipBetweenPolls \in BOOLEAN
  /\ QuadshotCount \in Nat \ {0}

VARIABLES
  active,         \* skHmdFlag_IsActive
  scannedOnLeft,  \* skHmdFlag_ScannedOnLeft
  oddVblanks,     \* mHmdVblankCounter & 1
  kickoff,        \* skHmdFlag_StereoShotKickoff
  shotCount,      \* mStereoShotCount
  eyeMap,         \* mpEyeMap: "none", "fits" or "misfit" (format changed)
  mixes,          \* how often the picture in mdscr was combined: 0, 1, 2+
  shown,          \* history: the last turn called pd_graphics_update
  firstShot,      \* history: eye of the first shot of the last series
  reasked         \* history: that series was asked for during another

headset == <<active, scannedOnLeft, oddVblanks>>
shots == <<kickoff, shotCount, firstShot, reasked>>
picture == <<eyeMap, mixes, shown>>

StealInit ==
  /\ active = FALSE /\ scannedOnLeft = FALSE /\ oddVblanks = FALSE
  /\ kickoff = FALSE /\ shotCount = 0 /\ firstShot = "none" /\ reasked = FALSE
  /\ eyeMap = "none" /\ mixes = 0 /\ shown = FALSE

-----------------------------------------------------------------------------
(* segavr_steal_frame                                                      *)

\* Two truth values differ: an odd number of swaps.
Swapped(eye, swap) == eye # swap

IsLeft == Swapped(Swapped(scannedOnLeft, SwapEyeFrames), FlipBetweenPolls /\ oddVblanks)

\* Mutant: the flag is tested before it is set.
TakesShotNeedsKickoff == shotCount > 0 /\ kickoff

\* "want to make sure we kick off on the left eye"
TakesShot == shotCount > 0 /\ (kickoff \/ IsLeft)

KickoffAfter == (kickoff \/ TakesShot) /\ ~(TakesShot /\ shotCount = 1)

StereoShot ==
  /\ kickoff' = KickoffAfter
  /\ shotCount' = IF TakesShot THEN shotCount - 1 ELSE shotCount
  /\ firstShot' =
       IF TakesShot /\ firstShot = "none"
       THEN IF IsLeft THEN "left" ELSE "right"
       ELSE firstShot
  /\ UNCHANGED reasked

\* A right picture is combined with the kept left one, in place.
Combines == active /\ eyeMap = "fits" /\ ~IsLeft

\* The first picture of a format creates the map and is shown; a left one is
\* kept and not shown.  (Mutant: the other eye.)
KeepsRight == active /\ eyeMap = "fits" /\ ~IsLeft
KeepsLeft == active /\ eyeMap = "fits" /\ IsLeft

StealPicture ==
  /\ eyeMap' = IF active THEN "fits" ELSE eyeMap
  /\ mixes' = IF Combines /\ mixes < 2 THEN mixes + 1 ELSE mixes
  /\ shown' = ~KeepsLeft

StealFrame == StereoShot /\ StealPicture /\ UNCHANGED headset

-----------------------------------------------------------------------------
(* What pd_handle_events may do to it                                      *)

\* ctl_hmd_quadshot sets the count, also while a series is running.
\* Mutant: the count is added to a running series.
QuadshotAdds ==
  /\ shotCount' = (shotCount + QuadshotCount) % 256
  /\ firstShot' = "none"
  /\ reasked' = (shotCount > 0)
  /\ UNCHANGED <<headset, kickoff, picture>>

Quadshot ==
  /\ shotCount' = QuadshotCount
  /\ firstShot' = "none"
  /\ reasked' = (shotCount > 0)
  /\ UNCHANGED <<headset, kickoff, picture>>

\* screen_init gives mdscr another size or depth.
Resize ==
  /\ eyeMap' = IF eyeMap = "none" THEN "none" ELSE "misfit"
  /\ mixes' = 0
  /\ UNCHANGED <<headset, shots, shown>>

\* md::reset runs segavr_init, which leaves the eye map alone.  Mutant: and
\* the flags.
HeadsetResetKeepsFlags ==
  /\ active' = FALSE /\ scannedOnLeft' = FALSE /\ oddVblanks' = FALSE
  /\ shotCount' = 0
  /\ firstShot' = "none" /\ reasked' = FALSE
  /\ UNCHANGED <<kickoff, picture>>

HeadsetReset ==
  /\ active' = FALSE /\ scannedOnLeft' = FALSE /\ oddVblanks' = FALSE
  /\ kickoff' = FALSE /\ shotCount' = 0
  /\ firstShot' = "none" /\ reasked' = FALSE
  /\ UNCHANGED picture

StealTypeOK ==
  /\ active \in BOOLEAN /\ scannedOnLeft \in BOOLEAN /\ oddVblanks \in BOOLEAN
  /\ kickoff \in BOOLEAN /\ shotCount \in 0..QuadshotCount
  /\ firstShot \in {"none", "left", "right"} /\ reasked \in BOOLEAN
  /\ eyeMap \in {"none", "fits", "misfit"} /\ mixes \in 0..2 /\ shown \in BOOLEAN
=============================================================================
