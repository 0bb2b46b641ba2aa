------------------------------ MODULE MainLoop ------------------------------
(***************************************************************************)
(* The main loop (main.cpp): it measures how much time has passed, skips   *)
(* the frames it is late by, draws one, hands the picture to                *)
(* segavr_steal_frame (SegaVRSteal) or to the screen, and handles events.   *)
(* While the headset is active no frames are skipped and the clock is not   *)
(* read.                                                                    *)
(*                                                                         *)
(* Time is in ticks.  Sound and demos, which follow every frame, and        *)
(* sleeping are left out, and so is the debugger.                           *)
(***************************************************************************)
EXTENDS SegaVRSteal, Integers

CONSTANTS
  PerFrame,    \* usec_frame, ticks of a frame
  Wrap,        \* 0x400000: elapsed time is taken modulo this
  MaxElapsed   \* bound on the time a turn takes, for TLC only

ASSUME MainLoopAssumption ==
  /\ PerFrame \in Nat \ {0} /\ Wrap \in Nat /\ Wrap >= PerFrame
  /\ MaxElapsed \in Nat

VARIABLES
  loop,       \* "measure", "skip", "draw", "steal", "events" or "over"
  frozen,     \* pd_freeze
  stop,       \* stop
  stopped,    \* stopped, which pd_stopped() reads and clears
  lag,        \* newclk - oldclk, modulo Wrap, as of the last measure
  usec,       \* usec, the part of a frame left over
  todo,       \* frames_todo: frames still to be emulated in this turn
  credit,     \* history: time that passed and was not emulated
  clock       \* history: "read" in this turn, "unread" in this turn, or "late",
              \* read in this turn but not in the turns before

clockVars == <<lag, usec, todo, credit, clock>>
pictureVars == <<headset, shots, picture>>
loopVars == <<pictureVars, loop, frozen, stop, stopped, clockVars>>

LoopInit ==
  /\ StealInit
  /\ loop = "measure" /\ frozen = FALSE /\ stop = FALSE /\ stopped = FALSE
  /\ lag = 0 /\ usec = 0 /\ todo = 0
  /\ credit = 0 /\ clock = "read"

-----------------------------------------------------------------------------
(* Measuring                                                               *)

\* pd_stopped() means that the time since the last turn does not count.
Passed(elapsed) == IF stopped THEN 0 ELSE (lag + elapsed) % Wrap

\* segavr_allow_frameskip, "don't allow frameskip when active": the picture is
\* drawn at once and neither the clock nor the time left over is touched.
MeasureUnpaced(elapsed) ==
  /\ active
  /\ lag' = Passed(elapsed)
  /\ loop' = IF frozen THEN "steal" ELSE "draw"
  /\ credit' = usec /\ clock' = "unread"
  /\ UNCHANGED <<usec, todo>>

\* Mutant: the clock is read only when there is a frame to do.
LagAfterDue(due) == IF due >= PerFrame THEN 0 ELSE due - usec
LagAfter(due) == 0

MeasurePaced(elapsed) ==
  LET due == usec + Passed(elapsed)
      frames == due \div PerFrame
  IN  /\ ~active
      /\ usec' = due % PerFrame
      /\ lag' = LagAfter(due)
      /\ todo' = IF frozen THEN 0 ELSE frames
      /\ loop' = CASE frames = 0 -> "events"
                   [] frames > 0 /\ frozen -> "steal"
                   [] frames > 1 /\ ~frozen -> "skip"
                   [] frames = 1 /\ ~frozen -> "draw"
      /\ clock' = IF clock = "unread" /\ ~stopped THEN "late" ELSE "read"
      /\ credit' = IF frozen THEN usec'
                   ELSE (IF clock = "late" THEN usec ELSE credit)
                          + (IF stopped THEN 0 ELSE elapsed % Wrap)

Measure ==
  /\ loop = "measure"
  /\ \E elapsed \in 0..MaxElapsed : MeasureUnpaced(elapsed) \/ MeasurePaced(elapsed)
  /\ stopped' = FALSE
  /\ UNCHANGED <<pictureVars, frozen, stop>>

-----------------------------------------------------------------------------
(* Emulating                                                               *)

\* The game may activate or abandon the headset in any frame.
Emulate ==
  /\ active' \in BOOLEAN /\ scannedOnLeft' \in BOOLEAN /\ oddVblanks' \in BOOLEAN
  /\ todo' = IF todo > 0 THEN todo - 1 ELSE 0
  /\ credit' = IF todo > 0 THEN credit - PerFrame ELSE credit
  /\ UNCHANGED <<shots, frozen, stop, stopped, lag, usec, clock>>

\* A frame without a picture; the rest of the frames are not reconsidered,
\* whatever the events that are handled after each of them.
SkipFrame ==
  /\ loop = "skip"
  /\ loop' = "events"
  /\ Emulate
  /\ UNCHANGED picture

\* Mutant: one_frame returns without drawing.
DrawFrameTrapped ==
  /\ loop = "draw"
  /\ loop' = "steal"
  /\ Emulate
  /\ UNCHANGED picture

DrawFrame ==
  /\ loop = "draw"
  /\ loop' = "steal"
  /\ Emulate
  /\ mixes' = 0
  /\ UNCHANGED <<eyeMap, shown>>

\* segavr_steal_frame, or else pd_graphics_update.
Steal ==
  /\ loop = "steal"
  /\ loop' = "events"
  /\ StealFrame
  /\ UNCHANGED <<frozen, stop, stopped, clockVars>>

-----------------------------------------------------------------------------
(* pd_handle_events                                                        *)

Control ==
  /\ loop = "events"
  /\ Quadshot \/ HeadsetReset
  /\ UNCHANGED <<loop, frozen, stop, stopped, clockVars>>

\* screen_init takes its time and says so.
ResizeScreen ==
  /\ loop = "events"
  /\ Resize
  /\ stopped' = TRUE
  /\ UNCHANGED <<loop, frozen, stop, clockVars>>

\* stop_events and restart_events: the prompt, or a stopped game.
Freeze ==
  /\ loop = "events"
  /\ frozen' = ~frozen
  /\ stopped' = TRUE
  /\ UNCHANGED <<pictureVars, loop, stop, clockVars>>

Quit ==
  /\ loop = "events"
  /\ stop' = TRUE
  /\ UNCHANGED <<pictureVars, loop, frozen, stopped, clockVars>>

Events == Control \/ ResizeScreen \/ Freeze \/ Quit

\* Mutant: a frozen loop is not left.
NextTurnFrozen == IF stop /\ ~frozen THEN "over" ELSE "measure"
NextTurn == IF stop THEN "over" ELSE "measure"

\* Events are handled after every skipped frame and at the end of the turn.
EndEvents ==
  /\ loop = "events"
  /\ loop' = CASE todo > 1 -> "skip" [] todo = 1 -> "draw" [] todo = 0 -> NextTurn
  /\ UNCHANGED <<pictureVars, frozen, stop, stopped, clockVars>>

-----------------------------------------------------------------------------
Turn == Measure \/ SkipFrame \/ DrawFrame \/ Steal \/ EndEvents

LoopNext == Turn \/ Events

LoopSpec == LoopInit /\ [][LoopNext]_loopVars

\* The loop always goes on: events are not handled for ever.
LoopFairSpec ==
  /\ LoopSpec
  /\ WF_loopVars(Measure \/ SkipFrame \/ DrawFrame \/ Steal) /\ WF_loopVars(EndEvents)

-----------------------------------------------------------------------------
LoopTypeOK ==
  /\ StealTypeOK
  /\ loop \in {"measure", "skip", "draw", "steal", "events", "over"}
  /\ frozen \in BOOLEAN /\ stop \in BOOLEAN /\ stopped \in BOOLEAN
  /\ lag \in 0..Wrap - 1 /\ usec \in 0..PerFrame - 1 /\ todo \in Nat
  /\ credit \in Int /\ clock \in {"read", "unread", "late"}

\* "want to make sure we kick off on the left eye" (md_vr.cpp:195): a series of
\* stereo shots starts with the left eye, so that shots pair up, unless it was
\* asked for while another was running, whose kickoff flag it inherits.
FreshSeriesStartsLeft == ~reasked => firstShot \in {"none", "left"}

\* Frames are emulated for the time that passed: none is skipped or drawn that
\* is not due ("when it is necessary to maintain proper emulation speed",
\* dgenrc.5:329), and no time is lost.  The one exception is the first turn
\* after the headset went inactive, which measures from a clock that was not
\* read while frames were drawn and skips them once more.
KeepsPace == clock # "late" => credit = (todo * PerFrame) + usec

\* Only a frozen loop combines a picture that is combined already: in place,
\* each turn mixes the kept left eye into the result of the turn before.
CombinedTwiceOnlyFrozen == [][mixes = 1 /\ mixes' = 2 => frozen]_loopVars

\* The screen keeps being updated as long as pictures for the right eye come:
\* keeping a left one to itself never hides more than that picture.
ScreenUpdated == []<>(loop = "steal" /\ ~IsLeft) => []<>(loop = "events" /\ shown)

\* An asked-for series is taken to its end (or dropped by a reset) if the left
\* eye keeps coming up, also when the player freezes the loop in between or
\* asks for it again a finite number of times.
SeriesEnds ==
  ([]<>(loop = "steal" /\ IsLeft) /\ <>[][~(Control /\ Quadshot)]_loopVars) => <>[](shotCount = 0)

\* Quitting ends the loop, frozen or late, and also when it was asked for
\* between two skipped frames.
QuitEnds == stop ~> loop = "over"
=============================================================================
