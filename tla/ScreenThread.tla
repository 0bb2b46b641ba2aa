---------------------------- MODULE ScreenThread ----------------------------
(***************************************************************************)
(* The optional screen thread of sdl/sdl.cpp (bool_screen_thread): the     *)
(* emulator draws into the screen's buffer under screen.lock and signals   *)
(* screen.cond; the thread waits on that condition and flips the screen.   *)
(* Every screen_init (resize, full screen, options) stops the thread       *)
(* first and starts it again last; pd_quit stops it.                       *)
(*                                                                         *)
(* The condition variable is POSIX's: a signal nobody waits for is lost,   *)
(* and a wait may end without a signal.  The mutex is SDL's, which is      *)
(* recursive.                                                              *)
(***************************************************************************)
EXTENDS Naturals

CONSTANTS MaxPictures,   \* bound on the pictures drawn
          SurfaceFails   \* whether SDL_LockSurface may fail

DepthBound == 2          \* bound on the locks a failing surface leaves behind

ASSUME ScreenAssumption ==
  MaxPictures \in Nat \ {0} /\ SurfaceFails \in BOOLEAN

VARIABLES
  main,        \* where the emulator's thread is, see MainStates
  worker,      \* where the screen thread is, see WorkerStates
  wantThread,  \* screen.want_thread, which the thread polls
  isThread,    \* screen.is_thread
  holder,      \* who holds screen.lock
  depth,       \* how many times the emulator's thread has locked it
  drawn,       \* the last picture in the screen's buffer
  shown,       \* the last picture flipped to the display
  refused      \* history: the last flip failed, the surface being locked

screenVars == <<main, worker, wantThread, isThread, holder, depth, drawn,
                shown, refused>>

MainStates == {"running",   \* between two uses of the screen
               "locking",   \* a picture is due, screen_lock is next
               "drawing",   \* inside the lock
               "unlocking", \* the mutex is free, SDL_UnlockSurface is next
               "drawn",     \* unlocked, screen_update is next
               "stopping",  \* want_thread cleared, signal is next
               "joining",   \* in SDL_WaitThread
               "setting",   \* no thread: SDL_SetVideoMode is next
               "leaving",   \* as "stopping" and "joining", for pd_quit
               "ending", "quit"}
WorkerStates == {"none", "starting", "check", "committed", "waiting",
                 "woken", "updating", "gone"}

ScreenInit ==
  /\ main = "setting"
  /\ worker = "none" /\ wantThread = FALSE /\ isThread = FALSE
  /\ holder = "nobody" /\ depth = 0
  /\ drawn = 0 /\ shown = 0 /\ refused = FALSE

-----------------------------------------------------------------------------
(* screen_update_thread                                                     *)

WorkerLock ==
  /\ worker = "starting" /\ holder = "nobody"
  /\ worker' = "check" /\ holder' = "worker"
  /\ UNCHANGED <<main, wantThread, isThread, depth, drawn, shown, refused>>

\* The loop's condition: SDL_CondWait is next, or the thread returns.
WorkerCheck ==
  /\ worker = "check"
  /\ IF wantThread THEN worker' = "committed" /\ UNCHANGED holder
                   ELSE worker' = "gone" /\ holder' = "nobody"
  /\ UNCHANGED <<main, wantThread, isThread, depth, drawn, shown, refused>>

\* SDL_CondWait: from here on, and no earlier, a signal wakes the thread.
WorkerWait ==
  /\ worker = "committed"
  /\ worker' = "waiting" /\ holder' = "nobody"
  /\ UNCHANGED <<main, wantThread, isThread, depth, drawn, shown, refused>>

WorkerWakesAlone ==
  /\ worker = "waiting" /\ worker' = "woken"
  /\ UNCHANGED <<main, wantThread, isThread, holder, depth, drawn, shown, refused>>

WorkerRelock ==
  /\ worker = "woken" /\ holder = "nobody"
  /\ worker' = "updating" /\ holder' = "worker"
  /\ UNCHANGED <<main, wantThread, isThread, depth, drawn, shown, refused>>

\* screen_update_once, still inside the mutex.  The emulator may hold the
\* surface a moment longer than the mutex: SDL_Flip may then fail.
WorkerUpdate ==
  /\ worker = "updating"
  /\ \/ shown' = drawn /\ refused' = FALSE
     \/ main = "unlocking" /\ refused' = TRUE /\ UNCHANGED shown
  /\ worker' = "check"
  /\ UNCHANGED <<main, wantThread, isThread, holder, depth, drawn>>

Worker == WorkerLock \/ WorkerCheck \/ WorkerWait \/ WorkerRelock
            \/ WorkerUpdate

SignalForgotten == worker
Signalled == IF worker = "waiting" THEN "woken" ELSE worker

-----------------------------------------------------------------------------
(* The emulator's thread: screen_lock, draw, screen_unlock, screen_update  *)

LockIsIgnored == TRUE
CanLock == isThread => holder \in {"nobody", "main"}

Draw ==
  /\ main = "running" /\ drawn < MaxPictures
  /\ main' = "locking"
  /\ UNCHANGED <<worker, wantThread, isThread, holder, depth, drawn, shown, refused>>

Take ==
  IF isThread THEN holder' = "main" /\ depth' = depth + 1
              ELSE UNCHANGED <<holder, depth>>

Release ==
  IF isThread
    THEN /\ depth' = depth - 1
         /\ holder' = IF depth = 1 THEN "nobody" ELSE "main"
    ELSE UNCHANGED <<holder, depth>>

ScreenLock ==
  /\ main = "locking" /\ CanLock
  /\ Take
  /\ main' = "drawing"
  /\ UNCHANGED <<worker, wantThread, isThread, drawn, shown, refused>>

\* SDL_LockSurface fails: the caller returns and leaves the mutex locked.
ScreenLockFails ==
  /\ SurfaceFails
  /\ main = "locking" /\ CanLock
  /\ depth < DepthBound
  /\ Take
  /\ main' = "running"
  /\ UNCHANGED <<worker, wantThread, isThread, drawn, shown, refused>>

\* The picture is drawn; screen_unlock gives the mutex back first.
ScreenUnlock ==
  /\ main = "drawing"
  /\ drawn' = IF drawn < MaxPictures THEN drawn + 1 ELSE drawn
  /\ Release
  /\ main' = "unlocking"
  /\ UNCHANGED <<worker, wantThread, isThread, shown, refused>>

\* SDL_UnlockSurface, which does nothing for a surface that needs no lock.
\* screen_clear and pd_message_write stop here: no signal follows.
SurfaceUnlock ==
  /\ main = "unlocking"
  /\ main' \in {"drawn", "running"}
  /\ UNCHANGED <<worker, wantThread, isThread, holder, depth, drawn, shown, refused>>

ScreenUpdate ==
  /\ main = "drawn"
  /\ IF isThread THEN worker' = Signalled /\ UNCHANGED <<shown, refused>>
                 ELSE shown' = drawn /\ refused' = FALSE /\ UNCHANGED worker
  /\ main' = "running"
  /\ UNCHANGED <<wantThread, isThread, holder, depth, drawn>>

-----------------------------------------------------------------------------
(* screen_update_thread_stop, from screen_init and from pd_quit             *)

Stop ==
  /\ main = "running"
  /\ IF isThread
       THEN /\ wantThread' = FALSE
            /\ main' \in {"stopping", "leaving"}
       ELSE /\ UNCHANGED wantThread
            /\ main' \in {"setting", "quit"}
  /\ UNCHANGED <<worker, isThread, holder, depth, drawn, shown, refused>>

StopSignal ==
  /\ main \in {"stopping", "leaving"}
  /\ worker' = Signalled
  /\ main' = IF main = "stopping" THEN "joining" ELSE "ending"
  /\ UNCHANGED <<wantThread, isThread, holder, depth, drawn, shown, refused>>

ExitedOrAsleep == worker \in {"gone", "waiting"}
Exited == worker = "gone"

\* SDL_WaitThread returns, the condition and the mutex are destroyed.
Join ==
  /\ main \in {"joining", "ending"} /\ Exited
  /\ worker' = "none" /\ isThread' = FALSE
  /\ main' = IF main = "joining" THEN "setting" ELSE "quit"
  /\ UNCHANGED <<wantThread, holder, depth, drawn, shown, refused>>

-----------------------------------------------------------------------------
(* The rest of screen_init                                                  *)

StartThread ==
  /\ wantThread' = TRUE
  /\ \/ \* OpenGL, or SDL could not create the lock, condition or thread
        UNCHANGED <<worker, isThread>>
     \/ worker' = "starting" /\ isThread' = TRUE

\* screen_init ends by drawing the screen.
ScreenSet ==
  /\ main = "setting"
  /\ \/ StartThread
     \/ wantThread' = FALSE /\ UNCHANGED <<worker, isThread>>
  /\ main' = "locking"
  /\ UNCHANGED <<holder, depth, drawn, shown, refused>>

\* SDL_SetVideoMode fails: -1, the callers carry on with the old screen; or
\* memory runs out: -2, they leave, and pd_quit has no thread to stop.
ScreenSetFails ==
  /\ main = "setting"
  /\ \/ main' = "running" /\ UNCHANGED wantThread
     \/ main' = "quit" /\ wantThread' \in BOOLEAN
  /\ UNCHANGED <<worker, isThread, holder, depth, drawn, shown, refused>>

ScreenNext ==
  \/ Worker \/ WorkerWakesAlone
  \/ Draw \/ ScreenLock \/ ScreenLockFails \/ ScreenUnlock
  \/ SurfaceUnlock \/ ScreenUpdate
  \/ Stop \/ StopSignal \/ Join \/ ScreenSet \/ ScreenSetFails

ScreenSpec == ScreenInit /\ [][ScreenNext]_screenVars

\* Both threads keep running; a thread that waits for a mutex gets it when
\* it is free again and again.  Nothing forces a wait to end by itself, and
\* nothing forces the emulator to draw, to stop the thread, or SDL to fail.
ScreenFairness ==
  /\ SF_screenVars(WorkerLock) /\ SF_screenVars(WorkerRelock)
  /\ WF_screenVars(WorkerCheck \/ WorkerWait \/ WorkerUpdate)
  /\ SF_screenVars(ScreenLock)
  /\ WF_screenVars(ScreenUnlock \/ SurfaceUnlock \/ ScreenUpdate \/ StopSignal
                     \/ Join \/ ScreenSet)

ScreenFairSpec == ScreenSpec /\ ScreenFairness

-----------------------------------------------------------------------------
(* Properties                                                               *)

ScreenTypeOK ==
  /\ main \in MainStates /\ worker \in WorkerStates
  /\ wantThread \in BOOLEAN /\ isThread \in BOOLEAN
  /\ holder \in {"nobody", "main", "worker"}
  /\ depth \in 0..(DepthBound + 1)
  /\ drawn \in 0..MaxPictures /\ shown \in 0..drawn /\ refused \in BOOLEAN

\* No picture is flipped while its pixels are written, by either thread:
\* whatever the order of signals, wake-ups and restarts, the thread flips only
\* while the emulator is outside the mutex, and one that flips from the
\* emulator's thread is alone.  (This is about screen.buf.  The emulator may
\* still hold SDL's lock of the surface when the thread flips it, as
\* screen_unlock gives the mutex back first; and SDL_SetColors and
\* SDL_WM_ToggleFullScreen use the surface without either lock.)
NoTornPicture ==
  /\ ~(main = "drawing" /\ worker = "updating")
  /\ main = "drawn" /\ ~isThread => worker = "none"

\* The mutex and the condition are destroyed only once nobody uses them.
NobodyLeftInside ==
  [][isThread /\ ~isThread' => holder = "nobody" /\ worker = "gone"]_screenVars

\* The thread has been told to stop, or there is none while the screen is set.
Stopped == main \in {"stopping", "joining", "setting", "leaving", "ending",
                     "quit"}

\* SDL_LockSurface failed: the emulator is back in its loop with the screen
\* still locked.
LeftLocked == main = "running" /\ depth > 0

\* A picture the emulator hands over is flipped, or a newer one is, unless the
\* thread is stopped to set the screen up again, the screen is left locked or
\* the flip fails on the locked surface: no signal is lost once the thread has
\* begun to wait.  (One sent before its first wait is: that picture appears
\* with the next one.)
PictureReachesScreen ==
  \A p \in 1..MaxPictures :
    (main = "drawn" /\ drawn = p
       /\ worker \in {"none", "waiting", "woken", "updating"})
      ~> (shown >= p \/ Stopped \/ LeftLocked \/ refused)

\* "stopping thread..." is followed by "thread stopped": a thread that is
\* asked to stop does.
StopReturns == main \in {"joining", "ending"} ~> ~isThread
=============================================================================
