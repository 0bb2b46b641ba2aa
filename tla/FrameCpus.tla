----------------------------- MODULE FrameCpus -----------------------------
(***************************************************************************)
(* How one_frame shares a frame between the 68K and the Z80 (mdfr.cpp).    *)
(* Every line is run in parts; in each part the 68K runs first, to         *)
(* odo.m68k_max, then the Z80, to odo.z80_max, and one_frame raises the    *)
(* interrupts of VdpIrq in between.  While the 68K runs, the game takes    *)
(* the Z80's bus (0xA11100) or holds the Z80 in reset (0xA11200): z80_sync *)
(* then brings the Z80's odometer up to date, running it or not.           *)
(*                                                                         *)
(* The cores are outside src/'s own code: an instruction takes 1 to        *)
(* Longest cycles, so a core stops at the limit or less than one           *)
(* instruction beyond it.  The debugger is not running.                    *)
(***************************************************************************)
EXTENDS VdpIrq, Integers

CONSTANTS
  M68kCycles, Z80Cycles,  \* cycles from the start of a line to the end of each
                          \* part: M68K_CYCLES_HBLANK, ..VDELAY, ..PER_LINE
  VblankLine,             \* vblank(), the first line of vblank
  Lines,                  \* md::lines
  Longest                 \* cycles of the longest instruction of either CPU

Parts == {"hblank", "vdelay", "display"}

ASSUME FrameCpusAssumption ==
  /\ M68kCycles \in [Parts -> Nat] /\ Z80Cycles \in [Parts -> Nat]
  /\ \A cycles \in {M68kCycles, Z80Cycles} :
       0 < cycles.hblank /\ cycles.hblank <= cycles.vdelay /\ cycles.vdelay <= cycles.display
  /\ VblankLine \in Nat /\ Lines \in Nat /\ VblankLine + 2 <= Lines
  /\ Longest \in Nat \ {0}

VARIABLES
  turn,         \* who runs: "68k", "z80", or one_frame itself before ("begin")
                \* or after ("end") the part
  line, part,   \* ras, and the part of it that is run
  m68k, z80,    \* odo.m68k and odo.z80
  busreq,       \* z80_st_busreq: the 68K has the Z80's bus
  reset,        \* z80_st_reset: the 68K holds the Z80 in reset
  z80Irq,       \* z80_st_irq
  owed,         \* history: what the Z80 was ("free", "held") in the time that
                \* odo.z80 lags behind
  executed,     \* history: such time the Z80 was run for, in this frame
  skipped,      \* history: such time it was not run for
  lateRelease   \* history: a reset was released with "held" time owed

place == <<turn, line, part>>
account == <<owed, executed, skipped, lateRelease>>
z80Vars == <<z80, busreq, reset, z80Irq, account>>
cpuVars == <<irqVars, place, m68k, z80Vars>>

-----------------------------------------------------------------------------
(* odo.m68k_max and odo.z80_max follow from the place in the frame         *)

M68kMax == line * M68kCycles["display"] + M68kCycles[part]
Z80Max == line * Z80Cycles["display"] + Z80Cycles[part]

Held == busreq \/ reset
Kind == IF Held THEN "held" ELSE "free"

\* Where z80_sync would bring the Z80 for a 68K at cycle m, and the limit of the
\* part at max.  Mutant: the limit is forgotten.
SyncTargetUnlimited(m, max) == m \div 2
SyncTarget(m, max) == IF m \div 2 > max THEN max ELSE m \div 2

\* Time of kind k is owed once the target is beyond the odometer.
OwedAt(target, k) == IF target > z80 THEN owed \cup {k} ELSE owed

-----------------------------------------------------------------------------
(* The Z80's odometer                                                      *)

\* The core runs for the cycles up to target, the last instruction beyond.
Execute(target, time) ==
  /\ \E over \in 0..Longest - 1 : z80' = target + over
  /\ executed' = executed \cup time
  /\ owed' = {} /\ UNCHANGED skipped

\* Only the odometer is advanced.
Skip(target, time) ==
  /\ z80' = target
  /\ skipped' = skipped \cup time
  /\ owed' = {} /\ UNCHANGED executed

UpToDate == UNCHANGED <<z80, owed, executed, skipped>>

\* z80_sync
Sync(fake) ==
  LET target == SyncTarget(m68k, Z80Max)
  IN  \/ target <= z80 /\ UpToDate
      \/ target > z80 /\ fake /\ Skip(target, owed)
      \/ target > z80 /\ ~fake /\ Execute(target, owed)

-----------------------------------------------------------------------------
(* The 68K's accesses to 0xA11100 and 0xA11200, while it runs              *)

Running68k == turn = "68k" /\ m68k < M68kMax

Access == Running68k /\ UNCHANGED <<irqVars, place, m68k, z80Irq>>

\* m68k_busreq_request.  Mutant: only the odometer is brought up to date.
BusRequestSkips ==
  /\ Access /\ ~busreq
  /\ busreq' = TRUE
  /\ IF reset THEN UpToDate ELSE Sync(TRUE)
  /\ UNCHANGED <<reset, lateRelease>>

BusRequest ==
  /\ Access /\ ~busreq
  /\ busreq' = TRUE
  /\ IF reset THEN UpToDate ELSE Sync(FALSE)
  /\ UNCHANGED <<reset, lateRelease>>

\* m68k_busreq_cancel.  Mutant: the odometer is left where it is.
BusCancelWithoutSync ==
  /\ Access /\ busreq
  /\ busreq' = FALSE
  /\ UpToDate
  /\ UNCHANGED <<reset, lateRelease>>

BusCancel ==
  /\ Access /\ busreq
  /\ busreq' = FALSE
  /\ Sync(TRUE)
  /\ UNCHANGED <<reset, lateRelease>>

ResetOn ==
  /\ Access /\ ~reset
  /\ reset' = TRUE
  /\ IF busreq THEN UpToDate ELSE Sync(FALSE)
  /\ UNCHANGED <<busreq, lateRelease>>

\* Releasing the reset, unlike the bus, does not advance the odometer.
ResetOff ==
  /\ Access /\ reset
  /\ reset' = FALSE
  /\ lateRelease' = (lateRelease \/ (~busreq /\ "held" \in owed))
  /\ UpToDate
  /\ UNCHANGED busreq

\* An instruction of the 68K.
M68kStep ==
  /\ Running68k
  /\ \E n \in 1..Longest : m68k' = m68k + n
  /\ owed' =
       IF SyncTarget(m68k', Z80Max) > SyncTarget(m68k, Z80Max)
       THEN OwedAt(SyncTarget(m68k', Z80Max), Kind) ELSE owed
  /\ UNCHANGED <<irqVars, place, z80, busreq, reset, z80Irq, executed, skipped,
                 lateRelease>>

\* VDP registers and the acknowledge of an interrupt.
GameIrq ==
  /\ Running68k
  /\ GameRegisters \/ Acknowledge
  /\ UNCHANGED <<place, m68k, z80Vars>>

\* m68k_run returns.
M68kDone ==
  /\ turn = "68k" /\ m68k >= M68kMax
  /\ turn' = "z80"
  /\ UNCHANGED <<irqVars, line, part, m68k, z80Vars>>

\* z80_run: the time owed, and the rest of the part.
Z80Run ==
  /\ turn = "z80"
  /\ turn' = "end"
  /\ LET time == IF Z80Max > SyncTarget(m68k, Z80Max) THEN owed \cup {Kind} ELSE owed
     IN  \/ Z80Max <= z80 /\ UpToDate
         \/ Z80Max > z80 /\ Held /\ Skip(Z80Max, time)
         \/ Z80Max > z80 /\ ~Held /\ Execute(Z80Max, time)
  /\ UNCHANGED <<irqVars, line, part, m68k, busreq, reset, z80Irq, lateRelease>>

-----------------------------------------------------------------------------
(* one_frame around the parts                                              *)

\* The next part begins: what it adds to odo.z80_max may be owed at once.
Begin(newLine, newPart) ==
  /\ line' = newLine /\ part' = newPart
  /\ owed' = OwedAt(SyncTarget(m68k, Z80Max'), Kind)
  /\ UNCHANGED <<m68k, z80, busreq, reset, executed, skipped, lateRelease>>

OdometersCleared ==
  /\ m68k' = 0 /\ z80' = 0
  /\ owed' = {} /\ executed' = {} /\ skipped' = {} /\ lateRelease' = FALSE

CpuStartFrame ==
  /\ StartFrame
  /\ turn' = "begin" /\ line' = 0 /\ part' = "hblank"
  /\ OdometersCleared
  /\ UNCHANGED <<busreq, reset, z80Irq>>

\* "Trigger hint", when the line counter ran out.
BeginLine ==
  /\ turn = "begin" /\ turn' = "68k"
  /\ \/ line <= VblankLine /\ HintTrigger
     \/ UNCHANGED irqVars
  /\ UNCHANGED <<line, part, m68k, z80Vars>>

EndHblank ==
  /\ turn = "end" /\ part = "hblank" /\ turn' = "68k"
  /\ \/ line = VblankLine /\ RaiseVintFlag /\ Begin(line, "vdelay")
     \/ line # VblankLine /\ UNCHANGED irqVars /\ Begin(line, "display")
  /\ UNCHANGED z80Irq

\* "Blank everything and trigger vint": the Z80 gets its interrupt too, held by
\* the bus or not, but not in reset.
EndVdelay ==
  /\ turn = "end" /\ part = "vdelay" /\ turn' = "68k"
  /\ VintTrigger
  /\ z80Irq' = (z80Irq \/ ~reset)
  /\ Begin(line, "display")

\* "Clear Z80 interrupt", one line later.  Mutant: only if the Z80 runs.
Z80IrqLeftHeld == z80Irq /\ (line # VblankLine + 1 \/ Held)
Z80IrqLeft == z80Irq /\ line # VblankLine + 1

EndLine ==
  /\ turn = "end" /\ part = "display" /\ line + 1 < Lines
  /\ turn' = "begin"
  /\ z80Irq' = Z80IrqLeft
  /\ Begin(line + 1, "hblank")
  /\ UNCHANGED irqVars

EndFrame ==
  /\ turn = "end" /\ part = "display" /\ line + 1 = Lines
  /\ FinishFrame
  /\ z80Irq' = Z80IrqLeft
  /\ UNCHANGED <<place, m68k, z80, busreq, reset, account>>

-----------------------------------------------------------------------------
(* Between two frames                                                      *)

\* md::reset clears the odometers and the Z80's interrupt.
PlaceCleared ==
  /\ turn' = "end" /\ line' = 0 /\ part' = "hblank"
  /\ z80Irq' = FALSE
  /\ OdometersCleared

CpuReset == IrqReset /\ PlaceCleared /\ busreq' = TRUE /\ reset' = TRUE

\* import_gst resets first, then takes both bits from the saved state.
LoadState ==
  IrqLoad /\ PlaceCleared /\ busreq' \in BOOLEAN /\ reset' \in BOOLEAN

-----------------------------------------------------------------------------
CpuInit ==
  /\ IrqInit
  /\ turn = "end" /\ line = 0 /\ part = "hblank"
  /\ m68k = 0 /\ z80 = 0
  /\ busreq = TRUE /\ reset = TRUE /\ z80Irq = FALSE
  /\ owed = {} /\ executed = {} /\ skipped = {} /\ lateRelease = FALSE

InFrame == phase # "idle"

Bus == BusRequest \/ BusCancel \/ ResetOn \/ ResetOff

RunPart == M68kStep \/ M68kDone \/ Z80Run

OneFrame ==
  \/ CpuStartFrame
  \/ InFrame /\ (BeginLine \/ RunPart \/ EndHblank \/ EndVdelay \/ EndLine \/ EndFrame)

CpuNext ==
  \/ OneFrame
  \/ InFrame /\ (Bus \/ GameIrq)
  \/ CpuReset \/ LoadState

CpuSpec == CpuInit /\ [][CpuNext]_cpuVars

\* The main loop keeps drawing frames, and the cores run instructions; nothing
\* makes the 68K acknowledge an interrupt.
CpuFairSpec == CpuSpec /\ WF_cpuVars(OneFrame)

-----------------------------------------------------------------------------
CpuTypeOK ==
  /\ IrqTypeOK
  /\ turn \in {"begin", "68k", "z80", "end"}
  /\ line \in 0..Lines - 1 /\ part \in Parts
  /\ m68k \in Nat /\ z80 \in Nat
  /\ busreq \in BOOLEAN /\ reset \in BOOLEAN /\ z80Irq \in BOOLEAN
  /\ {owed, executed, skipped} \subseteq SUBSET {"free", "held"}
  /\ lateRelease \in BOOLEAN

\* Neither CPU runs more than the rest of one instruction beyond its share of
\* the frame, whatever the other makes it catch up with: z80_sync counts two
\* cycles of the 68K for one of the Z80, more than the lines do.
NeitherRunsAhead ==
  InFrame => m68k < M68kMax + Longest /\ z80 < Z80Max + Longest

\* A Z80 in reset or without its bus does not run: what it is made to catch up
\* with are cycles it was free in.  The one exception is the time before a
\* release of the reset, which z80_run makes up for.
ExecutedWasFree == "held" \in executed => lateRelease

\* No cycle in which the Z80 was free is dropped.
SkippedWasHeld == "free" \notin skipped

\* The Z80's interrupt lasts from the vertical interrupt to the end of the next
\* line, whether the Z80 could take it or not; it never reaches into the next
\* frame.
Z80IrqInVblank ==
  z80Irq => \/ line = VblankLine /\ part = "display"
            \/ line = VblankLine + 1 /\ InFrame
=============================================================================
