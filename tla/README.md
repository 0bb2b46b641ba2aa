# DGen/SDL with Sega VR: a TLA+ model

DGen/SDL is an emulator of the Mega Drive; this repository adds the Sega VR,
an unreleased headset that shows one eye per frame and reports where the head
points. The modules here model the program's own state machines: the headset and the frames
and pictures it takes part in, the frame with its two CPUs and the interrupts of
the video chip, the ports of that chip and what the renderer caches of its
memory, the main loop that paces it all, keys and joysticks, the sound buffer
and the screen thread with their second threads, and the cartridge with its save
RAM. CPU cores, sound chips, scalers, fonts and bundled libraries are
third-party code and stay outside.

Paths below are relative to `src/source/`. `PROJECT.json` lists, for every
definition, the lines it models, and the hazards with the properties that
cover them.

## The system

One thread runs everything but two callbacks. `main` (main.cpp 500-750) turns:

1. `md::one_frame` (mdfr.cpp 1035-1204) walks over the lines of a frame. It runs
   the 68K and the Z80, draws each line (`md_vdp::draw_scanline`), raises
   horizontal and vertical interrupts, and mixes a frame of sound.
2. `md::segavr_steal_frame` keeps, combines or shoots the picture.
3. `pd_graphics_update` and `pd_sound_write` hand picture and sound to SDL.
4. `pd_handle_events` handles keys, the prompt, resets, resizes, codes.

| Component | State | Operations | Talks to |
|---|---|---|---|
| Headset (segavr/md_vr.cpp) | request index and bit, eye bits and angles in one word, vblank counter, flags | port reads and writes, register vblank, begin scan, movement, headsmack | game through mem.cpp; interrupts call it; main loop moves it |
| Interrupts (mdfr.cpp, vdp.cpp) | pending and enable bits, vint flag, level on the line | trigger, acknowledge, register writes, reset | one_frame, 68K, game |
| CPU scheduling (mdfr.cpp, mem.cpp) | odometers and limits of both CPUs, bus request, reset, interrupt of the Z80 | run a part of a line, request, release, load a state | one_frame, game |
| Stereo pictures (md_vr.cpp, main.cpp, sdl.cpp) | eye map, kept picture, series of shots | steal a frame, quadshot, freeze, resize | headset flags, mdscr |
| Video chip ports (vdp.cpp, mem.cpp) | pending half, mode, address, CD5, registers, VRAM, CRAM, dirty flags | control and data port, fill, transfer | game; renderer through the flags |
| Renderer caches (ras.cpp) | palette, sprite order | draw a line | ports, reset, load |
| Sound output (sdl.cpp, mdfr.cpp) | circular buffer, frame buffer, device | write, callback, open, close | audio thread under SDL's lock |
| Screen thread (sdl.cpp) | lock, condition, want_thread, is_thread | draw, update, start, stop | second thread |
| Main loop (main.cpp) | frame clock, time left over, frames to do, frozen, stop | measure, skip, draw, show, events | headset's flags; everything hangs on it |
| Keys and joysticks (sdl.cpp) | buttons down, pressed controls, codes that are down, stopped or prompt, calibration | key and direction events | game's pads, main loop's freeze |
| Cartridge (md.cpp, mem.cpp) | ROM, its copy, bank offsets, list of codes | plug in, unplug, reset, switch, patch | game, prompt |
| Save RAM (mem.cpp, main.cpp, sdl.cpp) | memory, write protection, files | write, protect, save, load, kill | game, cartridge |
| Save states (save.cpp) | file | import, export | only their effect on the video chip and the Z80's bus |
| FM, DAC, VGM log (myfm.cpp) | timers, DAC samples | writes, ticks | not modelled yet |
| Pads (mem.cpp, mdfr.cpp) | phase and countdown of the six-button sequence | reads, writes | not modelled yet |

What is hard in it: the game runs in the middle of everything, so port
accesses fall between any two steps of a frame; handlers that share one counter
or one word (vblank counter, encoded word, pending bits) are called from three
sides; two CPUs with clocks that are only roughly two to one; two real threads;
devices that refuse to open again; files that fail and a program that is
killed; caches kept across lines; and keys and commands in any order between two
frames, some of them while the game is stopped.

## Modules

| Module | Models | Composes |
|---|---|---|
| `SegaVR` | every handler of md_vr.cpp that touches the headset's state | |
| `VdpIrq` | trigger, acknowledge, enables, the order of a frame | |
| `FrameCpus` | who runs when in a line, the Z80's bus, reset and interrupt | implements `VdpIrq` |
| `SegaVRFrame` | who may call what when, inside a frame and between frames | `SegaVR`, `VdpIrq`; implements both |
| `SegaVRSteal` | `segavr_steal_frame`, stereo shots, the eye map | |
| `MainLoop` | the turns of `main` and its clock | `SegaVRSteal` |
| `Controls` | key and joystick events, stops, prompt, calibration | |
| `VdpPort` | control and data port, memory, dirty flags | |
| `VdpLines` | `draw_scanline`'s caches, reset, loading a state | `VdpPort` |
| `AudioFifo` | abstract: a queue of the latest samples | |
| `SoundBuffer` | the circular buffer, callback, device, frame buffer | implements `AudioFifo` |
| `ScreenThread` | both threads of the screen | |
| `Cartridge` | plug, unplug, reset, bank switching, codes | |
| `Battery` | save RAM, its files, killing and restarting the program | implements `Cartridge` |
| `MC*` | instances for TLC (only where a constant needs a definition) | |
| `*Proofs` | theorems | |

### How state and actions correspond to the code

**SegaVR.** Variables are the fields of `md` with the same names without the
prefix `mHmd`. Each handler is one action: `WriteData` and `WriteMask` are the
two ports of `segavr_catch_io_write`, `ReadData` is `segavr_catch_io_read`,
`RegisterVblank` is `segavr_register_vblank` whole (headsmack, timeout, flip, in
that order). `%` of C on a negative index is `Successor`. Angles are abstract:
the properties need only know which ones the word holds. The histories `polled`
and `restarted` say what happened since the last vblank, `silent` for how many
vblanks the game has neither read nibble 0 nor reset the headset.

**VdpIrq.** `phase` is the place of `one_frame`; the 68K and the game act at any
phase inside the frame, a superset of what the cycle counts allow. `Acknowledge`
is `m68k_vdp_irq_handler`, which is not told the level. `IrqReset` is the part of
`md::reset` that clears the pending bits and leaves the line; `IrqLoad` does the
same and takes the enable bits from a saved state, as `import_gst` does.

**SegaVRFrame.** `BeginScan` is the first line of a frame, `FrameTrigger` is a
trigger with the vblank it registers. It registers one for each trigger whose
vertical interrupt is pending and enabled, so also for horizontal ones.
`HeadControl`, `HeadMove` and `MachineReset` (a reset, or a saved state loaded)
happen between frames. `told`,
`latched` and `scanned` follow the eye the game was told.

**FrameCpus.** `one_frame` runs every line in parts, `line` and `part` are the
one it is in, `turn` is who runs. `m68k` and `z80` are the odometers; their
limits follow from the place (`M68kMax`, `Z80Max`). A core is external: an
instruction takes 1 to `Longest` cycles, so a run ends at its limit or less than
an instruction beyond. `Sync` is `z80_sync`, `Execute` and `Skip` its two
outcomes; the four accesses of the game are those of 0xA11100 and 0xA11200. The
histories are an account of the Z80's time: `owed` is what it was, free or held,
while its odometer lagged, `executed` and `skipped` are what became of it, and
`lateRelease` is the reset's release, which unlike the bus's does not bring the
odometer up to date (mem.cpp 354). Loading a state resets first, odometers
included, and then takes bus and reset from the file. The debugger and the copying of registers
between core and `md` are left out.

**SegaVRSteal, MainLoop.** The headset's flags are any values: what they may be
is `SegaVRFrame`'s question. Pixels are reduced to how often the picture has
been combined. `loop` is the place in the turn of `main`: it measures, runs
every skipped frame with the events after it, draws one, hands the picture out
and handles events. `lag` is the clock not yet counted, `usec` the part of a
frame left over, `todo` the frames still due. `credit` and `clock` are
histories: the time that passed and was not emulated, and whether the clock was
read in this turn. An active headset leaves the clock alone (`MeasureUnpaced`).
Quitting ends the loop: no deadlock check.

**Controls.** `held` and `hat` are what the player really holds, a key with what
it typed and its modifiers; `combos` is what the program takes for held, `ui` all
that handlers change. `kpress` is the table by which a release finds the name its
key was pressed under: `Slot` is the low byte of a key, `Shared` says that another
has the same, and `missed` is the history of the strokes whose release was taken
for that of another key, until that name is released. One key event is
one action because `pd_handle_events` runs it through controls and bindings
before it looks at the next. `StopEvents` releases the controls known to be
pressed, which a binding does not tell it. `loose` and `restopped` are histories
that say what the properties do not speak of: a button that a binding pressed is
loose even if its control was marked, since the mark may be one that a
calibration left behind. The loops over bindings and directions are functions on
the number of rounds (`PerformBindings`, `BindingsOf`, `CalibrateAll`), in the
order of the list of bindings and of `hat_value`.

**VdpPort, VdpLines.** Memory is in words; `Low` stands for the 16 KB the first
half of a command can tell apart, register 15 holds one word, CRAM is one
entry. A DMA is one step, as it is in the code (`command` does it at once).
`Walk` is the loop over sprite links. Neither the address of the table nor a link
is masked (ras.cpp 1359-1363), so the table may lie behind video RAM or run out of
it: `LinkAt` finds the one entry of CRAM there, which stands for all that follows.
Writes to CRAM do not mark the order, so for such a table `OrderIsCurrent` says
only that the order was found with something that was there.

**SoundBuffer.** The unit is the sample. Callback and `pd_sound_write` are one
step each because both hold SDL's audio lock; the device is closed before the
buffer is freed. Opening may be refused by SDL (`Refused`), given up later
(`GivenUp`) or succeed. `faulted` marks a step through a null pointer or a
remainder by zero, after which the program is gone: hence no deadlock check.

**ScreenThread.** Each place where the two threads can interleave is a step, so
`screen_unlock` is two: `ScreenUnlock` gives the mutex back, `SurfaceUnlock` the
surface, and a flip in between may fail (`refused`).
`"committed"` is a thread that has seen `want_thread` and is not yet waiting.
`SDL_LockSurface` may fail while `SurfaceFails`. The program may quit: no
deadlock check.

**Cartridge, Battery.** A page is `PageSize` bytes and the address space has
`Windows` of them, the first of which is not switched. A code replaces two bytes
at any address, odd ones included; the list of codes is the function from address
to the two bytes saved, with its first element, the only one the code treats
differently. The list is searched for the very address, so codes at neighbouring
addresses share a byte. `touched`, `muddled` (bytes that codes on the list had in
common) and `clean` are histories. In `Battery`, `saveram`,
`prot` (`save_prot`) and `files` are the code's; a file may be torn by a write
that fails, and reading it may fail. `Kill` ends the program anywhere, `Restart`
starts it anew. `asked` and `kept` are histories: whether the protection is the
game's own, and what each game left in its save RAM.

## Runs

| Run | Asks | Bounds and why they are enough |
|---|---|---|
| `segavr_poll` | any order of handlers, eyes swapped on reads: one eye, no headset active through a timeout of silence, handshake also of repeated bits, alternation; an abandoned headset times out | two angles; the four values of TH and TR; a driven and an undriven mask; timeout 3 and counter to 4, past the timeout |
| `cpus` | neither CPU runs ahead; the Z80 runs exactly the time it was free; its interrupt stays in vblank; levels, flag and pending bits agree; neither interrupt of the 68K is lost, vertical ones are delivered | one displayed line and three of vblank; 7 and 3 cycles a line, slightly more than two to one as 488 and 227 are, so that the clamp of `z80_sync` is reached; instructions of 1 or 2 cycles, so that both CPUs overrun |
| `frame` | the picture scanned is that of the eye told; flips in vblank keep pace | interval 1, timeout 2, counter 2: several triggers per frame are reached; reads that change the eye are `segavr_poll`'s |
| `main_loop` | frames emulated are those due; shots, kept and combined pictures; series, updates and quitting come to their end | a frame of 2 ticks, elapsed time to 8, past the wrap of 7: turns early, late by several frames, and wrapped; series of 3 shots; the eye swapped by poll parity |
| `controls` | no button stays pressed; frozen exactly while stopped; bindings see only what is held; what keys with one slot of `kpress` lose to each other is all they lose | a key that types and one that does not, which share a slot, with no, one and two modifiers; two directions; one button with a key and a direction; three bindings, one of which is fulfilled by key and direction together; three freezes |
| `vdp_lines` | palette and sprite order are current | two halves of two addresses, two tables, one of which runs out of video RAM, limits 1 and 3, transfers of two words, which wrap around memory |
| `sound_fifo` | the buffer implements the queue; channels keep | two sample values; three devices: two periods, a frame larger than the buffer, a rate not asked for; negative segments |
| `screen_thread` | nobody flips what is drawn; the lock outlives its users; pictures arrive, but for flips that fail on a locked surface | five pictures, surface may fail, two leftover locks |
| `cartridge` | banks, codes, and save RAM through ejections, failing files, kills and restarts | three pages of one byte, two of which a game can select for the one bank; codes at two addresses, which share the byte between; two cartridges that differ in every byte, one with save RAM; two contents of it |
| `screen_stop` | violation, see below | two pictures |
| `sound_refused` | violation | one device |
| `cart_revert` | violation | `Cartridge` alone, two pages of two bytes |

### What the violations show

- **`screen_stop`**: `screen_update_thread_stop` clears `want_thread` and signals
  without `screen.lock` (sdl/sdl.cpp 307-308). A thread between its test (250)
  and `SDL_CondWait` (251) misses both, and `SDL_WaitThread` waits for ever.
- **`sound_refused`**: closing the device frees `sndi.lr` and keeps `sndi.len`
  (4203-4213); if opening again is refused (4137, 4145) nothing clears it, and
  the next frame is mixed through a null pointer.
- **`cart_revert`**: reverting the code entered last sets `patch_elem = NULL`
  (md.cpp 1359) and drops every other code from the list.

### Seen while modelling, without a run of its own

- A word read of the status does not cancel a pending command
  (mem.cpp 505-509), a byte read does (233); the comment at vdp.cpp 269-273 says
  reading the control port does. `ReadStatusWord` is as in the code.
- "Writing to a VDP register will clear the code register" (vdp.cpp 430):
  `write_reg` clears `rw_mode` and leaves CD5 in `rw_dma` (`WriteRegister`).
- Register 12 changes the limit of sprites (ras.cpp 1356) and does not mark the
  order (1353). `OrderIsCurrent` therefore allows either limit.
- A series of shots asked for during another inherits its kickoff flag
  (sdl/sdl.cpp 5849) and may start right, against the comment at
  segavr/md_vr.cpp 195. `FreshSeriesStartsLeft` excludes that case by `reasked`.
- While the headset is active the clock is not read. The first turn after it went
  inactive therefore skips up to four seconds of frames that were drawn already
  (main.cpp 630-645), against "when it is necessary to maintain proper emulation
  speed" (dgenrc.5:329). `KeepsPace` excludes that turn by `clock`. Elapsed time
  is taken modulo four seconds and not capped.
- A headset activated, a freeze or a quit in a burst of skipped frames does not
  end the burst (segavr/md_vr.cpp 165, main.cpp 630-645): `SkipFrame`.
- `z80_sync` takes half the 68K's odometer while a line has 488 and 227 cycles,
  and is saved by its clamp to `odo.z80_max`, which `NeitherRunsAhead` needs.
- Releasing the reset of the Z80 (mem.cpp 354) leaves its odometer behind, so
  that it makes up for the time it was held in: `ExecutedWasFree` excludes it.
- A button pressed by a binding (`bind ... key_pad1_a`, an alias by dgenrc.5:115)
  is not released by its own key: KEYUP forgets the code before it looks for
  fulfilled bindings. Neither do stops release it, as its control is not marked
  as pressed. `loose` names both.
- A code with two modifiers never leaves `combos`: its binding fires on every
  later press. Every event performs all fulfilled bindings, whatever its key.
- Buttons held when a calibration begins are not seen to come up.
- A game stopped twice by one event leaves `pd_freeze_ref` at two and stays
  frozen for good: `restopped`.
- `save_prot` and `save_active` outlive the cartridge and are set only by the
  constructor and the game (md.cpp 705): a protection left on drops the next
  game's saves (`asked`), and a ROM may stay hidden behind save RAM.
- A save RAM file that could not be read is overwritten when the cartridge is
  taken out: `RamLoad` followed by `RamSave`.
- Saved states hold no bank registers, so "start a game where you left off"
  (dgenrc.5:322) needs banks that were never switched.
- With sound off, `one_frame` is called without a buffer, the frame pointer of
  the FM chip is not reset, and with the Nuked core the assertion at mdfr.cpp
  1288 fails.
- `screen_init` promises -1 "but remains in its previous state" (sdl/sdl.cpp
  3534-3535) and has stopped the thread by then (3546, 3684).
- When `SDL_LockSurface` fails, `screen_lock` returns with the mutex locked
  (sdl/sdl.cpp 184-199): `LeftLocked`. The thread never flips again, and
  `PictureReachesScreen` excludes it.
- `screen_unlock` gives back the mutex (sdl/sdl.cpp 209) before the surface (218):
  the thread may flip a locked surface, and that picture is lost if SDL refuses
  (`refused`). `SDL_SetColors` (4028) and `SDL_WM_ToggleFullScreen` (3837) use the
  surface without any lock. `NoTornPicture` is therefore about the pixels of
  `screen.buf` only.
- With `segavr_flipinvblank` every flip clears the counter that also measures the
  timeout (segavr/md_vr.cpp 142-145). An interval below the timeout then keeps an
  abandoned headset active for good: `TimeoutHonoured` speaks of the other
  setting, which is also that of `segavr_poll`.
- Codes patch two bytes at any address and are reverted one by one. Enter 100:x
  and 101:y and revert them in that order: the second brings back the byte of the
  first at 101, the list is empty and the ROM is not the cartridge's (md.cpp 1353,
  1379-1385). `CodesLeaveNoTrace` excludes shared bytes by `muddled`.
- KEYUP takes the name of its key from `kpress[ksym & 0xff]` (sdl/sdl.cpp
  6796-6802), which KEYDOWN writes (6686). F7 (0x120) shares it with space (0x20),
  F8 with '!', left Ctrl with '2', left Shift with '0'. Hold F7, press space, let
  go of F7: that is taken for space, and the button of F7 stays pressed and its
  code in `combos` until F7 is pressed and released again. `NothingStuck` and
  `CombosAreHeld` name these strokes by `missed` and `Shared`.
- The sprite table is read at `reg[5] << 9` with links of a full byte, unmasked
  (ras.cpp 1359-1363): it may run into CRAM and what follows, whose writes do not
  mark the order. See `OrderIsCurrent`.
- A game may select a page behind the end of a short ROM (mem.cpp 418-429 does not
  check), which copies what lies behind it. `Cartridge` has all pages, and selects
  one of them.
- The prompt passes a negative `int_soundsegs` on (sdl/sdl.cpp 4635) which main
  clamps (main.cpp 498): the buffer is smaller than a period, or empty, and the
  callback divides by its size. `MCSoundBuffer` includes such a value.
- A reset restores the copy made at the first bank switch (md.cpp 273-282), so a
  code entered since is on the list and not in the ROM; `unplug` restores it over
  the constant `no_rom` (md.cpp 1153-1170).
- Writing page 0 to a bank that was never switched does nothing, as its offset
  is 0 already (mem.cpp 419). `BanksShowTheirPages` excludes page 0.
- `pd_set_swap_interval` remembers the interval when SDL reports failure
  (sdl/sdl.cpp 166).

## Fairness

- `FairSpec` (SegaVR): vblanks keep being registered. The video chip triggers
  them each frame while the game has the interrupt enabled, and the headset's
  timeout counts nothing else. The game itself is under no obligation.
- `CpuFairSpec`: the main loop asks for frame after frame and `one_frame` goes on
  to its next part, since the cores return. The 68K need not acknowledge, which
  is why a level may stay up.
- `LoopFairSpec`: the main loop turns, and events are not handled for ever: each
  call of `pd_handle_events` empties a queue. No event is forced.
- `ScreenFairness`: threads run (weak, `SurfaceUnlock` included), and one that waits for the mutex gets it
  when it is free again and again (strong): POSIX promises less, but a mutex
  that starves a thread for ever while it is repeatedly free is not what the
  code is written for. No wake-up without a signal is assumed.

## Proofs

All for every value of the constants under the assumptions that the modules name
beside their constants (`SegaVRAssumption`, `StealAssumption`,
`MainLoopAssumption`, `FrameCpusAssumption`, `VdpAssumption` and
`LinesAssumption`, `SoundAssumption`, `ScreenAssumption`, `CartridgeAssumption`
and `BatteryAssumption`, `ControlsAssumption`; `VdpIrq` has no constants). They
say what the constants are: sizes that are numbers, sets of samples, the link a
sprite has where CRAM is found, pages that fit the cartridge, modifiers among
which Shift may be dropped, lists of bindings. TLC evaluates each of them.

| Module | Proved | Inductive invariant |
|---|---|---|
| `SegaVRProofs` | `TypeOK`, `OneEye`, `TimeoutHonoured`, `FlipKeepsPace`, `EncodedTracksAngles`, and the action properties `EyeSteadyBetweenVblanks`, `EyesAlternate`, `HandshakeAlternates`; that `SegaVRFrame` implements `SegaVR` and `VdpIrq`, `FrameTypeOK`, `ScannedEyeIsToldEye` | `HeadInv`: the eye bits are one of three sets and not empty while active (`EyeShape`), the counter never falls behind the silence it measures (`SilenceCounted`), and it is below the interval once nibble 0 was read (`PolledIsRecent`); `AlternateInv`: the vblank before recorded the other eye; `ToldInv`: what the game was told is what the word holds, and what it was told at the last vblank is what the next scan latches |
| `VdpIrqProofs` | `AssertedIsPending`, `FlagMeansPending`, `VintConsumedAsLevel6`, `HintSurvivesVint` | a vertical interrupt pending and enabled has level 6 on the line, or was enabled late |
| `FrameCpusProofs` | that `FrameCpus` implements `VdpIrq`, `CpuTypeOK`, `NeitherRunsAhead`, `ExecutedWasFree`, `SkippedWasHeld`, `Z80IrqInVblank` | `AccountInv`: time is owed only while `z80_sync` would act on it (`OwedIsLag`), and a held Z80 is owed held time only (`OwedIsKind`); `VblankInv`: the interrupt is up only from the vertical interrupt to the end of the next line |
| `VdpLinesProofs` | `PaletteIsCurrent`, `OrderIsCurrent`, `PortTypeOK` | the first two and that the marks are Boolean: every step leaves a mark on what it changes (`MarksItsChanges`), and `Walk` is a function of base, memory and what lies behind it; `PortTypeOK` is inductive beside them: a half of a command and a transfer of any length leave an address inside memory (`AddressHalves`, `StoredType`) |
| `MainLoopProofs` | `LoopTypeOK`, `KeepsPace`, `FreshSeriesStartsLeft`, and the action property `CombinedTwiceOnlyFrozen` | `LoopInv`: a turn begins with no frame due and a clock that was read (`TurnIsDone`), a kickoff before the first shot was inherited (`KickoffIsOwn`), and a loop that is not frozen comes to a fresh picture (`DrawnAnew`) |
| `SdlProofs` | of `SoundBuffer`: `SoundTypeOK`, `ChannelsKept`, and that it implements `AudioFifo` (`PlaysLatestInOrder`) | both, with sizes and periods even; a closed device leaves nothing waiting (`OpenedWith`) |
| | of `ScreenThread`: `NoTornPicture` (of the pixels, see above), `NobodyLeftInside`, `ScreenTypeOK` | who holds the lock follows from where each thread is; without a thread nobody does; the recursive lock is no deeper than failed surfaces leave it, plus the drawing in progress |
| `CartridgeProofs` | `CartTypeOK`, `BanksShowTheirPages`, `CodesLeaveNoTrace`, that `Battery` implements `Cartridge`, `BatteryKeeps` | outside patched bytes, the copy (or the ROM while there is none) is the cartridge; a selected page is the one copied; bytes that codes had in common are set apart; `FilesHoldTheRest`: the file of a cartridge that is not plugged in holds what its game left |
| `ControlsProofs` | `NothingStuck`, `FrozenWhileStopped`, `CombosAreHeld` | `ControlsInv`: the state of the handlers is typed; a button that is down is loose, or its control is marked and a code of it is held, or was and had its release taken for another key's (`PressedIsHeld`, `HeldCodes`); what a held key typed is in its slot, and only keys that share one lose it (`KpressTells`); every one is loose while releases are not seen (`LooseWhileIdle`); freezes are counted also through a calibration at the prompt (`FreezesCounted`) |

`OneEye` is not inductive alone: that a swap leaves one eye bit needs the bits
to be one of three sets, and that an active headset has one needs that the
reset, the only way to become active, names the left eye. `EyesAlternate` needs
an invariant because the eye that a vblank records was fixed by a read in the
period before. `BatteryKeeps` speaks of the cartridge that is plugged in, and
what it finds was left by an ejection long before: hence the files.
`NothingStuck` speaks of the moment when all is let go; that a key's release
finds its button needs the account of every button while keys are down, and its
proof showed that a button a binding presses cannot be in that account.

That the circular buffer is a queue is arithmetic of remainders: `PlaceOfPosition`
says, for a position of the new queue, where in the buffer it is and whether it
is old or new there, also when the block is longer than the buffer; `WriteIsPut`
and `FillIsTake` compare the buffer with the queue position by position.

The loops of `Controls` run over a list of any length. That such a recursive
function exists (`RunExists`) and that each round stays in a set its step stays
in (`RunStays`) follow from the least number at which either would fail
(`LeastOf`, from the well-founded order of the numbers), so they need no
induction theorem. They say what every round preserves, not what a loop computes.

The refinements carry theorems along: what holds of `SegaVR` and `VdpIrq` holds
of the headset inside a frame (`FrameKeepsItsParts`), what holds of `VdpIrq` holds
whatever the cycle counts (`CpuKeepsIrq`), and what holds of `Cartridge` holds
through kills and restarts (`BatteryKeepsCartridge`).

`TypeOK`, `CpuTypeOK`, `ScreenTypeOK`, `SoundTypeOK`, `CartTypeOK` and
`EncodedTracksAngles` are proved for every value of the constants and have no run.

Every safety property, action property and refinement that a passing run checks is
a theorem. Only model-checked is liveness (`AbandonedTimesOut`, `VintDelivered`,
`SeriesEnds`, `ScreenUpdated`, `QuitEnds`, `PictureReachesScreen`), as the provers
here do not reason about fairness and `ENABLED`, and the three violations.

## Not modelled, and why

- CPU cores, FM and PSG chips, scalers, SDL, linenoise, OpenVR: third-party or
  generated. They are most of the repository's lines, so the share of all lines
  that is modelled stays small however much of the program's own is.
- Drawing of planes, sprites and text: functions of memory, without a state of
  their own; filters likewise.
- ROM files, Game Genie letters, rc files, the format and the slots of saved
  states: parsing and input and output. What loading a state does to the video
  chip and to the Z80's bus is modelled; to the cartridge it is a reset.
- The memory map: a decode of addresses; the modules begin behind it.
- The mouse, which works like the joystick; analogue amounts and the pen of the
  Pico; commands that bind keys while the game runs.
- The debugger: off by default, it stops the machine at any instruction.
- In `MainLoop`: start-up and demos, the sound written with each frame, sleeping,
  the frame counter, and `dgen_frameskip` = 0, which leaves the clock alone as an
  active headset does.
- `save_active`, which only decides whether reads see the save RAM or the ROM.
- Stereo shots write files; the series is modelled, the files are not.

## Plan

Done, in this order: `SegaVR`, `VdpIrq`, `SegaVRFrame` and `SegaVRSteal` (the
part this fork is about), `SoundBuffer` and `ScreenThread` (two threads each),
`VdpPort` with `VdpLines`, `Cartridge`; then `FrameCpus` below `VdpIrq`,
`MainLoop` around `SegaVRSteal`, `Battery` around `Cartridge`, and `Controls`;
each with its proofs.

The suite of runs is kept small, one per question, so what is left extends a
module that is there instead of adding one beside it:

1. `Battery` takes saved states and slots, with what a state leaves of the one
   before.
2. `FrameCpus` takes the six-button sequence of the pads and its countdown per
   line (mem.cpp 90-500), the timers of the FM chip and the DAC.
3. `VdpLines` takes VSRAM, CRAM and video RAM in bytes, the limits of register
   12, sprite masking and overflow (ras.cpp).
