------------------------------ MODULE Controls ------------------------------
(***************************************************************************)
(* Input (sdl.cpp): pd_handle_events turns keys and joystick directions    *)
(* into controls and bindings, the ways a game is stopped and goes on, and *)
(* the calibration of a controller.                                        *)
(*                                                                         *)
(* A code is the name of a key with its modifiers, or a joystick direction; *)
(* a button is a direction of its own.  A key is named for the character it *)
(* types, if any, and its release is told that character by kpress, which   *)
(* keys with the same low byte share (F7 and space, left Ctrl and 2), so    *)
(* that a release may be taken for that of another key.  The keypad, which  *)
(* neither types nor looks, is left out.  The Game Genie dialogue is a      *)
(* prompt that Enter leaves too; the mouse works like the joystick.  The    *)
(* line edited at the prompt, and controls that neither stop the game nor   *)
(* press a button of a pad, are left out, and so are quitting and commands  *)
(* that bind or unbind a key.  The limit of 64 codes in combos is past what *)
(* can be held.                                                             *)
(***************************************************************************)
EXTENDS Naturals, SequencesExt

CONSTANTS
  Keys,          \* keys of the keyboard, by their ksym
  Typed,         \* what a key may type with some modifiers: Nothing, a character
  Slot,          \* the entry of kpress a key uses, ksym & 0xff
  Modifiers,     \* the modifiers a key may be pressed with, a set of sets
  Shift,         \* the modifier that counts only when nothing is typed
  Dirs,          \* joystick directions, in the order of hat_value
  Pads,          \* controls of a pad, in the order they are calibrated
  Bound,         \* their codes to begin with: a set of codes for each
  StopCode,      \* dgen_stop
  PromptCode,    \* dgen_prompt
  Bindings,      \* sequence of [items |-> a set of codes, to |-> an action]
  MaxFreezes     \* bound on pd_freeze_ref, for TLC only

VARIABLES
  held,     \* the keys that are down, with what they typed and the modifiers
  kpress,   \* kpress: the characters releases are named for
  missed,   \* history: strokes whose release was taken for another key's
  hat,      \* the directions the joystick points to
  combos,   \* combos: codes that are down, as far as the program knows
  ui        \* all that handlers of controls and bindings change, see UiInit

vars == <<held, kpress, missed, hat, combos, ui>>

NoCode == [none |-> TRUE]       \* RCB_NUM
Untold == [told |-> FALSE]
Nothing == [typed |-> FALSE]    \* a ksym_uni of 0
Characters == UNION {Typed[key][mods] : key \in Keys, mods \in Modifiers}
Names == Keys \cup (Characters \ {Nothing})
Slots == {Slot[key] : key \in Keys}
Shared(key) == \E other \in Keys \ {key} : Slot[other] = Slot[key]

Code(name, mods) == [key |-> name, mods |-> mods]
KeyCodes == {Code(name, mods) : name \in Names, mods \in Modifiers}
DirCodes == {[dir |-> d] : d \in ToSet(Dirs)}
Codes == KeyCodes \cup DirCodes
IsDir(code) == code \in DirCodes
PadSet == ToSet(Pads)
Commands == {"dgen_stop", "dgen_prompt", "calibrate"}    \* of a binding

ASSUME ControlsAssumption ==
  /\ \A mods \in Modifiers : mods \ {Shift} \in Modifiers
  /\ Dirs \in Seq(ToSet(Dirs)) /\ Pads \in Seq(PadSet)
  /\ Bound \in [PadSet -> SUBSET Codes]
  /\ Bindings \in Seq([items : (SUBSET Codes) \ {{}}, to : PadSet \cup Commands])
  /\ PadSet \cap Commands = {}

UiInit ==
  [events   |-> "STARTED",
   freezes  |-> 0,          \* pd_freeze_ref
   pressed  |-> {},         \* controls with ctl->pressed
   down     |-> {},         \* buttons the game sees pressed
   codes    |-> Bound,      \* codes of each pad control, one of each type
   calibrating |-> FALSE,
   first    |-> Untold,     \* code that waits for its confirmation
   answers  |-> <<>>,       \* codes of the steps done, NoCode if skipped
   loose    |-> {},         \* history: buttons whose release may be missed
   restopped |-> FALSE]     \* history: a stopped game was stopped

Init ==
  /\ held = {} /\ missed = {} /\ hat = {} /\ combos = {}
  /\ kpress = [slot \in Slots |-> Nothing]
  /\ ui = UiInit

-----------------------------------------------------------------------------
(* Stopping, going on, calibrating                                         *)

Freeze(s) == [s EXCEPT !.freezes = @ + 1]
Unfreeze(s) == [s EXCEPT !.freezes = IF @ > 0 THEN @ - 1 ELSE 0]

Release(s, pads) == [s EXCEPT !.down = @ \ pads, !.loose = @ \ pads]

\* stop_events: every control that is known to be pressed is released.
StopEvents(s, mode) ==
  [Release(Freeze(s), s.pressed) EXCEPT
     !.events = mode, !.pressed = {}, !.restopped = @ \/ s.events # "STARTED"]

RestartEvents(s) == [Unfreeze(s) EXCEPT !.events = "STARTED"]

\* One step for each control of the pad and one to apply.
Steps == Len(Pads) + 1

Recode(codes, code) == {c \in codes : IsDir(c) # IsDir(code)} \cup {code}

\* The answer to the last step decides whether the others are applied.
Answer(s, code) ==
  LET answers == Append(s.answers, code)
      Coded(i) == IF answers[i] = NoCode THEN s.codes[Pads[i]]
                  ELSE Recode(s.codes[Pads[i]], answers[i])
      pad(p) == CHOOSE i \in 1..Len(Pads) : Pads[i] = p
  IN  [s EXCEPT
         !.first = Untold, !.answers = answers,
         !.codes = IF Len(answers) = Steps /\ code # NoCode
                   THEN [p \in PadSet |-> Coded(pad(p))] ELSE @]

\* manage_calibration: it starts, ends after one press more than the steps
\* take, and is told each code twice.  Buttons held when it starts are loose:
\* it does not see them come up.
Calibrate(s, code) ==
  CASE ~s.calibrating -> [Freeze(s) EXCEPT !.calibrating = TRUE, !.loose = @ \cup s.down]
    [] s.calibrating /\ Len(s.answers) = Steps ->
         [Unfreeze(s) EXCEPT !.calibrating = FALSE, !.answers = <<>>]
    [] s.calibrating /\ Len(s.answers) < Steps /\ s.first = Untold -> [s EXCEPT !.first = code]
    [] OTHER -> Answer(s, IF code = s.first THEN code ELSE NoCode)

-----------------------------------------------------------------------------
(* Controls and bindings                                                   *)

PadsOf(s, code) == {p \in PadSet : code \in s.codes[p]}

\* The controls of the pads come before those that stop the game in control[],
\* and the loop goes on after a stop.
PressControls(s, codes) ==
  LET pads == UNION {PadsOf(s, c) : c \in codes}
      pressed == [s EXCEPT !.pressed = @ \cup pads, !.down = @ \cup pads, !.loose = @ \ pads]
      stopped == IF StopCode \in codes THEN StopEvents(pressed, "STOPPED") ELSE pressed
  IN  IF PromptCode \in codes THEN StopEvents(stopped, "PROMPT") ELSE stopped

ReleaseControls(s, pads) == [Release(s, pads) EXCEPT !.pressed = @ \ pads]

\* A binding presses the button of a pad without marking its control.
Perform(s, to, isPress) ==
  CASE to \in PadSet /\ isPress -> [s EXCEPT !.down = @ \cup {to}, !.loose = @ \cup {to}]
    [] to \in PadSet /\ ~isPress -> Release(s, {to})
    [] to = "dgen_stop" /\ isPress -> StopEvents(s, "STOPPED")
    [] to = "dgen_prompt" /\ isPress -> StopEvents(s, "PROMPT")
    [] to = "calibrate" /\ isPress -> Calibrate(s, NoCode)
    [] OTHER -> s

\* manage_bindings, which performs every binding whose codes are all down,
\* whichever code the event is about.
PerformBindings(s, down, isPress) ==
  LET upTo[n \in 0..Len(Bindings)] ==
        IF n = 0 THEN s
        ELSE IF Bindings[n].items \subseteq down
             THEN Perform(upTo[n - 1], Bindings[n].to, isPress)
             ELSE upTo[n - 1]
  IN  upTo[Len(Bindings)]

-----------------------------------------------------------------------------
(* The keyboard                                                            *)

Started == ui.events = "STARTED" /\ ~ui.calibrating

StoppedKey(s, code) ==
  CASE code = PromptCode -> [s EXCEPT !.events = "STOPPED_PROMPT"]
    [] code = StopCode /\ code # PromptCode -> RestartEvents(s)
    [] OTHER -> s

\* Mutant: escape thaws a game that was stopped before its prompt was opened.
PromptKeyThaws(s, did) ==
  IF did = "edit" THEN s
  ELSE [Unfreeze(s) EXCEPT !.events = IF @ = "STOPPED_PROMPT" THEN "STOPPED" ELSE "STARTED"]

\* Escape leaves the prompt; Enter runs a command and leaves it unless the game
\* was stopped before; other keys edit the line.
PromptKey(s, did) ==
  LET quit == IF s.events = "STOPPED_PROMPT"
              THEN [s EXCEPT !.events = "STOPPED"] ELSE RestartEvents(s)
      ran(r) == IF s.events = "STOPPED_PROMPT" THEN r ELSE RestartEvents(r)
  IN  CASE did = "edit" -> s
        [] did = "escape" -> quit
        [] did = "enter" -> ran(s)
        [] did = "calibrate" -> ran(Calibrate(s, NoCode))

NameOf(key, typed) == IF typed = Nothing THEN key ELSE typed

Strokes ==
  {[sym |-> key, typed |-> typed, mods |-> mods] :
     key \in Keys, typed \in Names \cup {Nothing}, mods \in Modifiers}

CodeOf(stroke) ==
  Code(NameOf(stroke.sym, stroke.typed),
       IF stroke.typed = Nothing THEN stroke.mods ELSE stroke.mods \ {Shift})

IsUp(key) == \A stroke \in held : stroke.sym # key

\* A key is pressed, or, in a stopped game only, repeated.
KeyDown(key, typed, mods) ==
  LET stroke == [sym |-> key, typed |-> typed, mods |-> mods]
      code == CodeOf(stroke)
  IN  /\ IsUp(key) \/ (stroke \in held /\ ui.events # "STARTED")
      /\ held' = held \cup {stroke}
      /\ kpress' = [kpress EXCEPT ![Slot[key]] = typed]
      /\ combos' = combos \cup {code}
      /\ \/ ui.calibrating /\ ui' = Calibrate(ui, code)
         \/ /\ ~ui.calibrating /\ ui.events \in {"PROMPT", "STOPPED_PROMPT"}
            /\ \E did \in {"edit", "escape", "enter", "calibrate"} : ui' = PromptKey(ui, did)
         \/ ~ui.calibrating /\ ui.events = "STOPPED" /\ ui' = StoppedKey(ui, code)
         \/ Started /\ ui' = PerformBindings(PressControls(ui, {code}), combos', TRUE)
      /\ ui'.freezes <= MaxFreezes
      /\ UNCHANGED <<hat, missed>>

\* Mutant: the key must come up with the modifiers it went down with.
ComesUpModified(name, p) == Code(name, {}) \in ui.codes[p]

\* "ignore key modifiers so they never get stuck" (sdl.cpp:6798).
ComesUp(name, p) == \E mods \in Modifiers : Code(name, mods) \in ui.codes[p]

\* Mutant: only the key without modifiers is forgotten.
ForgottenPlain(name) == {Code(name, {})}

\* The key is forgotten without modifiers and with each single one.
Forgotten(name) ==
  {Code(name, {})} \cup {Code(name, {m}) : m \in UNION Modifiers}

\* The release is that of the key kpress names.  Codes are forgotten before the
\* bindings are looked up.
KeyUp(key) ==
  LET name == NameOf(key, kpress[Slot[key]])
      up == {stroke \in held : stroke.sym = key}
  IN  /\ ~IsUp(key)
      /\ held' = held \ up
      /\ kpress' = [kpress EXCEPT ![Slot[key]] = Nothing]
      /\ missed' = {stroke \in missed \cup up : CodeOf(stroke).key # name}
      /\ combos' = combos \ Forgotten(name)
      /\ ui' = IF Started
               THEN PerformBindings(ReleaseControls(ui, {p \in PadSet : ComesUp(name, p)}),
                                    combos', FALSE)
               ELSE ui
      /\ UNCHANGED hat

-----------------------------------------------------------------------------
(* The joystick                                                            *)

\* The bindings are looked up once for each direction of a list.
BindingsOf(s, dirs, down, isPress) ==
  LET upTo[n \in 0..Len(Dirs)] ==
        IF n = 0 THEN s
        ELSE IF Dirs[n] \in dirs THEN PerformBindings(upTo[n - 1], down, isPress)
             ELSE upTo[n - 1]
  IN  upTo[Len(Dirs)]

\* A calibration is told the pressed directions, until it ends.
CalibrateAll(s, dirs) ==
  LET upTo[n \in 0..Len(Dirs)] ==
        IF n = 0 THEN s
        ELSE IF Dirs[n] \in dirs /\ upTo[n - 1].calibrating
             THEN Calibrate(upTo[n - 1], [dir |-> Dirs[n]])
             ELSE upTo[n - 1]
  IN  upTo[Len(Dirs)]

\* SDL_JOYHATMOTION: every direction is in the list of the pressed ones or in
\* that of the released ones, whatever it was before.
HatMotion(dirs) ==
  LET plist == {[dir |-> d] : d \in dirs}
      rlist == DirCodes \ plist
      up == (UNION {PadsOf(ui, c) : c \in rlist}) \cap ui.pressed
      controls == PressControls(ReleaseControls(ui, up), plist)
      released == BindingsOf(controls, ToSet(Dirs) \ dirs, combos', FALSE)
  IN  /\ dirs # hat
      /\ hat' = dirs
      /\ combos' = (combos \ rlist) \cup plist
      /\ ui' = CASE ui.events # "STARTED" -> ui
                 [] ui.events = "STARTED" /\ ui.calibrating -> CalibrateAll(ui, dirs)
                 [] Started -> BindingsOf(released, dirs, combos', TRUE)
      /\ ui'.freezes <= MaxFreezes
      /\ UNCHANGED <<held, kpress, missed>>

-----------------------------------------------------------------------------
Next ==
  \/ \E key \in Keys, mods \in Modifiers :
       \E typed \in Typed[key][mods] : KeyDown(key, typed, mods)
  \/ \E key \in Keys : KeyUp(key)
  \/ \E dirs \in SUBSET ToSet(Dirs) : HatMotion(dirs)

Spec == Init /\ [][Next]_vars

-----------------------------------------------------------------------------
\* With nothing pressed and the game going on, the game sees no button pressed
\* ("so they never get stuck", sdl.cpp:6798), whatever was held while it was
\* stopped, at the prompt or recoded by a calibration, except the buttons a
\* binding pressed, those that were down when a calibration began, and those of
\* a key whose release was taken for that of a key with the same slot in kpress.
NothingStuck ==
  Started /\ hat = {} /\ held = {} =>
    \A p \in ui.down \ ui.loose :
      \E stroke \in missed : Shared(stroke.sym) /\ CodeOf(stroke) \in ui.codes[p]

\* The game is frozen once for being stopped and once for being calibrated, so
\* that it goes on when both are over; but a game that is stopped again while it
\* is stopped, by two controls or bindings of one event, never does.
FrozenWhileStopped ==
  ~ui.restopped =>
    ui.freezes = (IF ui.events = "STARTED" THEN 0 ELSE 1) + (IF ui.calibrating THEN 1 ELSE 0)

\* A binding is performed only while all its keys are down: what the program
\* takes for pressed is, except codes with two modifiers, which are never
\* forgotten, and the code of a key whose release was taken for that of a key
\* with the same slot in kpress, which stays until its name is released.
CombosAreHeld ==
  \A code \in combos :
    IF IsDir(code) THEN code.dir \in hat
    ELSE \/ \E stroke \in held : CodeOf(stroke) = code
         \/ \E m, n \in code.mods : m # n
         \/ \E stroke \in missed : Shared(stroke.sym) /\ CodeOf(stroke) = code
=============================================================================
