----------------------------- MODULE MCControls -----------------------------
(* A function key f that presses a button with one modifier and fulfils      *)
(* bindings with none or two, a key x that types x, stops the game or opens  *)
(* the prompt, and shares its slot in kpress with f, and a joystick that     *)
(* presses the button and stops the game together with f.                    *)
EXTENDS Controls

CONSTANTS f, x, ctrl, alt, left, forward, A

MCSlot == (f :> 0) @@ (x :> 0)
MCModifiers == {{}, {ctrl}, {ctrl, alt}}
\* x types with no modifier only, and is not pressed with both.
MCTyped ==
  (f :> [mods \in MCModifiers |-> {Nothing}]) @@
  (x :> ({} :> {x} @@ {ctrl} :> {Nothing} @@ {ctrl, alt} :> {}))
MCDirs == <<left, forward>>
MCPads == <<A>>
MCBound == (A :> {Code(f, {ctrl}), [dir |-> left]})
MCStopCode == Code(x, {})
MCPromptCode == Code(x, {ctrl})
MCBindings ==
  << [items |-> {Code(f, {})}, to |-> A],
     [items |-> {Code(f, {}), [dir |-> left]}, to |-> "dgen_stop"],
     [items |-> {Code(f, {ctrl, alt})}, to |-> "calibrate"] >>
=============================================================================
