SPECIFICATION Spec
CONSTANTS
  f = f
  x = x
  ctrl = ctrl
  alt = alt
  left = left
  forward = forward
  A = A
  Keys = {f, x}
  Typed <- MCTyped
  Slot <- MCSlot
  Shift = shift
  Modifiers <- MCModifiers
  Dirs <- MCDirs
  Pads <- MCPads
  Bound <- MCBound
  StopCode <- MCStopCode
  PromptCode <- MCPromptCode
  Bindings <- MCBindings
  MaxFreezes = 3
INVARIANTS
  NothingStuck
  FrozenWhileStopped
  CombosAreHeld
