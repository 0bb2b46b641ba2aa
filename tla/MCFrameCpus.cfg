SPECIFICATION CpuFairSpec
CONSTANTS
  M68kCycles <- MCM68kCycles
  Z80Cycles <- MCZ80Cycles
  VblankLine = 1
  Lines = 4
  Longest = 2
INVARIANTS
  AssertedIsPending
  FlagMeansPending
  NeitherRunsAhead
  ExecutedWasFree
  SkippedWasHeld
  Z80IrqInVblank
PROPERTIES
  VintConsumedAsLevel6
  HintSurvivesVint
  VintDelivered
