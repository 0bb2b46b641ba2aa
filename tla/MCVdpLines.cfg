SPECIFICATION LinesSpec
CONSTANTS
  Low = 2
  Links = {0, 1}
  Colours = {"red", "blue"}
  Bases = {0, 3}
  DmaLength = 2
  MaxNarrow = 1
  MaxWide = 3
  LinkIn <- BlueLinks
  Saves <- OneSave
INVARIANTS PortTypeOK PaletteIsCurrent OrderIsCurrent
