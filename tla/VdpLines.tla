------------------------------ MODULE VdpLines ------------------------------
(***************************************************************************)
(* What the renderer derives from the video chip's memory and keeps        *)
(* between lines (ras.cpp, md_vdp::draw_scanline): the palette in the      *)
(* screen's format, and the order in which sprites are drawn, found by     *)
(* following the links of the sprite table.  Both are computed again only  *)
(* when the dirty flags say so.  Composed with VdpPort, whose accesses     *)
(* fall between any two lines, and with the loading of a saved state.      *)
(***************************************************************************)
EXTENDS VdpPort

CONSTANTS MaxNarrow,  \* sprites per frame in H32 (64)
          MaxWide,    \* and in H40 (80)
          LinkIn,     \* the link a sprite has where CRAM holds a colour
          Saves       \* the registers and memories that saved states hold

ASSUME LinesAssumption ==
  /\ MaxNarrow \in Nat \ {0} /\ MaxWide \in Nat \ {0}
  /\ Bases \subseteq Nat /\ Links \subseteq Nat
  /\ LinkIn \in [Colours -> Links]
  /\ Saves \subseteq [dmaMode : {"move", "fill"}, base : Bases, wide : BOOLEAN,
                      displayOn : BOOLEAN, vram : [Cells -> Links],
                      cram : Colours]

VARIABLES highpal,    \* the colour the palette entry was computed from
          order       \* sprite_order[0..sprite_count - 1]

linesVars == <<vdpVars, highpal, order>>

\* None of Colours: the palette md_vdp::reset leaves is not CRAM's.
Black == "black"

-----------------------------------------------------------------------------
\* Neither register 5 nor a link is masked: a table may lie behind video RAM,
\* or run out of it.  CRAM is what follows; its entry stands for all that does.
LinkAt(a, behind) == IF a \in Cells THEN vram[a] ELSE LinkIn[behind]

\* The k-th sprite of the walk: sprite 0, then each one's link.
Visited(k, behind) ==
  LET at[n \in 0..k] == IF n = 0 THEN 0 ELSE LinkAt(base + at[n - 1], behind)
  IN  at[k]

\* The walk ends before it comes back to sprite 0, and after max sprites.
Walk(max, behind) ==
  LET ends == {n \in 1..max : n = max \/ Visited(n, behind) = 0}
      count == CHOOSE n \in ends : \A m \in ends : n <= m
  IN  [k \in 0..(count - 1) |-> Visited(k, behind)]

MaxSprites == IF wide THEN MaxWide ELSE MaxNarrow

OrderDue == dirtyBase \/ dirtyVram

PaletteDue == dirtyCram

DrawPalette ==
  IF PaletteDue THEN highpal' = cram /\ dirtyCram' = FALSE
                ELSE UNCHANGED <<highpal, dirtyCram>>

DrawOrder ==
  IF displayOn /\ OrderDue
    THEN order' = Walk(MaxSprites, cram) /\ dirtyBase' = FALSE /\ dirtyVram' = FALSE
    ELSE UNCHANGED <<order, dirtyBase, dirtyVram>>

DrawScanline ==
  /\ DrawPalette /\ DrawOrder
  /\ UNCHANGED <<portVars, regVars, memVars>>

\* md_vdp::reset.
ResetVdp ==
  /\ Cleared
  /\ highpal' = Black
  /\ order' = <<>>

MarksAll == dirtyVram' = TRUE /\ dirtyCram' = TRUE /\ dirtyBase' = TRUE

\* import_gst: the reset, then the registers and the memory of the file, and
\* everything is marked.  The ports' own state is not in the file.
LoadState ==
  \E file \in Saves :
    /\ pending' = FALSE /\ mode' = ReadVram /\ addr' = 0 /\ dma' = FALSE
    /\ dmaMode' = file.dmaMode /\ base' = file.base /\ wide' = file.wide
    /\ displayOn' = file.displayOn
    /\ vram' = file.vram /\ cram' = file.cram
    /\ MarksAll
    /\ highpal' = Black /\ order' = <<>>

LinesInit == PortInit /\ highpal = Black /\ order = <<>>

LinesNext ==
  \/ PortStep /\ UNCHANGED <<highpal, order>>
  \/ DrawScanline
  \/ ResetVdp
  \/ LoadState

LinesSpec == LinesInit /\ [][LinesNext]_linesVars

-----------------------------------------------------------------------------
(* Properties                                                               *)

\* The palette on the screen is CRAM's, whatever writes, fills, transfers,
\* resets and loads fell between the lines: no write is left unmarked, and
\* no mark is dropped before the palette is computed.
PaletteIsCurrent == ~dirtyCram => highpal = cram

\* The orders a table gives: the walk is cut at one of two limits, and which
\* one is not computed again when register 12 changes alone.
Orders(behind) == {Walk(MaxNarrow, behind), Walk(MaxWide, behind)}

\* The sprites are drawn in the order of the links now in video RAM, as far as
\* the table register 5 names lies there.  Where it runs out of video RAM the
\* links may be older: a write to CRAM does not mark the order, which was
\* found with something that was there, not always with what is there now.
OrderIsCurrent ==
  ~dirtyVram /\ ~dirtyBase => \E behind \in Colours : order \in Orders(behind)
=============================================================================
