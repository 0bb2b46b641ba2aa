---------------------------- MODULE MCFrameCpus ----------------------------
(* One displayed line and three of vblank; the 68K has slightly more than    *)
(* two cycles for one of the Z80, as in md.h (488 and 227 a line).           *)
EXTENDS FrameCpus

MCM68kCycles == [hblank |-> 2, vdelay |-> 4, display |-> 7]
MCZ80Cycles == [hblank |-> 1, vdelay |-> 2, display |-> 3]
=============================================================================
