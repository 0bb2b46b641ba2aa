------------------------------ MODULE MCBattery ------------------------------
(* The two cartridges of MCCartridge, one of which has save RAM; the game of *)
(* the other can leave a protection on.                                      *)
EXTENDS MCCartridge, Battery

OneBattery == {CHOOSE c \in TwoCarts : c[0] = 0}
=============================================================================
