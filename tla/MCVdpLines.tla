----------------------------- MODULE MCVdpLines -----------------------------
(* Two sprite tables of two links, the second running into CRAM; one saved  *)
(* state.                                                                   *)
EXTENDS VdpLines

OneSave == {[dmaMode |-> "move", base |-> 3, wide |-> TRUE, displayOn |-> TRUE,
             vram |-> [a \in Cells |-> a % 2], cram |-> "blue"]}

BlueLinks == [c \in Colours |-> IF c = "blue" THEN 1 ELSE 0]
=============================================================================
