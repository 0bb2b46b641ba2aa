--------------------------- MODULE MCSegaVRFrame ---------------------------
(* Instances of SegaVRFrame for TLC: the driver writes reset and the two     *)
(* request bytes, and selects the port with the one mask that matters.       *)
EXTENDS SegaVRFrame

MCValues == {0, 32, 64}
MCMasks == {96}
=============================================================================
