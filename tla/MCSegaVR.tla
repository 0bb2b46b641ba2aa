------------------------------ MODULE MCSegaVR ------------------------------
(* Instances of SegaVR for TLC: two head directions, the four bytes a driver *)
(* writes to the data port (TH and TR combined), and two masks.              *)
EXTENDS SegaVR

MCValues == {0, 32, 64, 96}
MCMasks == {0, 96}
=============================================================================
