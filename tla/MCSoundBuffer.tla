---------------------------- MODULE MCSoundBuffer ----------------------------
(* A buffer of two periods, one smaller than a frame, and one whose rate is *)
(* not the one asked for.                                                   *)
EXTENDS SoundBuffer

ManyDevices == {[asked |-> 1, len |-> 1, period |-> 1],
                [asked |-> 0, len |-> 2, period |-> 1],
                [asked |-> 1, len |-> 2, period |-> 2]}
OneDevice == {[asked |-> 1, len |-> 1, period |-> 1]}

\* A negative number of segments is refused at startup only.
ManySegments == {-1, 1}
=============================================================================
