------------------------------ MODULE MCCapture ------------------------------
(* Model values and pipelines for the runs of Capture.                      *)
EXTENDS Capture, TLC

LagDup == <<"lag", "duplicate">>
LagDropDup == <<"lag", "drop", "duplicate">>
Whole == <<"lag", "drop", "duplicate", "bandwidth">>

PacketSymmetry == Permutations(Packet) \cup Permutations(Clone)
==============================================================================
