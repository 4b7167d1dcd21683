------------------------------ MODULE MCTSQueue ------------------------------
(* Instances of TSQueue for TLC.                                           *)
EXTENDS TSQueue
CONSTANTS c1, c2, c3, v1, v2
ThreeConsumers == {c1, c2, c3}
TwoTimed == {c2, c3}
TwoValues == {v1, v2}
=============================================================================
