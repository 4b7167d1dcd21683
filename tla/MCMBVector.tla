----------------------------- MODULE MCMBVector -----------------------------
(* An instance of MBVector for TLC.                                        *)
EXTENDS MBVector, TLC
CONSTANTS v1, v2, b1, b2, b3, x, y
TwoVectors == {v1, v2}
ThreeBlocks == {b1, b2, b3}
TwoValues == {x, y}
SomeLists == {<<y>>, <<y, x>>, <<x, y, y>>}
NoneOrTwo == {0, 2}
Release == {FALSE}
Debugging == {TRUE}
VectorSymmetry == Permutations(TwoVectors) \cup Permutations(ThreeBlocks)
=============================================================================
