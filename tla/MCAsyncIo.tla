------------------------------ MODULE MCAsyncIo ------------------------------
(* Instances of AsyncIo for TLC.                                            *)
EXTENDS AsyncIo, TLC

CONSTANTS r1, r2, r3, s1, s2, s3

Symmetry == Permutations(Slots)
=============================================================================
