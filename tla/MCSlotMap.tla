------------------------------ MODULE MCSlotMap ------------------------------
(* Instances of SlotMap for TLC: objects are interchangeable.               *)
EXTENDS SlotMap, TLC

Symmetry == Permutations(Objects)
=============================================================================
