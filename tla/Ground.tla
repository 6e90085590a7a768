------------------------------- MODULE Ground -------------------------------
(***************************************************************************)
(* What streaming promises about the ground: it looks the way whoever      *)
(* shaped it left it, and loading and dropping cells changes nothing.      *)
(***************************************************************************)
EXTENDS Naturals

CONSTANT Cell
VARIABLES ground,   \* what each square holds, or would hold once loaded
          shaped    \* how often somebody changed it

Init == ground \in [Cell -> Nat] /\ shaped = 0

\* A script digs or builds, an editor undoes or opens another scene.
Shape == shaped' = shaped + 1 /\ ground' \in [Cell -> Nat]

Next == Shape
Spec == Init /\ [][Next]_<<ground, shaped>>
=============================================================================
