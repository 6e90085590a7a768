------------------------------- MODULE MCWorld -------------------------------
(* Instances of World for TLC.                                               *)
EXTENDS World

CONSTANT MaxEdited    \* bound: how large a world is still edited

\* A subtree of three can be cloned, and the world of six it makes is checked and
\* not edited further.
Bounded == made <= MaxEdited
=============================================================================
