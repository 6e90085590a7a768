-------------------------- MODULE MCFieldStreaming --------------------------
(* Instances of FieldStreaming for TLC.                                     *)
EXTENDS FieldStreaming

CONSTANT Places

\* One focus at each place, and none at all.
OneFocus == {{p} : p \in Places} \cup {{}}

\* The first scene has ground everywhere, the second other ground in one cell.
Files == [s \in Scene |-> [c \in Chunk |->
            IF s = "first" THEN 1 ELSE IF c = 0 THEN 2 ELSE 0]]
=============================================================================
