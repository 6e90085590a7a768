-------------------------- MODULE MCChunkStreaming --------------------------
(* Instances of ChunkStreaming for TLC.                                     *)
EXTENDS ChunkStreaming

CONSTANT Places

\* One focus at each place, and none at all.
OneFocus == {{p} : p \in Places} \cup {{}}
=============================================================================
