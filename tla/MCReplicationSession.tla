------------------------ MODULE MCReplicationSession ------------------------
(* Instances of ReplicationSession for TLC.                                 *)
EXTENDS ReplicationSession, TLC

\* Neither ids nor values are compared but for equality.
Symmetry == Permutations(Ent) \cup Permutations(Value)
=============================================================================
