--------------------------- MODULE MCRemoteCalls ---------------------------
(* Instances of RemoteCalls for TLC.                                        *)
EXTENDS RemoteCalls

\* The handlers' threads, and one of task.delay.
MCThread == Call \cup {Delayed}
=============================================================================
