------------------------------ MODULE JobGraph ------------------------------
(***************************************************************************)
(* What engine/jobs promises its callers, with no pool in it: a job is     *)
(* submitted once, starts once and only behind everything it depends on,   *)
(* finishes, and a wait for it returns no sooner.                          *)
(***************************************************************************)
CONSTANTS Jobs, Deps

VARIABLES submitted, started, finished, awaited

graph == <<submitted, started, finished, awaited>>

Init == submitted = {} /\ started = {} /\ finished = {} /\ awaited = {}

Ready(j) == Deps[j] \subseteq finished

Submit(j) ==
    /\ j \notin submitted
    /\ submitted' = submitted \cup {j}
    /\ UNCHANGED <<started, finished, awaited>>

Start(j) ==
    /\ j \in submitted \ started /\ Ready(j)
    /\ started' = started \cup {j}
    /\ UNCHANGED <<submitted, finished, awaited>>

\* A serial pool runs the job where it is submitted.
RunNow(j) ==
    /\ j \notin submitted /\ Ready(j)
    /\ submitted' = submitted \cup {j} /\ started' = started \cup {j}
    /\ UNCHANGED <<finished, awaited>>

Finish(j) ==
    /\ j \in started \ finished
    /\ finished' = finished \cup {j}
    /\ UNCHANGED <<submitted, started, awaited>>

Await(j) ==
    /\ j \in finished
    /\ awaited' = awaited \cup {j}
    /\ UNCHANGED <<submitted, started, finished>>

Next == \E j \in Jobs : Submit(j) \/ Start(j) \/ RunNow(j) \/ Finish(j) \/ Await(j)

Spec == Init /\ [][Next]_graph
=============================================================================
