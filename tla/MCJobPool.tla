------------------------------ MODULE MCJobPool ------------------------------
(* Instances of JobPool for TLC: small programs over a small pool.          *)
EXTENDS JobPool, StableCommit

\* parallelFor, whose ranges are such jobs: every small span and grain, and every
\* order in which two workers and their waves can visit it.
ASSUME PartitionIsRight ==
    \A begin \in 0..2, end \in 0..9, grain \in 1..4 :
        begin < end /\ Fits(begin, end, grain) =>
            /\ EachOnce(begin, end, grain) /\ RangesAreInside(begin, end, grain)
            /\ InOrder(begin, end, grain)
ASSUME WavesAreRight ==
    \A ranges \in 0..(IndexLimit - MaxRangesPerWave - 1) : WavesMeet(ranges)
ASSUME CommitIsDeterministic ==
    \A begin \in 0..1, length \in 1..5, grain \in 1..5 : Deterministic(begin, begin + length, grain)

CONSTANTS w1, w2, s1, s2, s3, s4, v, x, y, z

schedule(j) == [op |-> "schedule", job |-> j]
wait(j)     == [op |-> "wait", job |-> j]
init        == [op |-> "init", job |-> None]
shutdown    == [op |-> "shutdown", job |-> None]

NoDeps == [j \in Jobs |-> {}]
Idle   == <<>>

Symmetry == Permutations(Workers) \cup Permutations(Slots)

\* A join and a fork: z behind x and y, which may end at once on two workers, and v
\* behind x; a wait in the middle.
GraphDeps == x :> {} @@ y :> {} @@ z :> {x, y} @@ v :> {x}
GraphBody == Main :> <<init, schedule(x), schedule(y), schedule(z), schedule(v), wait(y), shutdown>>
             @@ x :> Idle @@ y :> Idle @@ z :> Idle @@ v :> Idle

\* v finds a serial pool; x forks y, and z behind it, and joins them on its own stack,
\* with slots for two jobs, so that z may have to run inline, before y.  The second
\* init and the second shutdown find nothing to do.
ForkDeps == [NoDeps EXCEPT ![z] = {y}]
ForkBody == Main :> <<schedule(v), init, init, schedule(x), wait(x), shutdown, shutdown>>
            @@ x :> <<schedule(y), schedule(z), wait(y), wait(z)>>
            @@ v :> Idle @@ y :> Idle @@ z :> Idle

\* x waits for y, and z for x, each with the handle it was scheduled with.
HostageBody == Main :> <<init, schedule(y), schedule(x), schedule(z), wait(z), shutdown>>
               @@ x :> <<wait(y)>> @@ y :> Idle @@ z :> <<wait(x)>>
=============================================================================
