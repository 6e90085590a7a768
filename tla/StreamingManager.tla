-------------------------- MODULE StreamingManager --------------------------
(***************************************************************************)
(* The policy of asset::StreamingManager as operators on one record, for   *)
(* the two hosts that drive it: the parts' (ChunkStreaming) and the        *)
(* ground's (FieldStreaming).                                              *)
(*                                                                         *)
(* m.index     the chunks the index names                                  *)
(* m.state     where each chunk is                                         *)
(* m.wanted    the flag the hysteresis keeps                               *)
(* m.inFlight  m_inFlight, the reads the manager believes are outstanding  *)
(* m.bytes     m_stats.bytesResident                                       *)
(***************************************************************************)
EXTENDS StreamingOrder

CONSTANTS Chunk,         \* ids, and places
          MinRadius,     \* the ring that must be there
          LoadRadius,    \* a chunk this near is wanted
          DropRadius,    \* LoadRadius * EvictHysteresis: past it, it is not
          MaxInFlight    \* StreamingBudget::maxInFlight

ASSUME StreamingAssumption ==
    /\ IsFiniteSet(Chunk) /\ Chunk \subseteq Int
    /\ MinRadius \in Nat /\ LoadRadius \in Nat /\ DropRadius \in Nat
    /\ MinRadius <= LoadRadius /\ LoadRadius < DropRadius
    /\ MaxInFlight \in Nat \ {0}

ChunkState == {"Unloaded", "Loading", "Decoded", "Resident", "Failed"}
Managers   == [index : SUBSET Chunk, state : [Chunk -> ChunkState], wanted : [Chunk -> BOOLEAN],
               inFlight : Nat, bytes : Nat]

Fresh(index) ==
    [index |-> index, state |-> [c \in Chunk |-> "Unloaded"],
     wanted |-> [c \in Chunk |-> FALSE], inFlight |-> 0, bytes |-> 0]

In(m, s)   == {c \in Chunk : m.state[c] = s}
Put(m, S, s) == [m EXCEPT !.state = [c \in Chunk |-> IF c \in S THEN s ELSE @[c]]]
Less(n, k) == IF n < k THEN 0 ELSE n - k

-----------------------------------------------------------------------------
(* What the host tells it.                                                 *)

\* Mutant of ForgetResidency: places in the budget stay taken.
ForgetTakingPlaces(m) == [Fresh(m.index) EXCEPT !.inFlight = m.inFlight]

\* The parts' and the ground's residency record goes with their world.
ForgetResidency(m) == Fresh(m.index)

\* onChunkLoaded and onChunkFailed for a set of chunks, one outcome each.  A
\* completion for a chunk the index does not name is dropped; one credits the
\* counter only while its chunk is Loading, and moves the chunk wherever it was.
Delivered(m, loaded, failed) ==
    LET credit == Cardinality((loaded \cup failed) \cap In(m, "Loading"))
    IN  [Put(Put(m, loaded \cap m.index, "Decoded"), failed \cap m.index, "Failed")
            EXCEPT !.inFlight = Less(@, credit)]

\* replaceIndex: an id in both indexes keeps its entry, one that is gone is
\* forgotten without an eviction.
ReplaceIndex(m, index) ==
    LET gone == m.index \ index
    IN  [Put(m, gone, "Unloaded") EXCEPT
            !.index = index,
            !.wanted = [c \in Chunk |-> c \in index /\ @[c]],
            !.inFlight = Less(@, Cardinality(gone \cap In(m, "Loading"))),
            !.bytes = Less(@, Cardinality(gone \cap In(m, "Resident")))]

-----------------------------------------------------------------------------
(* tick, stage by stage.                                                   *)

\* Mutant of Rescored: what was wanted once is wanted until the index changes.
RescoredForEver(m, foci) ==
    [m EXCEPT !.wanted = [c \in Chunk |->
        c \in m.index /\ (foci = {} \/ Within(c, foci, LoadRadius) \/ @[c])]]

\* No focus at all wants everything; otherwise hysteresis.
Rescored(m, foci) ==
    [m EXCEPT !.wanted = [c \in Chunk |->
        /\ c \in m.index
        /\ \/ foci = {}
           \/ Within(c, foci, LoadRadius)
           \/ @[c] /\ Within(c, foci, DropRadius)]]

\* Eviction: unbudgeted, and of resident chunks only.
Leaving(m) == {c \in In(m, "Resident") : ~m.wanted[c]}
Evicted(m, S) == [Put(m, S, "Unloaded") EXCEPT !.bytes = Less(@, Cardinality(S))]

Waiting(m) == {c \in In(m, "Unloaded") \cup In(m, "Decoded") : m.wanted[c]}

\* What a budget that reaches the first n of Waiting puts into the world, and
\* the reads it asks for while the host has room for k more.
ToBuild(m, foci, n) == Nearest(Waiting(m), n, foci) \cap In(m, "Decoded")
ToRead(m, foci, n, k) ==
    LET room == Less(MaxInFlight, m.inFlight)
    IN  Nearest(Nearest(Waiting(m), n, foci) \cap In(m, "Unloaded"),
                IF k < room THEN k ELSE room, foci)

Built(m, S, broken) ==
    [Put(Put(m, S \ broken, "Resident"), S \cap broken, "Failed") EXCEPT
        !.bytes = @ + Cardinality(S \ broken)]
Started(m, S) == [Put(m, S, "Loading") EXCEPT !.inFlight = @ + Cardinality(S)]

\* Mutant of StartedBut: the failure is reported before the start is recorded.
StartedAfterFailing(m, S, refused) == Started(Delivered(m, {}, refused), S)

\* The reads of `refused` could not be started, and the host says so once the
\* tick is over (D158).
StartedBut(m, S, refused) == Delivered(Started(m, S), {}, refused)

MinimumRingResident(m, foci) ==
    \A c \in m.index : Within(c, foci, MinRadius) => m.state[c] = "Resident"
=============================================================================
