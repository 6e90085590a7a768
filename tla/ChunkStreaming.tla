--------------------------- MODULE ChunkStreaming ---------------------------
(***************************************************************************)
(* The parts of a world streamed from disk: StreamingHost's frame, its     *)
(* reads on the asynchronous IO, the StreamingManager that decides, the    *)
(* StreamingGlue that puts a chunk's instances into the world and takes    *)
(* them out, the scripts that hold or wait for them, and the hot reload    *)
(* that replaces the world under all of it.                                *)
(*                                                                         *)
(* A frame is one step: everything in it runs on the frame thread.  A      *)
(* read's outcome is sampled once in a frame, so a completion during the   *)
(* frame is one before it or after it.                                     *)
(***************************************************************************)
EXTENDS StreamingManager

CONSTANTS Foci,       \* the sets of focus positions the scripts and the camera make
          Malformed,  \* chunks whose bytes do not decode
          Reloads     \* bound: how often the world is replaced

ASSUME ChunkStreamingAssumption ==
    /\ \A foci \in Foci : foci \subseteq Int /\ IsFiniteSet(foci)
    /\ Malformed \subseteq Chunk /\ Reloads \in Nat

VARIABLES
    m,         \* the manager
    reads,     \* m_reads: a chunk and how far its IO is
    glue,      \* the chunks in the glue's m_chunks
    live,      \* how many copies of each chunk's instances are in the world
    kept,      \* chunks of which a script holds an instance
    husks,     \* chunks of which an evicted instance is in the world still
    areas,     \* chunks a LoadAreaAsync waits for
    foci, enabled,        \* what the frame will collect from the world
    world, hostWorld,     \* which world there is; which one the host was given
    crossed    \* history: chunks whose read was outstanding when a world went

hostVars   == <<m, reads, hostWorld>>
sceneVars  == <<glue, live>>
scriptVars == <<kept, husks, areas, foci, enabled>>
vars == <<hostVars, sceneVars, scriptVars, world, crossed>>

Init ==
    /\ m = Fresh(Chunk) /\ reads = <<>> /\ world = 0 /\ hostWorld = 0
    /\ glue = {} /\ live = [c \in Chunk |-> 0]
    /\ kept = {} /\ husks = {} /\ areas = {}
    /\ foci \in Foci /\ enabled = TRUE /\ crossed = {}

-----------------------------------------------------------------------------
(* The world around the host.                                              *)

\* The IO service ends a read, well or badly.
ReadEnds(i, outcome) ==
    /\ reads[i].io = "Pending"
    /\ reads' = [reads EXCEPT ![i].io = outcome]
    /\ UNCHANGED <<m, hostWorld, sceneVars, scriptVars, world, crossed>>

MoveFocus(f) ==
    /\ f # foci /\ foci' = f
    /\ UNCHANGED <<hostVars, sceneVars, kept, husks, areas, enabled, world, crossed>>

\* StreamingService.Enabled
SetEnabled(on) ==
    /\ on # enabled /\ enabled' = on
    /\ UNCHANGED <<hostVars, sceneVars, kept, husks, areas, foci, world, crossed>>

\* A script keeps an instance of the copy that is in the world (bound: never
\* of two copies of one chunk).
Keep(c) ==
    /\ live[c] > 0 /\ c \notin kept \cup husks
    /\ kept' = kept \cup {c}
    /\ UNCHANGED <<hostVars, sceneVars, husks, areas, foci, enabled, world, crossed>>

\* It lets go of it.
Drop(c) ==
    /\ c \in kept
    /\ kept' = kept \ {c}
    /\ UNCHANGED <<hostVars, sceneVars, husks, areas, foci, enabled, world, crossed>>

\* streamingLoadAreaAsync always parks.
LoadArea(c) ==
    /\ c \notin areas /\ areas' = areas \cup {c}
    /\ UNCHANGED <<hostVars, sceneVars, kept, husks, foci, enabled, world, crossed>>

\* A hot reload swaps in a world built from the scripts: instances, references
\* and waiting coroutines of the old one go with it.  The host hears of it in
\* its next frame.
Reload ==
    /\ world < Reloads /\ world = hostWorld
    /\ world' = world + 1
    /\ live' = [c \in Chunk |-> 0]
    /\ kept' = {} /\ husks' = {} /\ areas' = {}
    /\ UNCHANGED <<hostVars, glue, foci, enabled, crossed>>

-----------------------------------------------------------------------------
(* One frame: setWorld, pump, publishStreamingResults.                     *)

SetWorld == IF hostWorld = world THEN m ELSE ForgetResidency(m)
\* Mutant of GlueFor: the glue keeps its record of the world that has gone.
GlueOfLastWorld == glue
GlueFor  == IF hostWorld = world THEN glue ELSE {}

\* The first k reads, delivered: bytes that do not decode fail their chunk.
Drained(mm, k) ==
    LET good == {i \in LastOf(reads, k) : reads[i].io = "Ready" /\ reads[i].chunk \notin Malformed}
    IN  Delivered(mm, {reads[i].chunk : i \in good},
                      {reads[i].chunk : i \in LastOf(reads, k) \ good})

\* A chunk the glue already has is not built again, and one it has not is not
\* taken out.
Materialize(g, S) == [live |-> [c \in Chunk |-> IF c \in S \ g THEN 1 ELSE 0], glue |-> g \cup S]
TakenOut(g, S)    == S \cap g

\* Mutant of Probed: no instance is found to be held.
NothingProbed == {}

\* What the reference probe answers for the copy in the world, and the husks
\* publishStreamingResults leaves: those a script holds.
Probed   == kept \ husks
Swept(S) == S \cap kept

\* beginRead, nearest first.
Begun(S) == [n \in 1..Cardinality(S) |-> [chunk |-> InOrder(S, foci)[n], io |-> "Pending"]]

\* k reads drained, n waiting chunks reached, room for r more reads, and of
\* those begun the ones in `refused` got no request (m_failedStarts).
Pump(k, n, r, refused) ==
    \E scored \in {Rescored(Drained(SetWorld, k), foci)} :
    \E out \in {IF enabled THEN Leaving(scored) ELSE {}} :
    \E evicted \in {Evicted(scored, out)} :
    \E build \in {IF enabled THEN ToBuild(evicted, foci, n) ELSE {}} :
    \E start \in {IF enabled THEN ToRead(evicted, foci, n, r) ELSE {}} :
    \E gone \in {TakenOut(GlueFor, out)} :
    \E made \in {Materialize(GlueFor \ gone, build)} :
        /\ refused \subseteq start
        /\ m' = StartedBut(Built(evicted, build, {}), start, refused)
        /\ reads' = StillOut(reads, k) \o Begun(start \ refused)
        /\ glue' = made.glue
        /\ live' = [c \in Chunk |-> (IF c \in gone THEN 0 ELSE live[c]) + made.live[c]]
        /\ husks' = Swept(husks \cup (gone \cap Probed))

\* Mutant of Publish: it asks before the pump.
PublishBefore == areas' = {c \in areas : m.state[c] # "Resident"}

\* publishStreamingResults: whoever waits for a resident area goes on.
Publish == areas' = {c \in areas : m'.state[c] # "Resident"}

Frame(k, n, r, refused) ==
    /\ Pump(k, n, r, refused) /\ Publish
    /\ hostWorld' = world
    /\ UNCHANGED kept
    /\ crossed' = IF hostWorld = world THEN crossed
                  ELSE crossed \cup {reads[i].chunk : i \in DOMAIN reads}
    /\ UNCHANGED <<foci, enabled, world>>

AnyFrame == \E k \in 0..Len(reads), n \in 0..Cardinality(Chunk), r \in 0..MaxInFlight :
                \E refused \in SUBSET Chunk : Frame(k, n, r, refused)
\* A frame with time and room for everything, in which every read starts.
FullFrame == Frame(Len(reads), Cardinality(Chunk), MaxInFlight, {})

ReadOf(c) == \E i \in DOMAIN reads : \E o \in {"Ready", "Failed"} :
                 reads[i].chunk = c /\ ReadEnds(i, o)
Scripts  == \/ \E f \in Foci : MoveFocus(f)
            \/ \E on \in BOOLEAN : SetEnabled(on)
            \/ \E c \in Chunk : Keep(c) \/ Drop(c) \/ LoadArea(c)

Next == (\E c \in Chunk : ReadOf(c)) \/ Scripts \/ Reload \/ AnyFrame
Spec == Init /\ [][Next]_vars

\* The IO service ends what it was given, and frames go on; a frame is not for
\* ever too short for one chunk.
FairSpec == Spec /\ WF_vars(FullFrame) /\ \A c \in Chunk : WF_vars(ReadOf(c))

-----------------------------------------------------------------------------
\* The manager's record is well formed, and so is what the host keeps.
TypeOK ==
    /\ m \in Managers /\ m.inFlight \in 0..MaxInFlight /\ hostWorld \in 0..world /\ world \in 0..Reloads
    /\ \A i \in DOMAIN reads : reads[i].chunk \in Chunk /\ reads[i].io \in {"Pending", "Ready", "Failed"}
    /\ glue \subseteq Chunk /\ live \in [Chunk -> Nat]
    /\ kept \cup husks \cup areas \cup crossed \subseteq Chunk

\* The places taken in the in-flight budget are those of the chunks that are
\* loading, through drains, reloads and completions that come for a world that
\* has gone: a place that is not given back stops streaming for good.
InFlightExact == m.inFlight = Cardinality(In(m, "Loading"))

\* A chunk that is loading has a read that will end (a start that failed is
\* reported after the tick, D158); else it would wait for ever.
LoadingIsRead == \A c \in In(m, "Loading") : \E i \in DOMAIN reads : reads[i].chunk = c

\* Reads in the air are bounded by the budget, once for every world that has
\* asked for them.
ReadsBounded == Len(reads) <= MaxInFlight * (hostWorld + 1)

\* The budget is exact: no place is lost, taken twice, or waiting for nothing.
BudgetExact == TypeOK /\ InFlightExact /\ LoadingIsRead /\ ReadsBounded

\* What the manager takes for resident is in the world, once, and the glue can
\* take it out again (D032); and what the glue does not know is not there.
ResidentIsThere ==
    hostWorld = world =>
        /\ In(m, "Resident") \subseteq glue
        /\ \A c \in Chunk : live[c] = IF c \in glue THEN 1 ELSE 0

\* Instances the manager no longer counts as resident, which nothing evicts,
\* and bytes counted for a chunk twice, come only of a read that outlived the
\* world it was made for.
LeftOnlyByReload ==
    hostWorld = world =>
        /\ \A c \in glue \ crossed : m.state[c] = "Resident"
        /\ crossed = {} => m.bytes = Cardinality(In(m, "Resident"))

\* The manager and the world agree on what is in it.
WorldAgrees == ResidentIsThere /\ LeftOnlyByReload

\* An instance a script holds outlives the eviction of its chunk, as a husk,
\* until the script lets go of it.
HeldOutlives ==
    [][\A c \in kept : (world' = world /\ c \in kept') => (live'[c] > 0 \/ c \in husks')]_vars

\* LoadAreaAsync answers only when the instances of the area are in the world
\* the script runs in.
AreaIsThere == [][\A c \in areas : (world' = world /\ c \notin areas') => live'[c] = 1]_vars

\* Once the foci have settled, every chunk near one of them becomes resident
\* or has failed, one read at a time if need be ...
NearArrives ==
    \A f \in Foci : <>[](foci = f /\ enabled)
        => <>[](\A c \in Chunk : f = {} \/ Within(c, f, LoadRadius)
                    => m.state[c] \in {"Resident", "Failed"})

\* ... and every chunk beyond all of them has left the world.
FarLeaves ==
    \A f \in Foci \ {{}} : <>[](foci = f /\ enabled)
        => <>[](\A c \in Chunk \ crossed : ~Within(c, f, DropRadius) => live[c] = 0)

\* So a focus that has settled gets the world it should have.
Settles == NearArrives /\ FarLeaves

=============================================================================
