--------------------------- MODULE FieldStreaming ---------------------------
(***************************************************************************)
(* Terrain and block worlds streamed from disk by app::FieldStreamer, in a *)
(* game and in the editor (app::TerrainCells), over the same manager as    *)
(* the parts.                                                              *)
(*                                                                         *)
(* A cell is shared into the live field, where what is there already wins, *)
(* and a second reference to it is kept; at eviction a cell that is not    *)
(* what it brought stays.  A cell has one chunk of ground; its content is  *)
(* a number, 0 for none.  Terrain is compared by content (its digest),     *)
(* blocks by object: `own` says that the field's object is the held one.   *)
(***************************************************************************)
EXTENDS StreamingManager

CONSTANTS Foci,        \* the sets of focus positions
          Blocks,      \* the cells of a game's block world; the rest is terrain
          Scene,       \* the scenes an editor may open
          FirstScene,  \* the one it starts with
          OnDisk,      \* the content of every scene's cell files at first
          Version,     \* contents an edit may leave
          MayDigOut,   \* whether an edit may leave a square empty
          MaxShaped, MaxSaves   \* bounds on edits and the like, and on saves

ASSUME FieldAssumption ==
    /\ \A f \in Foci : f \subseteq Int /\ IsFiniteSet(f)
    /\ Blocks \subseteq Chunk /\ Version \subseteq Nat \ {0}
    /\ FirstScene \in Scene /\ OnDisk \in [Scene -> [Chunk -> Nat]]
    /\ MayDigOut \in BOOLEAN /\ MaxShaped \in Nat /\ MaxSaves \in Nat

VARIABLES
    m, reads,  \* the manager; m_reads, with the file's scene and what was read
    raw,       \* what was read of each decoded cell, 0 for bytes that do not decode
    field,     \* the live field
    held,      \* m_terrainCells and m_voxelCells
    disk,      \* the cells' files
    editor, scene,   \* whether this is the editor; whose index is adopted
    snapshot,  \* the field an undo would put back
    foci, primed,
    shaped, saves,   \* how often somebody changed the ground, and saved it
    worked,    \* history: cells somebody changed, and has not saved since
    resaved,   \* history: cells whose old file was still to arrive when they were saved
    late       \* history: cells that were loaded or being read when the world or the
               \* scene was replaced, and those of `resaved` changed since

None == [v |-> 0, own |-> FALSE]
vars == <<m, reads, raw, field, held, disk, editor, scene, snapshot, foci, primed,
          shaped, saves, worked, resaved, late>>

\* In the editor nothing but a terrain is streamed: only a game's world is cut
\* into block cells.
Terrain == IF editor THEN Chunk ELSE Chunk \ Blocks
Rows(s) == {c \in Chunk : disk[s][c] # 0}

BeingRead == {reads[i].chunk : i \in DOMAIN reads}

Init ==
    /\ editor \in BOOLEAN /\ scene = FirstScene /\ disk = OnDisk
    /\ m = Fresh(Rows(scene)) /\ reads = <<>> /\ raw = [c \in Chunk |-> 0]
    /\ field = [c \in Chunk |-> 0] /\ held = [c \in Chunk |-> None]
    /\ snapshot = field /\ foci \in Foci /\ primed = (m.index = {})
    /\ shaped = 0 /\ saves = 0 /\ worked = {} /\ resaved = {} /\ late = {}

-----------------------------------------------------------------------------
(* The world around the streamer.                                          *)

\* A read ends with what the file holds, or badly.
ReadEnds(i, ok) ==
    /\ reads[i].io = "Pending"
    /\ reads' = [reads EXCEPT ![i].io = IF ok THEN "Ready" ELSE "Failed",
                              ![i].v = IF ok THEN disk[reads[i].scene][reads[i].chunk] ELSE 0]
    /\ UNCHANGED <<m, raw, field, held, disk, editor, scene, snapshot, foci, primed,
                   shaped, saves, worked, resaved, late>>

MoveFocus(f) ==
    /\ f # foci /\ foci' = f
    /\ UNCHANGED <<m, reads, raw, field, held, disk, editor, scene, snapshot, primed,
                   shaped, saves, worked, resaved, late>>

\* A script or a tool writes ground into a square, loaded or not, or digs it
\* out; the editor records what was there for its undo.
Shape(c, v) ==
    /\ shaped < MaxShaped /\ v # field[c] /\ (v = 0 => MayDigOut)
    /\ field' = [field EXCEPT ![c] = v]
    /\ held' = [held EXCEPT ![c].own = FALSE]
    /\ snapshot' = IF editor THEN field ELSE snapshot
    /\ shaped' = shaped + 1 /\ worked' = worked \cup {c}
    /\ late' = late \cup ({c} \cap resaved)
    /\ UNCHANGED <<m, reads, raw, disk, editor, scene, foci, primed, saves, resaved>>

-----------------------------------------------------------------------------
(* The editor.                                                             *)

\* The world is put back, and reconcile shares what is held into it.
Reconciled(was) == [c \in Chunk |-> IF was[c] = 0 THEN held[c].v ELSE was[c]]
Undo ==
    /\ editor /\ shaped < MaxShaped /\ snapshot # field
    /\ field' = Reconciled(snapshot) /\ snapshot' = field
    /\ held' = [c \in Chunk |-> [held[c] EXCEPT !.own = FALSE]]
    /\ shaped' = shaped + 1 /\ worked' = worked \cup {c \in Chunk : snapshot[c] # 0}
    /\ late' = late \cup resaved
    /\ UNCHANGED <<m, reads, raw, disk, editor, scene, foci, primed, saves, resaved>>

\* A streamer with no index takes one as new, else it replaces the one it has.
Adopted(index) == IF m.index = {} THEN Fresh(index) ELSE ReplaceIndex(m, index)

\* Another scene's terrain in the same world: adoptTerrain.
OpenScene(s) ==
    /\ editor /\ shaped < MaxShaped /\ s # scene
    /\ scene' = s /\ m' = Adopted(Rows(s)) /\ primed' = (primed \/ Rows(s) = {})
    /\ field' = [c \in Chunk |-> 0] /\ held' = [c \in Chunk |-> None]
    /\ snapshot' = field' /\ shaped' = shaped + 1 /\ worked' = {}
    /\ late' = late \cup {c \in m.index : m.state[c] # "Unloaded"} \cup BeingRead
    /\ UNCHANGED <<reads, raw, disk, editor, foci, saves, resaved>>

\* Mutant of Untouched: terrain is compared by object too.
SameObject(c) == held[c] # None /\ field[c] = held[c].v /\ held[c].own

\* A cell is what it brought: the same content, and for blocks the same object.
Untouched(c) ==
    /\ held[c] # None /\ field[c] = held[c].v
    /\ c \in Terrain \/ held[c].own

\* saveTerrain: the cells that differ from what was brought are written, all
\* but those of `unwritten`, and one dug to nothing loses its file.
ToWrite == {c \in Chunk : field[c] # 0 /\ ~Untouched(c)}
DugOut  == {c \in Chunk : field[c] = 0 /\ held[c] # None}

\* Mutant of HeldAfter: what could not be written counts as written.
HeldAsIfWritten(written) ==
    [c \in Chunk |-> IF c \in ToWrite THEN [v |-> field[c], own |-> TRUE]
                     ELSE IF c \in DugOut THEN None ELSE held[c]]
HeldAfter(written) ==
    [c \in Chunk |-> IF c \in written THEN [v |-> field[c], own |-> TRUE]
                     ELSE IF c \in DugOut THEN None ELSE held[c]]
Save(unwritten) ==
    /\ editor /\ saves < MaxSaves /\ unwritten \subseteq ToWrite
    /\ LET written == ToWrite \ unwritten
       IN  /\ disk' = [disk EXCEPT ![scene] = [c \in Chunk |->
                           IF c \in written THEN field[c] ELSE IF c \in DugOut THEN 0 ELSE @[c]]]
           /\ held' = HeldAfter(written)
           /\ worked' = worked \ {c \in written : m.state[c] = "Resident"}
           /\ resaved' = resaved \cup (written \cap (BeingRead \cup In(m, "Decoded")))
    /\ m' = Adopted((m.index \ DugOut) \cup (ToWrite \ unwritten))
    /\ saves' = saves + 1
    /\ UNCHANGED <<reads, raw, field, editor, scene, snapshot, foci, primed, shaped, late>>

-----------------------------------------------------------------------------
(* A game: a hot reload brings a world with none of its ground (setWorld).  *)

Reload ==
    /\ ~editor /\ shaped < MaxShaped
    /\ field' = [c \in Chunk |-> 0] /\ held' = [c \in Chunk |-> None]
    /\ m' = ForgetResidency(m) /\ primed' = (m.index = {})
    /\ shaped' = shaped + 1 /\ worked' = {} /\ late' = late \cup BeingRead
    /\ UNCHANGED <<reads, raw, disk, editor, scene, snapshot, foci, saves, resaved>>

-----------------------------------------------------------------------------
(* One frame's pump.                                                       *)

\* The first k reads, delivered; what was read waits undecoded.
Good(k) == {i \in LastOf(reads, k) : reads[i].io = "Ready"}
Drained(k) == Delivered(m, {reads[i].chunk : i \in Good(k)},
                           {reads[i].chunk : i \in LastOf(reads, k) \ Good(k)})
RawAfter(k) ==
    [c \in Chunk |-> IF \E i \in Good(k) : reads[i].chunk = c
                     THEN reads[CHOOSE i \in Good(k) : reads[i].chunk = c].v ELSE raw[c]]

\* evict: a cell that is not what it brought is left, and let go of.
FieldWithout(S) == [c \in Chunk |-> IF c \in S /\ Untouched(c) THEN 0 ELSE field[c]]
HeldWithout(S)  == [c \in Chunk |-> IF c \in S THEN None ELSE held[c]]

\* Mutant of FieldWith: the file's ground wins.
FieldFromFile(f, S, v) == [c \in Chunk |-> IF c \in S THEN v[c] ELSE f[c]]

\* materialize: shareFrom lets what the field has win.
FieldWith(f, S, v)   == [c \in Chunk |-> IF c \in S /\ f[c] = 0 THEN v[c] ELSE f[c]]
HeldWith(f, h, S, v) == [c \in Chunk |-> IF c \in S THEN [v |-> v[c], own |-> f[c] = 0] ELSE h[c]]

Begun(S) == [n \in 1..Cardinality(S) |->
                [chunk |-> InOrder(S, foci)[n], io |-> "Pending", scene |-> scene, v |-> 0]]

Pump(k, n, r, refused) ==
    \E scored \in {Rescored(Drained(k), foci)} :
    \E out \in {Leaving(scored)} :
    \E evicted \in {Evicted(scored, out)} :
    \E build \in {ToBuild(evicted, foci, n)} :
    \E start \in {ToRead(evicted, foci, n, r)} :
    \E broken \in {{c \in build : RawAfter(k)[c] = 0}} :
    \E left \in {FieldWithout(out)} :
        /\ m.index # {} /\ refused \subseteq start
        /\ m' = StartedBut(Built(evicted, build, broken), start, refused)
        /\ reads' = StillOut(reads, k) \o Begun(start \ refused)
        /\ raw' = [c \in Chunk |-> IF c \in build THEN 0 ELSE RawAfter(k)[c]]
        /\ field' = FieldWith(left, build \ broken, RawAfter(k))
        /\ held' = HeldWith(left, HeldWithout(out), build \ broken, RawAfter(k))
        /\ primed' = (primed \/ foci = {} \/ MinimumRingResident(m', foci))
        /\ UNCHANGED <<disk, editor, scene, snapshot, foci, shaped, saves, worked, resaved, late>>

AnyFrame == \E k \in 0..Len(reads), n \in 0..Cardinality(Chunk), r \in 0..MaxInFlight :
                \E refused \in SUBSET Chunk : Pump(k, n, r, refused)
FullFrame == Pump(Len(reads), Cardinality(Chunk), MaxInFlight, {})

ReadOf(c) == \E i \in DOMAIN reads : \E ok \in BOOLEAN : reads[i].chunk = c /\ ReadEnds(i, ok)

Next ==
    \/ \E c \in Chunk : ReadOf(c)
    \/ \E f \in Foci : MoveFocus(f)
    \/ \E c \in Chunk, v \in Version \cup {0} : Shape(c, v)
    \/ Undo \/ (\E s \in Scene : OpenScene(s)) \/ (\E S \in SUBSET Chunk : Save(S))
    \/ Reload \/ AnyFrame
Spec == Init /\ [][Next]_vars
FairSpec == Spec /\ WF_vars(FullFrame) /\ \A c \in Chunk : WF_vars(ReadOf(c))

-----------------------------------------------------------------------------
TypeOK ==
    /\ m \in Managers /\ m.inFlight \in 0..MaxInFlight
    /\ field \in [Chunk -> Nat] /\ raw \in [Chunk -> Nat]
    /\ held \in [Chunk -> [v : Nat, own : BOOLEAN]]
    /\ \A i \in DOMAIN reads : reads[i].chunk \in Chunk /\ reads[i].io \in {"Pending", "Ready", "Failed"}

\* The ground as it is to whoever shaped it: what the field holds, nothing where
\* a loaded cell was dug out, and elsewhere what the file will bring.  Cells read
\* for another scene are outside the promise.
Shown == [c \in Chunk |-> IF c \in late THEN 0
                          ELSE IF field[c] # 0 THEN field[c]
                          ELSE IF held[c] # None THEN 0 ELSE disk[scene][c]]
Promise == INSTANCE Ground WITH Cell <- Chunk, ground <- Shown
\* Streaming, and saving, never change the ground.
ImplementsGround == Promise!Spec

\* Where the manager takes a cell for resident, its ground is there and held:
\* otherwise it is a hole nothing fills.
HasGround(c) == m.state[c] = "Resident" => held[c] # None /\ (field[c] # 0 \/ MayDigOut)
ResidentHasGround == \A c \in Chunk \ late : HasGround(c)

\* The same of every cell, whatever scene was open before.
NoHoles == \A c \in Chunk : HasGround(c)

\* Ground that nothing holds, and nothing will let go of, is somebody's work.
OnlyWorkStays == \A c \in Chunk \ late : field[c] # 0 /\ held[c] = None => c \in worked

\* Ground and what holds it agree, both ways.
GroundIsHeld == TypeOK /\ ResidentHasGround /\ OnlyWorkStays

\* A cell the next save would leave as unchanged is what its file holds.
UnchangedIsSaved ==
    editor => \A c \in Chunk \ late : Untouched(c) => disk[scene][c] = field[c]

\* The simulation stops waiting for the ground, unless a cell it needs failed.
GroundComes ==
    \A f \in Foci : <>[](foci = f) =>
        <>(primed \/ \E c \in m.index : Within(c, f, MinRadius) /\ m.state[c] = "Failed")

=============================================================================
