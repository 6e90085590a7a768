------------------------ MODULE FieldStreamingProofs ------------------------
(* Theorems about FieldStreaming, for any cells, contents, scenes, foci and  *)
(* budget, and any number of edits, saves and reloads.                       *)
EXTENDS FieldStreaming, SublistProofs, SequenceTheorems

-----------------------------------------------------------------------------
(* The inductive invariant.                                                  *)

ReadOfField == [chunk : Chunk, io : {"Pending", "Ready", "Failed"}, scene : Scene, v : Nat]

TypesOK ==
    /\ TypeOK /\ reads \in Seq(ReadOfField)
    /\ disk \in [Scene -> [Chunk -> Nat]] /\ scene \in Scene /\ editor \in BOOLEAN
    /\ snapshot \in [Chunk -> Nat] /\ foci \in Foci /\ shaped \in Nat /\ resaved \subseteq Chunk

\* The index names the cells that have a file, and the manager is somewhere with
\* those only.
IndexIsRows ==
    /\ m.index = Rows(scene)
    /\ \A c \in Chunk : m.state[c] # "Unloaded" => c \in m.index

\* What is held is ground.
HeldIsGround == \A c \in Chunk : held[c].v = 0 => held[c] = None

\* A game saves nothing.
GameSavesNothing == ~editor => resaved = {}

\* A cell nothing has happened to has one read at most, for this scene, and only
\* while it is loading.
ReadsAreOfScene == \A i \in DOMAIN reads : reads[i].chunk \notin late => reads[i].scene = scene
OneRead ==
    \A i \in DOMAIN reads : reads[i].chunk \notin late \cup resaved =>
        /\ reads[i].chunk \in m.index => m.state[reads[i].chunk] = "Loading"
        /\ \A j \in DOMAIN reads : reads[j].chunk = reads[i].chunk => j = i

\* What was read of it, what has been decoded of it and what is held of it is what
\* its file holds.
FreshRead ==
    \A i \in DOMAIN reads :
        reads[i].chunk \in m.index \ (late \cup resaved) /\ reads[i].io = "Ready"
            => reads[i].v = disk[scene][reads[i].chunk]
FreshRaw ==
    \A c \in Chunk \ (late \cup resaved) : m.state[c] = "Decoded" => raw[c] = disk[scene][c]
FreshHeld ==
    \A c \in Chunk \ (late \cup resaved) : held[c] # None => held[c].v = disk[scene][c]

\* A cell that was saved while its old file was on its way has what was saved, or
\* has been dropped since.  The old ground arrives once at most, before any other,
\* and finds the cell's ground there, which counts as work until it has been
\* written over what the old ground left.
SavedIsThere ==
    \A c \in resaved \ late :
        /\ field[c] \in {0, disk[scene][c]}
        /\ field[c] = 0 => held[c] = None
        /\ m.state[c] = "Decoded" /\ raw[c] # disk[scene][c] => field[c] # 0 /\ c \in worked
OldIsFirst ==
    \A i \in DOMAIN reads : LET c == reads[i].chunk IN
        c \in resaved \ late /\ reads[i].io = "Ready" /\ reads[i].v # disk[scene][c] =>
            /\ m.state[c] \notin {"Decoded", "Resident"} /\ field[c] # 0 /\ c \in worked
            /\ \A j \in DOMAIN reads : reads[j].chunk = c => i <= j

\* In a game only what has been loaded is held; and what is loaded is held.
GameHolds == ~editor => \A c \in Chunk \ late : held[c] # None => m.state[c] = "Resident"
ResidentIsHeld == \A c \in Chunk \ late : m.state[c] = "Resident" => held[c] # None

\* What is held is there, or was dug out; and ground that is not what was brought
\* is somebody's work.
HeldIsThere == \A c \in Chunk \ late : held[c] # None => field[c] # 0 \/ MayDigOut
TouchedIsWork == \A c \in Chunk \ late : field[c] # 0 /\ ~Untouched(c) => c \in worked

Inv ==
    /\ TypesOK /\ IndexIsRows /\ HeldIsGround /\ GameSavesNothing
    /\ ReadsAreOfScene /\ OneRead /\ FreshRead /\ FreshRaw /\ FreshHeld
    /\ SavedIsThere /\ OldIsFirst
    /\ GameHolds /\ ResidentIsHeld /\ HeldIsThere /\ TouchedIsWork


-----------------------------------------------------------------------------
(* The manager, over any index.                                              *)

\* A manager within its budget.
Sound(mm) == mm \in Managers /\ mm.inFlight \in 0..MaxInFlight

\* What a chunk becomes when it is told of: the chunks of L decode and those of F
\* fail, as far as the index names them.
Moved(d, mm, L, F) ==
    \A c \in Chunk : d.state[c] = IF c \in F \cap mm.index THEN "Failed"
                                  ELSE IF c \in L \cap mm.index THEN "Decoded" ELSE mm.state[c]

\* The chunks of S are in state s, and nothing else has changed.
Became(d, mm, S, s) ==
    /\ d.index = mm.index /\ d.wanted = mm.wanted
    /\ \A c \in Chunk : d.state[c] = IF c \in S THEN s ELSE mm.state[c]

LEMMA ChunksAreFinite ==
    ASSUME NEW S \in SUBSET Chunk
    PROVE  S \in SUBSET Int /\ IsFiniteSet(S) /\ Cardinality(S) \in Nat
  BY StreamingAssumption, FS_Subset, FS_CardinalityType

LEMMA FociAreFinite ==
    ASSUME foci \in Foci PROVE foci \in SUBSET Int /\ IsFiniteSet(foci)
  BY FieldAssumption

LEMMA LessIs ==
    ASSUME NEW n \in Nat, NEW k \in Nat
    PROVE  Less(n, k) \in Nat /\ Less(n, k) <= n /\ (k <= n => Less(n, k) = n - k)
  BY DEF Less

LEMMA LessStaysBelow ==
    ASSUME NEW n \in 0..MaxInFlight, NEW k \in Nat
    PROVE  Less(n, k) \in 0..MaxInFlight /\ Less(n, k) \in Nat
  BY StreamingAssumption DEF Less

LEMMA PutIs ==
    ASSUME NEW mm \in Managers, NEW S \in SUBSET Chunk, NEW s \in ChunkState
    PROVE  /\ Put(mm, S, s) \in Managers /\ Became(Put(mm, S, s), mm, S, s)
           /\ Put(mm, S, s).inFlight = mm.inFlight /\ Put(mm, S, s).bytes = mm.bytes
<1>1. mm.state \in [Chunk -> ChunkState]
  BY DEF Managers
<1>2. [c \in Chunk |-> IF c \in S THEN s ELSE mm.state[c]] \in [Chunk -> ChunkState]
  BY <1>1
<1>3. Put(mm, S, s) = [mm EXCEPT !.state = [c \in Chunk |-> IF c \in S THEN s ELSE mm.state[c]]]
  BY DEF Put
<1> QED
  BY <1>2, <1>3 DEF Managers, Became

LEMMA DeliveredIs ==
    ASSUME NEW mm, Sound(mm), NEW L \in SUBSET Chunk, NEW F \in SUBSET Chunk
    PROVE  LET d == Delivered(mm, L, F)
           IN  Sound(d) /\ d.index = mm.index /\ d.wanted = mm.wanted /\ Moved(d, mm, L, F)
<1> DEFINE n == Cardinality((L \cup F) \cap In(mm, "Loading"))
           p == Put(mm, L \cap mm.index, "Decoded")
           q == Put(p, F \cap mm.index, "Failed")
           d == Delivered(mm, L, F)
<1>1. mm \in Managers /\ mm.inFlight \in 0..MaxInFlight
  BY DEF Sound
<1>2. L \cap mm.index \in SUBSET Chunk /\ F \cap mm.index \in SUBSET Chunk
  OBVIOUS
<1>3. p \in Managers /\ Became(p, mm, L \cap mm.index, "Decoded") /\ p.inFlight = mm.inFlight
  BY <1>1, <1>2, PutIs DEF ChunkState
<1> HIDE DEF p
<1>4. q \in Managers /\ Became(q, p, F \cap mm.index, "Failed") /\ q.inFlight = mm.inFlight
  BY <1>2, <1>3, PutIs DEF ChunkState
<1>5. d = [q EXCEPT !.inFlight = Less(q.inFlight, n)]
  BY DEF Delivered, p
<1>6. (L \cup F) \cap In(mm, "Loading") \in SUBSET Chunk
  OBVIOUS
<1>7. n \in Nat
  BY <1>6, ChunksAreFinite
<1> HIDE DEF n, q
<1>8. Less(q.inFlight, n) \in 0..MaxInFlight /\ Less(q.inFlight, n) \in Nat
  BY <1>1, <1>4, <1>7, LessStaysBelow
<1>9. /\ d \in Managers /\ d.inFlight = Less(q.inFlight, n) /\ d.state = q.state
      /\ d.index = q.index /\ d.wanted = q.wanted
  <2> HIDE DEF d
  <2> QED
    BY <1>4, <1>5, <1>8 DEF Managers
<1> HIDE DEF d
<1>10. Moved(d, mm, L, F)
  BY <1>3, <1>4, <1>9 DEF Moved, Became
<1>11. d.index = mm.index /\ d.wanted = mm.wanted
  BY <1>3, <1>4, <1>9 DEF Became
<1> QED
  BY <1>8, <1>9, <1>10, <1>11 DEF Sound, d

\* Only what the index names is wanted.
LEMMA RescoredIs ==
    ASSUME NEW mm, Sound(mm), NEW focus
    PROVE  LET d == Rescored(mm, focus)
           IN  /\ Sound(d) /\ d.index = mm.index /\ d.state = mm.state
               /\ \A c \in Chunk : d.wanted[c] => c \in mm.index
<1> DEFINE d == Rescored(mm, focus)
           w == [c \in Chunk |-> /\ c \in mm.index
                                 /\ \/ focus = {}
                                    \/ Within(c, focus, LoadRadius)
                                    \/ mm.wanted[c] /\ Within(c, focus, DropRadius)]
<1>1. mm \in Managers /\ mm.inFlight \in 0..MaxInFlight
  BY DEF Sound
<1>2. w \in [Chunk -> BOOLEAN] /\ \A c \in Chunk : w[c] => c \in mm.index
  OBVIOUS
<1>3. d = [mm EXCEPT !.wanted = w]
  BY DEF Rescored
<1> HIDE DEF w
<1>4. /\ d \in Managers /\ d.index = mm.index /\ d.state = mm.state
      /\ d.inFlight = mm.inFlight /\ d.wanted = w
  <2> HIDE DEF d
  <2> QED
    BY <1>1, <1>2, <1>3 DEF Managers
<1> HIDE DEF d
<1> QED
  BY <1>1, <1>2, <1>4 DEF Sound, d

LEMMA EvictedIs ==
    ASSUME NEW mm, Sound(mm), NEW S \in SUBSET Chunk
    PROVE  Sound(Evicted(mm, S)) /\ Became(Evicted(mm, S), mm, S, "Unloaded")
           /\ Evicted(mm, S).inFlight = mm.inFlight
<1> DEFINE d == Evicted(mm, S)
           p == Put(mm, S, "Unloaded")
<1>1. mm \in Managers /\ mm.inFlight \in 0..MaxInFlight
  BY DEF Sound
<1>2. p \in Managers /\ Became(p, mm, S, "Unloaded") /\ p.inFlight = mm.inFlight
  BY <1>1, PutIs DEF ChunkState
<1>3. d = [p EXCEPT !.bytes = Less(p.bytes, Cardinality(S))]
  BY DEF Evicted
<1> HIDE DEF p
<1>4. Less(p.bytes, Cardinality(S)) \in Nat
  BY <1>2, ChunksAreFinite, LessIs DEF Managers
<1>5. /\ d \in Managers /\ d.inFlight = p.inFlight /\ d.state = p.state
      /\ d.index = p.index /\ d.wanted = p.wanted
  <2> HIDE DEF d
  <2> QED
    BY <1>2, <1>3, <1>4 DEF Managers
<1> HIDE DEF d
<1> QED
  BY <1>1, <1>2, <1>5 DEF Sound, Became, d

\* What is built is resident, and what does not decode has failed.
Put2(d, mm, S, broken) ==
    /\ d.index = mm.index /\ d.wanted = mm.wanted
    /\ \A c \in Chunk : d.state[c] = IF c \in S \cap broken THEN "Failed"
                                     ELSE IF c \in S THEN "Resident" ELSE mm.state[c]

LEMMA BuiltIs ==
    ASSUME NEW mm, Sound(mm), NEW S \in SUBSET Chunk, NEW broken \in SUBSET Chunk
    PROVE  Sound(Built(mm, S, broken)) /\ Put2(Built(mm, S, broken), mm, S, broken)
           /\ Built(mm, S, broken).inFlight = mm.inFlight
<1> DEFINE d == Built(mm, S, broken)
           p == Put(mm, S \ broken, "Resident")
           q == Put(p, S \cap broken, "Failed")
           k == Cardinality(S \ broken)
<1>1. mm \in Managers /\ mm.inFlight \in 0..MaxInFlight
  BY DEF Sound
<1>2. S \ broken \in SUBSET Chunk /\ S \cap broken \in SUBSET Chunk
  OBVIOUS
<1>3. p \in Managers /\ Became(p, mm, S \ broken, "Resident") /\ p.inFlight = mm.inFlight
  BY <1>1, <1>2, PutIs DEF ChunkState
<1> HIDE DEF p
<1>4. q \in Managers /\ Became(q, p, S \cap broken, "Failed") /\ q.inFlight = mm.inFlight
  BY <1>2, <1>3, PutIs DEF ChunkState
<1>5. d = [q EXCEPT !.bytes = q.bytes + k]
  BY DEF Built, p
<1>6. k \in Nat
  BY <1>2, ChunksAreFinite
<1> HIDE DEF q, k
<1>7. q.bytes + k \in Nat
  BY <1>4, <1>6 DEF Managers
<1>8. /\ d \in Managers /\ d.inFlight = q.inFlight /\ d.state = q.state
      /\ d.index = q.index /\ d.wanted = q.wanted
  <2> HIDE DEF d
  <2> QED
    BY <1>4, <1>5, <1>7 DEF Managers
<1> HIDE DEF d
<1>9. Put2(d, mm, S, broken)
  BY <1>3, <1>4, <1>8 DEF Put2, Became
<1> QED
  BY <1>1, <1>4, <1>8, <1>9 DEF Sound, d

\* What fits is loading, and what is refused has failed.
LEMMA StartedButIs ==
    ASSUME NEW mm, Sound(mm), NEW S \in SUBSET Chunk, NEW refused \in SUBSET S,
           mm.inFlight + Cardinality(S) <= MaxInFlight
    PROVE  LET d == StartedBut(mm, S, refused)
           IN  /\ Sound(d) /\ d.index = mm.index
               /\ \A c \in Chunk : d.state[c] = IF c \in refused \cap mm.index THEN "Failed"
                                                ELSE IF c \in S THEN "Loading" ELSE mm.state[c]
<1> DEFINE t == Started(mm, S)
           d == StartedBut(mm, S, refused)
           p == Put(mm, S, "Loading")
           k == Cardinality(S)
<1>1. mm \in Managers /\ mm.inFlight \in 0..MaxInFlight /\ MaxInFlight \in Nat
  BY StreamingAssumption DEF Sound
<1>2. p \in Managers /\ Became(p, mm, S, "Loading") /\ p.inFlight = mm.inFlight
  BY <1>1, PutIs DEF ChunkState
<1>3. t = [p EXCEPT !.inFlight = p.inFlight + k]
  BY DEF Started
<1>4. k \in Nat /\ mm.inFlight + k <= MaxInFlight
  BY ChunksAreFinite
<1> HIDE DEF p, k
<1>5. p.inFlight + k \in 0..MaxInFlight /\ p.inFlight + k \in Nat
  BY <1>1, <1>2, <1>4
<1>6. /\ t \in Managers /\ t.inFlight = p.inFlight + k /\ t.state = p.state
      /\ t.index = p.index /\ t.wanted = p.wanted
  <2> HIDE DEF t
  <2> QED
    BY <1>2, <1>3, <1>5 DEF Managers
<1>7. d = Delivered(t, {}, refused)
  BY DEF StartedBut
<1> HIDE DEF t, d
<1>8. Sound(t)
  BY <1>5, <1>6 DEF Sound
<1>9. Sound(d) /\ d.index = t.index /\ Moved(d, t, {}, refused)
  <2> DEFINE none == {}
  <2>1. none \in SUBSET Chunk /\ refused \in SUBSET Chunk /\ d = Delivered(t, none, refused)
    BY <1>7
  <2> HIDE DEF none
  <2>2. Sound(d) /\ d.index = t.index /\ Moved(d, t, none, refused)
    BY <1>8, <2>1, DeliveredIs
  <2> QED
    BY <2>2 DEF none
<1>10. \A c \in Chunk : d.state[c] = IF c \in refused \cap mm.index THEN "Failed"
                                     ELSE IF c \in S THEN "Loading" ELSE mm.state[c]
  BY <1>2, <1>6, <1>9 DEF Moved, Became
<1>11. d.index = mm.index
  BY <1>2, <1>6, <1>9 DEF Became
<1> QED
  BY <1>9, <1>10, <1>11 DEF d

LEMMA FreshIs ==
    ASSUME NEW index \in SUBSET Chunk
    PROVE  /\ Sound(Fresh(index)) /\ Fresh(index).index = index
           /\ \A c \in Chunk : Fresh(index).state[c] = "Unloaded"
<1> DEFINE d == Fresh(index)
<1>1. /\ d \in Managers /\ d.index = index /\ d.inFlight = 0
      /\ \A c \in Chunk : d.state[c] = "Unloaded"
  BY DEF Fresh, Managers, ChunkState
<1> HIDE DEF d
<1>2. 0 \in 0..MaxInFlight
  BY StreamingAssumption
<1> QED
  BY <1>1, <1>2 DEF Sound, d

\* A cell the new index names stays what it is.
LEMMA ReplacedIs ==
    ASSUME NEW mm, Sound(mm), NEW index \in SUBSET Chunk
    PROVE  LET d == ReplaceIndex(mm, index)
           IN  /\ Sound(d) /\ d.index = index
               /\ \A c \in Chunk : d.state[c] = IF c \in mm.index \ index THEN "Unloaded" ELSE mm.state[c]
<1> DEFINE d == ReplaceIndex(mm, index)
           gone == mm.index \ index
           p == Put(mm, gone, "Unloaded")
           w == [c \in Chunk |-> c \in index /\ p.wanted[c]]
           a == Less(p.inFlight, Cardinality(gone \cap In(mm, "Loading")))
           b == Less(p.bytes, Cardinality(gone \cap In(mm, "Resident")))
<1>1. mm \in Managers /\ mm.inFlight \in 0..MaxInFlight /\ gone \in SUBSET Chunk
  BY DEF Sound, Managers
<1>2. p \in Managers /\ Became(p, mm, gone, "Unloaded") /\ p.inFlight = mm.inFlight
  BY <1>1, PutIs DEF ChunkState
<1>3. d = [p EXCEPT !.index = index, !.wanted = w, !.inFlight = a, !.bytes = b]
  BY DEF ReplaceIndex
<1> HIDE DEF p
<1>4. w \in [Chunk -> BOOLEAN]
  BY <1>2 DEF Managers
<1>5. /\ gone \cap In(mm, "Loading") \in SUBSET Chunk
      /\ gone \cap In(mm, "Resident") \in SUBSET Chunk
  BY <1>1
<1>6. a \in 0..MaxInFlight /\ a \in Nat
  BY <1>1, <1>2, <1>5, ChunksAreFinite, LessStaysBelow
<1>7. b \in Nat
  BY <1>2, <1>5, ChunksAreFinite, LessIs DEF Managers
<1> HIDE DEF w, a, b, gone
<1>8. d \in Managers /\ d.inFlight = a /\ d.state = p.state /\ d.index = index
  <2> HIDE DEF d
  <2> QED
    BY <1>2, <1>3, <1>4, <1>6, <1>7 DEF Managers
<1> HIDE DEF d
<1> QED
  BY <1>2, <1>6, <1>8 DEF Sound, Became, d, gone

\* What a frame asks for is wanted, and fits the room there is.
LEMMA ToReadFits ==
    ASSUME NEW mm, Sound(mm), NEW focus \in SUBSET Int, IsFiniteSet(focus), NEW n \in Nat, NEW k \in Nat
    PROVE  LET S == ToRead(mm, focus, n, k)
           IN  /\ S \in SUBSET Chunk /\ mm.inFlight + Cardinality(S) <= MaxInFlight
               /\ \A c \in S : mm.state[c] = "Unloaded" /\ mm.wanted[c]
<1> DEFINE W == Waiting(mm)
           V == Nearest(W, n, focus)
           N == V \cap In(mm, "Unloaded")
           room == Less(MaxInFlight, mm.inFlight)
           j == IF k < room THEN k ELSE room
           S == ToRead(mm, focus, n, k)
<1>1. mm.inFlight \in 0..MaxInFlight /\ MaxInFlight \in Nat
  BY StreamingAssumption DEF Sound
<1>2. room \in Nat /\ room = MaxInFlight - mm.inFlight
  BY <1>1 DEF Less
<1> HIDE DEF room
<1>3. j \in Nat /\ j <= room
  BY <1>2
<1>4. W \in SUBSET Chunk /\ \A c \in W : mm.wanted[c]
  BY DEF Waiting, In
<1> HIDE DEF W
<1>5. V \in SUBSET W
  BY <1>4, ChunksAreFinite, NearestIsFew
<1> HIDE DEF V
<1>6. N \in SUBSET Chunk /\ \A c \in N : mm.state[c] = "Unloaded" /\ mm.wanted[c]
  BY <1>4, <1>5 DEF In
<1>7. S = Nearest(N, j, focus)
  BY DEF ToRead, room, W, V
<1> HIDE DEF N, j
<1>8. Nearest(N, j, focus) \in SUBSET N /\ Cardinality(Nearest(N, j, focus)) \in 0..j
  BY <1>3, <1>6, ChunksAreFinite, NearestIsFew
<1> DEFINE q == Cardinality(S)
<1>9. S \in SUBSET N /\ q \in 0..j
  BY <1>7, <1>8
<1> HIDE DEF q
<1>10. mm.inFlight + q <= MaxInFlight
  BY <1>1, <1>2, <1>3, <1>9
<1> QED
  BY <1>6, <1>9, <1>10 DEF q

-----------------------------------------------------------------------------
(* The drain.                                                                *)

LEMMA ReadsAreTyped ==
    ASSUME TypesOK
    PROVE  /\ DOMAIN reads = 1..Len(reads) /\ Len(reads) \in Nat
           /\ \A i \in DOMAIN reads :
                  /\ reads[i] \in ReadOfField /\ reads[i].chunk \in Chunk /\ reads[i].v \in Nat
                  /\ reads[i].scene \in Scene /\ reads[i].io \in {"Pending", "Ready", "Failed"}
<1>1. reads \in Seq(ReadOfField)
  BY DEF TypesOK
<1>2. \A i \in DOMAIN reads : reads[i] \in ReadOfField
  BY <1>1
<1> QED
  BY <1>1, <1>2 DEF ReadOfField

\* One outcome is kept of each chunk.
LEMMA LastIsOne ==
    ASSUME NEW k, NEW i \in LastOf(reads, k), NEW j \in LastOf(reads, k),
           DOMAIN reads \in SUBSET Int, reads[i].chunk = reads[j].chunk
    PROVE  i = j
<1>1. i \in Ended(reads, k) /\ j \in Ended(reads, k) /\ i \in Int /\ j \in Int
  BY DEF LastOf, Ended
<1>2. ~(i > j) /\ ~(j > i)
  BY <1>1 DEF LastOf
<1> QED
  BY <1>1, <1>2

\* A cell no read of which has ended stays what it is; else the last outcome decides.
Untold(c, k) ==
    /\ \A i \in Ended(reads, k) : reads[i].chunk # c
    /\ Drained(k).state[c] = m.state[c] /\ RawAfter(k)[c] = raw[c]
ToldOf(c, k) ==
    /\ RawAfter(k)[c] \in Nat
    /\ Drained(k).state[c] = "Decoded" =>
           \E i \in DOMAIN reads : /\ reads[i].chunk = c /\ reads[i].io = "Ready"
                                   /\ RawAfter(k)[c] = reads[i].v
    /\ \E i \in Ended(reads, k) : reads[i].chunk = c
    /\ c \in m.index => Drained(k).state[c] \in {"Decoded", "Failed"}
    /\ c \notin m.index => Drained(k).state[c] = m.state[c]

LEMMA DrainedIs ==
    ASSUME TypesOK, IndexIsRows, NEW k \in Nat
    PROVE  /\ Sound(Drained(k)) /\ Drained(k).index = m.index
           /\ \A c \in Chunk : Untold(c, k) \/ ToldOf(c, k)
<1> DEFINE last == LastOf(reads, k)
           L == {reads[i].chunk : i \in Good(k)}
           F == {reads[i].chunk : i \in last \ Good(k)}
           d == Drained(k)
<1>1. /\ DOMAIN reads = 1..Len(reads) /\ Len(reads) \in Nat
      /\ \A i \in DOMAIN reads : reads[i].chunk \in Chunk /\ reads[i].v \in Nat
  BY ReadsAreTyped
<1>2. DOMAIN reads \in SUBSET Int
  BY <1>1
<1>3. last \in SUBSET DOMAIN reads /\ Good(k) \in SUBSET last /\ last \in SUBSET Ended(reads, k)
  BY DEF LastOf, Ended, Good
<1>4. L \in SUBSET Chunk /\ F \in SUBSET Chunk
  BY <1>1, <1>3
<1>5. Sound(m)
  BY DEF TypesOK, TypeOK, Sound
<1>6. d = Delivered(m, L, F)
  BY DEF Drained
<1>7. Sound(d) /\ d.index = m.index /\ Moved(d, m, L, F)
  <2> HIDE DEF L, F, d
  <2> QED
    BY <1>4, <1>5, <1>6, DeliveredIs
<1>8. \A c \in Chunk : RawAfter(k)[c] =
          IF \E i \in Good(k) : reads[i].chunk = c
          THEN reads[CHOOSE i \in Good(k) : reads[i].chunk = c].v ELSE raw[c]
  BY DEF RawAfter
<1>9. \A i \in Good(k) : reads[i].io = "Ready"
  BY DEF Good
<1>10. \A i \in Ended(reads, k) : reads[i].chunk \in L \cup F
  <2> SUFFICES ASSUME NEW i \in Ended(reads, k) PROVE reads[i].chunk \in L \cup F
    OBVIOUS
  <2>1. reads \in Seq(ReadOfField)
    BY DEF TypesOK
  <2>2. reads[i].chunk \in Told(reads, k)
    BY <2>1, LastIsTold
  <2>3. PICK j \in last : reads[j].chunk = reads[i].chunk
    BY <2>2 DEF Told
  <2> QED
    BY <2>3
<1>11. \A i \in Good(k), j \in last \ Good(k) : reads[i].chunk # reads[j].chunk
  <2> SUFFICES ASSUME NEW i \in Good(k), NEW j \in last \ Good(k), reads[i].chunk = reads[j].chunk
               PROVE  FALSE
    OBVIOUS
  <2>1. i = j
    BY <1>2, <1>3, LastIsOne
  <2> QED
    BY <2>1
<1>12. L \cap F = {}
  BY <1>11
<1>13. raw \in [Chunk -> Nat] /\ \A c \in Chunk : c \notin m.index => m.state[c] # "Decoded"
  BY DEF TypesOK, TypeOK, IndexIsRows
<1> SUFFICES ASSUME NEW c \in Chunk PROVE Untold(c, k) \/ ToldOf(c, k)
  BY <1>7 DEF d
<1>14. CASE c \in L
  <2> DEFINE i == CHOOSE i \in Good(k) : reads[i].chunk = c
  <2>1. i \in Good(k) /\ reads[i].chunk = c
    BY <1>14
  <2>2. RawAfter(k)[c] = reads[i].v
    BY <1>8, <2>1
  <2> HIDE DEF i
  <2>3. i \in DOMAIN reads /\ i \in Ended(reads, k) /\ reads[i].io = "Ready"
    BY <1>3, <1>9, <2>1
  <2>4. d.state[c] = IF c \in m.index THEN "Decoded" ELSE m.state[c]
    BY <1>7, <1>12, <1>14 DEF Moved
  <2> HIDE DEF L, F, d, last
  <2>5. ToldOf(c, k)
    BY <1>1, <2>1, <2>2, <2>3, <2>4, Zenon DEF ToldOf, d
  <2> QED
    BY <2>5
<1>15. CASE c \in F
  <2>1. RawAfter(k)[c] = raw[c]
    BY <1>8, <1>12, <1>15
  <2>2. PICK i \in last : reads[i].chunk = c
    BY <1>15
  <2>3. d.state[c] = IF c \in m.index THEN "Failed" ELSE m.state[c]
    BY <1>7, <1>15 DEF Moved
  <2>4. ToldOf(c, k)
    BY <1>3, <1>13, <2>1, <2>2, <2>3 DEF ToldOf, d
  <2> QED
    BY <2>4
<1>16. CASE c \notin L \cup F
  <2>1. RawAfter(k)[c] = raw[c]
    BY <1>8, <1>16
  <2>2. d.state[c] = m.state[c]
    BY <1>7, <1>16 DEF Moved
  <2>3. Untold(c, k)
    BY <1>10, <1>16, <2>1, <2>2 DEF Untold, d
  <2> QED
    BY <2>3
<1> QED
  BY <1>14, <1>15, <1>16

-----------------------------------------------------------------------------
(* A frame, stage by stage.                                                  *)

Scored(k)      == Rescored(Drained(k), foci)
Out(k)         == Leaving(Scored(k))
Cleared(k)     == Evicted(Scored(k), Out(k))
Build(k, n)    == ToBuild(Cleared(k), foci, n)
Start(k, n, r) == ToRead(Cleared(k), foci, n, r)
Broken(k, n)   == {c \in Build(k, n) : RawAfter(k)[c] = 0}

LEMMA PumpIs ==
    ASSUME NEW k, NEW n, NEW r, NEW refused, Pump(k, n, r, refused)
    PROVE  /\ refused \subseteq Start(k, n, r)
           /\ m' = StartedBut(Built(Cleared(k), Build(k, n), Broken(k, n)), Start(k, n, r), refused)
           /\ reads' = StillOut(reads, k) \o Begun(Start(k, n, r) \ refused)
           /\ raw' = [c \in Chunk |-> IF c \in Build(k, n) THEN 0 ELSE RawAfter(k)[c]]
           /\ field' = FieldWith(FieldWithout(Out(k)), Build(k, n) \ Broken(k, n), RawAfter(k))
           /\ held' = HeldWith(FieldWithout(Out(k)), HeldWithout(Out(k)),
                               Build(k, n) \ Broken(k, n), RawAfter(k))
           /\ UNCHANGED <<disk, editor, scene, snapshot, foci, shaped, saves, worked, resaved, late>>
<1> DEFINE Done(out, evicted, build, start, broken, left) ==
        /\ m.index # {} /\ refused \subseteq start
        /\ m' = StartedBut(Built(evicted, build, broken), start, refused)
        /\ reads' = StillOut(reads, k) \o Begun(start \ refused)
        /\ raw' = [c \in Chunk |-> IF c \in build THEN 0 ELSE RawAfter(k)[c]]
        /\ field' = FieldWith(left, build \ broken, RawAfter(k))
        /\ held' = HeldWith(left, HeldWithout(out), build \ broken, RawAfter(k))
        /\ primed' = (primed \/ foci = {} \/ MinimumRingResident(m', foci))
        /\ UNCHANGED <<disk, editor, scene, snapshot, foci, shaped, saves, worked, resaved, late>>
<1>1. \E scored \in {Rescored(Drained(k), foci)} :
      \E out \in {Leaving(scored)} :
      \E evicted \in {Evicted(scored, out)} :
      \E build \in {ToBuild(evicted, foci, n)} :
      \E start \in {ToRead(evicted, foci, n, r)} :
      \E broken \in {{c \in build : RawAfter(k)[c] = 0}} :
      \E left \in {FieldWithout(out)} : Done(out, evicted, build, start, broken, left)
  BY Zenon DEF Pump
<1> HIDE DEF Done
<1>2. Done(Out(k), Cleared(k), Build(k, n), Start(k, n, r), Broken(k, n), FieldWithout(Out(k)))
  BY <1>1 DEF Scored, Out, Cleared, Build, Start, Broken
<1> QED
  BY <1>2 DEF Done

\* A frame of k reads, n cells and room for r reads.
AFrame(k, n, r, refused) ==
    /\ Pump(k, n, r, refused)
    /\ k \in Nat /\ n \in Nat /\ r \in Nat

LEMMA FrameExists ==
    ASSUME AnyFrame, TypesOK
    PROVE  \E k, n, r, refused : AFrame(k, n, r, refused)
<1>1. PICK k \in 0..Len(reads), n \in 0..Cardinality(Chunk), r \in 0..MaxInFlight,
           refused \in SUBSET Chunk : Pump(k, n, r, refused)
  BY DEF AnyFrame
<1>2. Len(reads) \in Nat /\ Cardinality(Chunk) \in Nat /\ MaxInFlight \in Nat
  BY StreamingAssumption, ReadsAreTyped, ChunksAreFinite
<1>3. k \in Nat /\ n \in Nat /\ r \in Nat
  BY <1>2
<1> QED
  BY <1>1, <1>3 DEF AFrame

\* What becomes of a cell after the drain: nothing, it does not decode, it is asked
\* for, it is evicted, or it is brought.
Same(c)       == field'[c] = field[c] /\ held'[c] = held[c]
Quiet(c, k)   == Same(c) /\ m'.state[c] = Drained(k).state[c] /\ raw'[c] = RawAfter(k)[c]
Spoilt(c, k)  == Same(c) /\ Drained(k).state[c] = "Decoded" /\ m'.state[c] = "Failed"
Asked(c, k)   == /\ Same(c) /\ Drained(k).state[c] = "Unloaded" /\ c \in m.index
                 /\ m'.state[c] \in {"Loading", "Failed"}
Dropped(c, k) == /\ Drained(k).state[c] = "Resident" /\ m'.state[c] = "Unloaded"
                 /\ field'[c] = IF Untouched(c) THEN 0 ELSE field[c]
                 /\ held'[c] = None
Brought(c, k) == /\ Drained(k).state[c] = "Decoded" /\ m'.state[c] = "Resident"
                 /\ RawAfter(k)[c] # 0
                 /\ field'[c] = IF field[c] = 0 THEN RawAfter(k)[c] ELSE field[c]
                 /\ held'[c] = [v |-> RawAfter(k)[c], own |-> field[c] = 0]
Stages(k) ==
    \A c \in Chunk : Quiet(c, k) \/ Spoilt(c, k) \/ Asked(c, k) \/ Dropped(c, k) \/ Brought(c, k)

\* The cells a read was begun of.
Asks(S, k) == \A c \in S : /\ c \in m.index /\ Drained(k).state[c] = "Unloaded"
                           /\ m'.state[c] = "Loading"

LEMMA FrameIs ==
    ASSUME TypesOK, IndexIsRows, NEW k, NEW n, NEW r, NEW refused, AFrame(k, n, r, refused)
    PROVE  /\ Sound(m') /\ m'.index = m.index /\ Stages(k)
           /\ Start(k, n, r) \ refused \in SUBSET Chunk
           /\ Asks(Start(k, n, r) \ refused, k)
<1> DEFINE b == Drained(k)
           s == Scored(k)
           o == Out(k)
           e == Cleared(k)
           B == Build(k, n)
           X == Broken(k, n)
           S == Start(k, n, r)
           t == Built(e, B, X)
           w == RawAfter(k)
           left == FieldWithout(o)
<1>1. /\ k \in Nat /\ n \in Nat /\ r \in Nat /\ Pump(k, n, r, refused)
      /\ foci \in SUBSET Int /\ IsFiniteSet(foci)
  BY FociAreFinite DEF AFrame, TypesOK
<1>2. Sound(b) /\ b.index = m.index
  BY <1>1, DrainedIs
<1>3. s = Rescored(b, foci) /\ o = Leaving(s) /\ e = Evicted(s, o)
  BY DEF Scored, Out, Cleared
<1>4. B = ToBuild(e, foci, n) /\ S = ToRead(e, foci, n, r) /\ X = {c \in B : w[c] = 0}
  BY DEF Build, Start, Broken
<1>5. /\ refused \subseteq S /\ m' = StartedBut(t, S, refused)
      /\ raw' = [c \in Chunk |-> IF c \in B THEN 0 ELSE w[c]]
      /\ field' = FieldWith(left, B \ X, w)
      /\ held' = HeldWith(left, HeldWithout(o), B \ X, w)
  BY <1>1, PumpIs
<1> HIDE DEF b, s, o, e, B, X, S, w
<1>6. /\ Sound(s) /\ s.index = m.index /\ s.state = b.state
      /\ \A c \in Chunk : s.wanted[c] => c \in m.index
  BY <1>2, <1>3, RescoredIs
<1>7. o \in SUBSET Chunk /\ \A c \in o : b.state[c] = "Resident" /\ ~s.wanted[c]
  BY <1>3, <1>6 DEF Leaving, In
<1>8. Sound(e) /\ Became(e, s, o, "Unloaded")
  BY <1>3, <1>6, <1>7, EvictedIs
<1>9. /\ B \in SUBSET Chunk /\ X \in SUBSET B
      /\ \A c \in B : e.state[c] = "Decoded"
  BY <1>4 DEF ToBuild, In
<1>10. /\ S \in SUBSET Chunk /\ e.inFlight + Cardinality(S) <= MaxInFlight
       /\ \A c \in S : e.state[c] = "Unloaded" /\ e.wanted[c]
  BY <1>1, <1>4, <1>8, ToReadFits
<1>11. Sound(t) /\ Put2(t, e, B, X) /\ t.inFlight = e.inFlight
  BY <1>8, <1>9, BuiltIs
<1> HIDE DEF t
<1>12. /\ Sound(m') /\ m'.index = t.index
       /\ \A c \in Chunk : m'.state[c] = IF c \in refused \cap t.index THEN "Failed"
                                         ELSE IF c \in S THEN "Loading" ELSE t.state[c]
  <2>1. t.inFlight + Cardinality(S) <= MaxInFlight
    BY <1>10, <1>11
  <2>2. refused \in SUBSET S
    BY <1>5
  <2> QED
    BY <1>5, <1>10, <1>11, <2>1, <2>2, StartedButIs
<1>13. t.index = m.index
  BY <1>6, <1>8, <1>11 DEF Became, Put2
<1>14. \A c \in S : c \in m.index /\ b.state[c] = "Unloaded" /\ c \notin o /\ c \notin B
  <2> SUFFICES ASSUME NEW c \in S
               PROVE  c \in m.index /\ b.state[c] = "Unloaded" /\ c \notin o /\ c \notin B
    OBVIOUS
  <2>1. c \in Chunk /\ e.state[c] = "Unloaded" /\ e.wanted[c]
    BY <1>10
  <2>2. s.wanted[c]
    BY <1>8, <2>1 DEF Became
  <2>3. c \in m.index /\ c \notin o
    BY <1>6, <1>7, <2>1, <2>2
  <2>4. b.state[c] = "Unloaded"
    BY <1>6, <1>8, <2>1, <2>3 DEF Became
  <2> QED
    BY <1>9, <2>1, <2>3, <2>4
<1>15. \A c \in B : b.state[c] = "Decoded" /\ c \notin o
  <2> SUFFICES ASSUME NEW c \in B PROVE b.state[c] = "Decoded" /\ c \notin o
    OBVIOUS
  <2>1. c \in Chunk /\ e.state[c] = "Decoded"
    BY <1>9
  <2>2. c \notin o
    BY <1>8, <2>1 DEF Became
  <2> QED
    BY <1>6, <1>8, <2>1, <2>2 DEF Became
<1>16. \A c \in Chunk : left[c] = IF c \in o /\ Untouched(c) THEN 0 ELSE field[c]
  BY DEF FieldWithout
<1>17. \A c \in Chunk : HeldWithout(o)[c] = IF c \in o THEN None ELSE held[c]
  BY DEF HeldWithout
<1> HIDE DEF left
<1>18. \A c \in Chunk : /\ field'[c] = IF c \in B \ X /\ left[c] = 0 THEN w[c] ELSE left[c]
                        /\ held'[c] = IF c \in B \ X THEN [v |-> w[c], own |-> left[c] = 0]
                                      ELSE HeldWithout(o)[c]
                        /\ raw'[c] = IF c \in B THEN 0 ELSE w[c]
  BY <1>5 DEF FieldWith, HeldWith
<1>19. Asks(S \ refused, k)
  BY <1>5, <1>12, <1>14, <1>10 DEF Asks, b
<1>20. ASSUME NEW c \in Chunk
       PROVE  Quiet(c, k) \/ Spoilt(c, k) \/ Asked(c, k) \/ Dropped(c, k) \/ Brought(c, k)
  <2>1. CASE c \in S
    <3>1. c \in m.index /\ b.state[c] = "Unloaded" /\ c \notin o /\ c \notin B
      BY <1>14, <2>1
    <3>2. field'[c] = field[c] /\ held'[c] = held[c]
      BY <1>16, <1>17, <1>18, <3>1
    <3>3. m'.state[c] \in {"Loading", "Failed"}
      BY <1>12, <2>1
    <3> QED
      BY <3>1, <3>2, <3>3 DEF Asked, Same, b
  <2>2. CASE c \in B
    <3>1. b.state[c] = "Decoded" /\ c \notin o /\ c \notin S
      BY <1>14, <1>15, <2>2
    <3>2. m'.state[c] = IF c \in X THEN "Failed" ELSE "Resident"
      BY <1>5, <1>11, <1>12, <2>2, <3>1 DEF Put2
    <3>3. left[c] = field[c] /\ HeldWithout(o)[c] = held[c]
      BY <1>16, <1>17, <3>1
    <3>4. CASE c \in X
      <4>1. Same(c)
        BY <1>18, <3>3, <3>4 DEF Same
      <4> QED
        BY <3>1, <3>2, <3>4, <4>1 DEF Spoilt, b
    <3>5. CASE c \notin X
      <4>1. w[c] # 0
        BY <1>4, <2>2, <3>5
      <4>2. /\ field'[c] = IF field[c] = 0 THEN w[c] ELSE field[c]
            /\ held'[c] = [v |-> w[c], own |-> field[c] = 0]
        BY <1>18, <2>2, <3>3, <3>5
      <4> QED
        BY <3>1, <3>2, <3>5, <4>1, <4>2 DEF Brought, b, w
    <3> QED
      BY <3>4, <3>5
  <2>3. CASE c \in o
    <3>1. b.state[c] = "Resident" /\ c \notin S /\ c \notin B
      BY <1>7, <1>14, <1>15, <2>3
    <3>2. m'.state[c] = "Unloaded"
      BY <1>5, <1>8, <1>11, <1>12, <2>3, <3>1 DEF Put2, Became
    <3>3. field'[c] = (IF Untouched(c) THEN 0 ELSE field[c]) /\ held'[c] = None
      BY <1>16, <1>17, <1>18, <2>3, <3>1
    <3> QED
      BY <3>1, <3>2, <3>3 DEF Dropped, b
  <2>4. CASE c \notin S \cup B \cup o
    <3>1. m'.state[c] = b.state[c]
      BY <1>5, <1>6, <1>8, <1>11, <1>12, <2>4 DEF Put2, Became
    <3>2. Same(c) /\ raw'[c] = w[c]
      BY <1>16, <1>17, <1>18, <2>4 DEF Same
    <3> QED
      BY <3>1, <3>2 DEF Quiet, b, w
  <2> QED
    BY <2>1, <2>2, <2>3, <2>4
<1>21. S \ refused \in SUBSET Chunk
  BY <1>10
<1> QED
  BY <1>12, <1>13, <1>19, <1>20, <1>21 DEF Stages, S

LEMMA FrameKeeps ==
    ASSUME NEW k, NEW n, NEW r, NEW refused, AFrame(k, n, r, refused)
    PROVE  UNCHANGED <<disk, editor, scene, snapshot, foci, shaped, saves, worked, resaved, late>>
  BY PumpIs DEF AFrame

-----------------------------------------------------------------------------
(* The reads after a frame.                                                  *)

\* One read is begun of every cell that is asked for.
LEMMA BegunIs ==
    ASSUME TypesOK, NEW S \in SUBSET Chunk
    PROVE  /\ Begun(S) \in Seq(ReadOfField) /\ Len(Begun(S)) \in Nat
           /\ \A n \in 1..Len(Begun(S)) : /\ Begun(S)[n].chunk \in S /\ Begun(S)[n].io = "Pending"
                                          /\ Begun(S)[n].scene = scene
           /\ \A n, j \in 1..Len(Begun(S)) : Begun(S)[n].chunk = Begun(S)[j].chunk => n = j
<1> DEFINE N == Cardinality(S)
           at(n) == InOrder(S, foci)[n]
           fresh(n) == [chunk |-> at(n), io |-> "Pending", scene |-> scene, v |-> 0]
<1>1. S \in SUBSET Int /\ IsFiniteSet(S) /\ foci \in SUBSET Int /\ IsFiniteSet(foci) /\ scene \in Scene
  BY ChunksAreFinite, FociAreFinite DEF TypesOK
<1>2. N \in Nat /\ \A n \in 1..N : at(n) \in S
  BY <1>1, InOrderIsExact
<1>3. \A n, j \in 1..N : at(n) = at(j) => n = j
  BY <1>1, InOrderIsExact
<1>4. Begun(S) = [n \in 1..N |-> fresh(n)]
  BY DEF Begun
<1> HIDE DEF at, N
<1>5. \A n \in 1..N : /\ fresh(n) \in ReadOfField /\ fresh(n).chunk = at(n)
                      /\ fresh(n).io = "Pending" /\ fresh(n).scene = scene
  BY <1>1, <1>2 DEF ReadOfField
<1> HIDE DEF fresh
<1>6. Begun(S) \in [1..N -> ReadOfField] /\ \A n \in 1..N : Begun(S)[n] = fresh(n)
  BY <1>4, <1>5
<1>7. Begun(S) \in Seq(ReadOfField) /\ Len(Begun(S)) = N
  BY <1>2, <1>6
<1> QED
  BY <1>2, <1>3, <1>5, <1>6, <1>7

\* Where the i-th read was before the frame, and how many of them were there.
At(k, i)   == Place(Kept(reads, k), i)
Staying(k) == Len(StillOut(reads, k))

OldRead(k, i) == /\ i <= Staying(k) /\ At(k, i) \in DOMAIN reads /\ At(k, i) \notin Ended(reads, k)
                 /\ reads'[i] = reads[At(k, i)]
NewRead(S, k, i) == /\ i > Staying(k) /\ reads'[i].chunk \in S
                    /\ reads'[i].io = "Pending" /\ reads'[i].scene = scene

OldOrder(k) == \A i, j \in DOMAIN reads' : i < j /\ OldRead(k, i) /\ OldRead(k, j) => At(k, i) < At(k, j)
NewAreOne(S, k) ==
    \A i, j \in DOMAIN reads' :
        NewRead(S, k, i) /\ NewRead(S, k, j) /\ reads'[i].chunk = reads'[j].chunk => i = j

LEMMA StillOutOrder ==
    ASSUME NEW R, NEW rs \in Seq(R), NEW k \in Nat
    PROVE  /\ Len(StillOut(rs, k)) = Cardinality(Kept(rs, k)) /\ Cardinality(Kept(rs, k)) \in Nat
           /\ \A n, j \in 1..Cardinality(Kept(rs, k)) :
                  n < j => Place(Kept(rs, k), n) < Place(Kept(rs, k), j)
<1>1. DOMAIN rs = 1..Len(rs)
  OBVIOUS
<1>2. Kept(rs, k) \in SUBSET (1..Len(rs))
  BY DEF Kept
<1>3. StillOut(rs, k) = Sublist(rs, Kept(rs, k))
  BY <1>1 DEF StillOut, Kept
<1> QED
  BY <1>2, <1>3, SublistIsExact

LEMMA FrameReads ==
    ASSUME TypesOK, IndexIsRows, NEW k, NEW n, NEW r, NEW refused, AFrame(k, n, r, refused)
    PROVE  LET S == Start(k, n, r) \ refused
           IN  /\ reads' \in Seq(ReadOfField) /\ DOMAIN reads' \in SUBSET Int
               /\ \A i \in DOMAIN reads' : OldRead(k, i) \/ NewRead(S, k, i)
               /\ OldOrder(k) /\ NewAreOne(S, k)
<1> DEFINE S == Start(k, n, r) \ refused
           o == StillOut(reads, k)
           g == Begun(S)
           q == Len(o)
<1>1. k \in Nat /\ Pump(k, n, r, refused) /\ reads \in Seq(ReadOfField)
  BY DEF AFrame, TypesOK
<1>2. reads' = o \o g
  BY <1>1, PumpIs
<1>3. S \in SUBSET Chunk
  BY FrameIs
<1> HIDE DEF S
<1>4. /\ g \in Seq(ReadOfField) /\ Len(g) \in Nat
      /\ \A i \in 1..Len(g) : g[i].chunk \in S /\ g[i].io = "Pending" /\ g[i].scene = scene
      /\ \A i, j \in 1..Len(g) : g[i].chunk = g[j].chunk => i = j
  BY <1>3, BegunIs
<1>5. /\ o \in Seq(ReadOfField)
      /\ \A i \in 1..q : Place(Kept(reads, k), i) \in Kept(reads, k) /\ o[i] = reads[Place(Kept(reads, k), i)]
  BY <1>1, StillOutIs
<1>6. /\ q = Cardinality(Kept(reads, k)) /\ q \in Nat
      /\ \A i, j \in 1..Cardinality(Kept(reads, k)) :
             i < j => Place(Kept(reads, k), i) < Place(Kept(reads, k), j)
  BY <1>1, StillOutOrder
<1>7. \A i \in 1..q : At(k, i) \in DOMAIN reads /\ At(k, i) \notin Ended(reads, k) /\ o[i] = reads[At(k, i)]
  <2>1. DOMAIN reads = 1..Len(reads)
    BY <1>1
  <2> QED
    BY <1>5, <2>1 DEF Kept, At
<1>8. \A i, j \in 1..q : i < j => At(k, i) < At(k, j)
  BY <1>6 DEF At
<1>9. q = Staying(k)
  BY DEF Staying
<1> HIDE DEF o, g
<1>10. reads' \in Seq(ReadOfField) /\ Len(reads') = q + Len(g) /\ DOMAIN reads' = 1..(q + Len(g))
  BY <1>2, <1>4, <1>5
<1>11. \A i \in 1..q : reads'[i] = o[i]
  BY <1>2, <1>4, <1>5
<1>12. \A i \in (q + 1)..(q + Len(g)) : reads'[i] = g[i - q] /\ i - q \in 1..Len(g)
  BY <1>2, <1>4, <1>5
<1> HIDE DEF q
<1>13. \A i \in DOMAIN reads' : i > q => i - q \in 1..Len(g) /\ reads'[i] = g[i - q]
  <2> SUFFICES ASSUME NEW i \in DOMAIN reads', i > q
               PROVE  i - q \in 1..Len(g) /\ reads'[i] = g[i - q]
    OBVIOUS
  <2>1. i \in (q + 1)..(q + Len(g))
    BY <1>4, <1>6, <1>10
  <2> QED
    BY <1>12, <2>1
<1>14. ASSUME NEW i \in DOMAIN reads' PROVE OldRead(k, i) \/ NewRead(S, k, i)
  <2>1. CASE i <= q
    <3>1. i \in 1..q
      BY <1>4, <1>6, <1>10, <2>1
    <3> QED
      BY <1>7, <1>9, <1>11, <2>1, <3>1 DEF OldRead
  <2>2. CASE i > q
    BY <1>4, <1>9, <1>13, <2>2 DEF NewRead
  <2> QED
    BY <1>6, <1>10, <2>1, <2>2
<1>15. OldOrder(k)
  <2> SUFFICES ASSUME NEW i \in DOMAIN reads', NEW j \in DOMAIN reads', i < j, i <= q, j <= q
               PROVE  At(k, i) < At(k, j)
    BY <1>9 DEF OldOrder, OldRead
  <2>1. i \in 1..q /\ j \in 1..q
    BY <1>4, <1>6, <1>10
  <2> QED
    BY <1>8, <2>1
<1>16. NewAreOne(S, k)
  <2> SUFFICES ASSUME NEW i \in DOMAIN reads', NEW j \in DOMAIN reads', i > q, j > q,
                      reads'[i].chunk = reads'[j].chunk
               PROVE  i = j
    BY <1>9 DEF NewAreOne, NewRead
  <2>1. /\ i - q \in 1..Len(g) /\ reads'[i] = g[i - q]
        /\ j - q \in 1..Len(g) /\ reads'[j] = g[j - q]
    BY <1>13
  <2>2. i - q = j - q
    BY <1>4, <2>1
  <2>3. i \in Int /\ j \in Int
    BY <1>10
  <2> QED
    BY <1>6, <2>2, <2>3
<1>17. DOMAIN reads' \in SUBSET Int
  BY <1>10
<1> QED
  BY <1>10, <1>14, <1>15, <1>16, <1>17 DEF S

-----------------------------------------------------------------------------
(* A frame keeps the invariant.                                              *)

LEMMA IndexAfterDrain ==
    ASSUME TypesOK, IndexIsRows, NEW k \in Nat, NEW c \in Chunk
    PROVE  /\ Drained(k).state[c] # "Unloaded" => c \in m.index
           /\ Drained(k).state[c] = "Resident" => m.state[c] = "Resident"
           /\ c \in m.index => disk[scene][c] # 0
           /\ RawAfter(k)[c] \in Nat
<1>1. Untold(c, k) \/ ToldOf(c, k)
  BY DrainedIs
<1>2. /\ m.state[c] # "Unloaded" => c \in m.index
      /\ c \in m.index => disk[scene][c] # 0
  BY DEF IndexIsRows, Rows
<1>3. raw[c] \in Nat
  BY DEF TypesOK, TypeOK
<1> QED
  BY <1>1, <1>2, <1>3 DEF Untold, ToldOf

\* A decoded cell has what its file holds, or the cell's ground is there and is work.
LEMMA DecodedIs ==
    ASSUME Inv, NEW k \in Nat, NEW c \in Chunk \ late, Drained(k).state[c] = "Decoded"
    PROVE  \/ RawAfter(k)[c] = disk[scene][c]
           \/ c \in resaved /\ field[c] # 0 /\ c \in worked
<1>1. Untold(c, k) \/ ToldOf(c, k)
  BY DrainedIs DEF Inv
<1>2. c \in m.index
  BY IndexAfterDrain DEF Inv
<1>3. CASE Untold(c, k)
  <2>1. m.state[c] = "Decoded" /\ RawAfter(k)[c] = raw[c]
    BY <1>3 DEF Untold
  <2>2. CASE c \in resaved
    BY <2>1, <2>2 DEF Inv, SavedIsThere
  <2>3. CASE c \notin resaved
    BY <2>1, <2>3 DEF Inv, FreshRaw
  <2> QED
    BY <2>2, <2>3
<1>4. CASE ToldOf(c, k)
  <2>1. PICK i \in DOMAIN reads : /\ reads[i].chunk = c /\ reads[i].io = "Ready"
                                  /\ RawAfter(k)[c] = reads[i].v
    BY <1>4 DEF ToldOf
  <2>2. CASE c \in resaved
    BY <2>1, <2>2 DEF Inv, OldIsFirst
  <2>3. CASE c \notin resaved
    BY <1>2, <2>1, <2>3 DEF Inv, FreshRead
  <2> QED
    BY <2>2, <2>3
<1> QED
  BY <1>1, <1>3, <1>4

\* The one read of a cell nothing has happened to goes on, and the cell with it.
LEMMA OwnStays ==
    ASSUME Inv, NEW k \in Nat, NEW i, OldRead(k, i), reads'[i].chunk \notin late \cup resaved
    PROVE  /\ Drained(k).state[reads'[i].chunk] = m.state[reads'[i].chunk]
           /\ reads'[i].chunk \in m.index => m.state[reads'[i].chunk] = "Loading"
           /\ \A j \in DOMAIN reads : reads[j].chunk = reads'[i].chunk => j = At(k, i)
<1>1. /\ At(k, i) \in DOMAIN reads /\ At(k, i) \notin Ended(reads, k)
      /\ reads'[i] = reads[At(k, i)]
  BY DEF OldRead
<1> DEFINE c == reads'[i].chunk
<1>2. /\ \A j \in DOMAIN reads : reads[j].chunk = c => j = At(k, i)
      /\ c \in m.index => m.state[c] = "Loading"
  BY <1>1 DEF Inv, OneRead
<1>3. c \in Chunk
  BY <1>1, ReadsAreTyped DEF Inv
<1>4. \A j \in Ended(reads, k) : reads[j].chunk # c
  BY <1>1, <1>2 DEF Ended
<1>5. Untold(c, k) \/ ToldOf(c, k)
  BY <1>3, DrainedIs DEF Inv
<1>6. Drained(k).state[c] = m.state[c]
  <2>1. CASE Untold(c, k)
    BY <2>1 DEF Untold
  <2>2. CASE ToldOf(c, k)
    BY <1>4, <2>2 DEF ToldOf
  <2> QED
    BY <1>5, <2>1, <2>2
<1> QED
  BY <1>2, <1>6

LEMMA InvGives ==
    ASSUME Inv
    PROVE  /\ TypesOK /\ IndexIsRows /\ foci \in SUBSET Int /\ IsFiniteSet(foci)
           /\ field \in [Chunk -> Nat] /\ held \in [Chunk -> [v : Nat, own : BOOLEAN]]
           /\ editor \in BOOLEAN /\ scene \in Scene /\ disk \in [Scene -> [Chunk -> Nat]]
           /\ resaved \subseteq Chunk /\ \A c \in Chunk : m.state[c] \in ChunkState
  BY FociAreFinite DEF Inv, TypesOK, TypeOK, Managers

\* What a frame leaves of each cell.
LEMMA FrameCell ==
    ASSUME Inv, NEW k, NEW n, NEW r, NEW refused, AFrame(k, n, r, refused), NEW c \in Chunk
    PROVE  /\ k \in Nat
           /\ Quiet(c, k) \/ Spoilt(c, k) \/ Asked(c, k) \/ Dropped(c, k) \/ Brought(c, k)
  BY FrameIs, InvGives DEF AFrame, Stages

LEMMA FrameTypes ==
    ASSUME Inv, NEW k, NEW n, NEW r, NEW refused, AFrame(k, n, r, refused)
    PROVE  TypesOK'
<1>1. k \in Nat /\ Pump(k, n, r, refused)
  BY DEF AFrame
<1>2. UNCHANGED <<disk, editor, scene, snapshot, foci, shaped>>
  BY FrameKeeps
<1>3. Sound(m') /\ Start(k, n, r) \ refused \in SUBSET Chunk
  BY FrameIs, InvGives
<1>4. reads' \in Seq(ReadOfField)
  BY FrameReads, InvGives
<1>5. /\ field' = FieldWith(FieldWithout(Out(k)), Build(k, n) \ Broken(k, n), RawAfter(k))
      /\ held' = HeldWith(FieldWithout(Out(k)), HeldWithout(Out(k)),
                          Build(k, n) \ Broken(k, n), RawAfter(k))
      /\ raw' = [c \in Chunk |-> IF c \in Build(k, n) THEN 0 ELSE RawAfter(k)[c]]
  BY <1>1, PumpIs
<1>6. \A c \in Chunk : RawAfter(k)[c] \in Nat
  BY <1>1, IndexAfterDrain, InvGives
<1>7. \A c \in Chunk : FieldWithout(Out(k))[c] \in Nat
  BY InvGives DEF FieldWithout
<1>8. \A c \in Chunk : HeldWithout(Out(k))[c] \in [v : Nat, own : BOOLEAN]
  BY InvGives DEF HeldWithout, None
<1>9. field' \in [Chunk -> Nat] /\ raw' \in [Chunk -> Nat]
  BY <1>5, <1>6, <1>7 DEF FieldWith
<1>10. held' \in [Chunk -> [v : Nat, own : BOOLEAN]]
  <2> DEFINE F == FieldWithout(Out(k))
             H == HeldWithout(Out(k))
             S == Build(k, n) \ Broken(k, n)
             w == RawAfter(k)
  <2>1. /\ held' = HeldWith(F, H, S, w)
        /\ \A c \in Chunk : w[c] \in Nat /\ H[c] \in [v : Nat, own : BOOLEAN]
    BY <1>5, <1>6, <1>8
  <2> HIDE DEF F, H, S, w
  <2> QED
    BY <2>1 DEF HeldWith
<1>11. \A i \in DOMAIN reads' : reads'[i] \in ReadOfField
  BY <1>4
<1>13. resaved' = resaved
  BY FrameKeeps
<1>12. TypeOK'
  BY <1>3, <1>9, <1>10, <1>11 DEF TypeOK, Sound, ReadOfField
<1> QED
  BY <1>2, <1>4, <1>12, <1>13, InvGives DEF TypesOK, Inv

LEMMA FrameIndex ==
    ASSUME Inv, NEW k, NEW n, NEW r, NEW refused, AFrame(k, n, r, refused)
    PROVE  IndexIsRows'
<1>1. m'.index = m.index /\ disk' = disk /\ scene' = scene
  BY FrameIs, FrameKeeps, InvGives
<1>2. m'.index = Rows(scene)'
  BY <1>1, InvGives DEF IndexIsRows, Rows
<1>3. ASSUME NEW c \in Chunk, m'.state[c] # "Unloaded" PROVE c \in m.index
  <2>1. /\ k \in Nat
        /\ Quiet(c, k) \/ Spoilt(c, k) \/ Asked(c, k) \/ Dropped(c, k) \/ Brought(c, k)
    BY FrameCell
  <2>2. Drained(k).state[c] # "Unloaded" => c \in m.index
    BY <2>1, IndexAfterDrain, InvGives
  <2> QED
    BY <1>3, <2>1, <2>2 DEF Quiet, Spoilt, Asked, Dropped, Brought
<1> QED
  BY <1>1, <1>2, <1>3 DEF IndexIsRows

LEMMA FrameReadsAreOfScene ==
    ASSUME Inv, NEW k, NEW n, NEW r, NEW refused, AFrame(k, n, r, refused)
    PROVE  ReadsAreOfScene'
<1>1. scene' = scene /\ late' = late
  BY FrameKeeps
<1> SUFFICES ASSUME NEW i \in DOMAIN reads', reads'[i].chunk \notin late
             PROVE  reads'[i].scene = scene
  BY <1>1 DEF ReadsAreOfScene
<1>2. OldRead(k, i) \/ NewRead(Start(k, n, r) \ refused, k, i)
  BY FrameReads, InvGives
<1> QED
  BY <1>2 DEF OldRead, NewRead, Inv, ReadsAreOfScene

\* A read that went on belongs to no cell a read was begun of.
LEMMA OldIsNotNew ==
    ASSUME Inv, NEW k, NEW n, NEW r, NEW refused, AFrame(k, n, r, refused),
           NEW i, OldRead(k, i), reads'[i].chunk \notin late \cup resaved
    PROVE  reads'[i].chunk \notin Start(k, n, r) \ refused
<1>1. k \in Nat /\ Asks(Start(k, n, r) \ refused, k)
  BY FrameIs, InvGives DEF AFrame
<1>2. /\ Drained(k).state[reads'[i].chunk] = m.state[reads'[i].chunk]
      /\ reads'[i].chunk \in m.index => m.state[reads'[i].chunk] = "Loading"
  BY <1>1, OwnStays
<1> QED
  BY <1>1, <1>2 DEF Asks

LEMMA FrameOneRead ==
    ASSUME Inv, NEW k, NEW n, NEW r, NEW refused, AFrame(k, n, r, refused)
    PROVE  OneRead'
<1> DEFINE S == Start(k, n, r) \ refused
<1>1. k \in Nat /\ late' = late /\ resaved' = resaved /\ m'.index = m.index
  BY FrameKeeps, FrameIs, InvGives DEF AFrame
<1>2. Asks(S, k)
  BY FrameIs, InvGives
<1>3. /\ reads' \in Seq(ReadOfField) /\ DOMAIN reads' \in SUBSET Int
      /\ \A i \in DOMAIN reads' : OldRead(k, i) \/ NewRead(S, k, i)
      /\ OldOrder(k) /\ NewAreOne(S, k)
  BY FrameReads, InvGives
<1>4. \A i \in DOMAIN reads' : reads'[i].chunk \in Chunk
  <2>1. \A i \in DOMAIN reads' : reads'[i] \in ReadOfField
    BY <1>3
  <2> QED
    BY <2>1 DEF ReadOfField
<1> SUFFICES ASSUME NEW i \in DOMAIN reads', reads'[i].chunk \notin late \cup resaved
             PROVE  /\ reads'[i].chunk \in m.index => m'.state[reads'[i].chunk] = "Loading"
                    /\ \A j \in DOMAIN reads' : reads'[j].chunk = reads'[i].chunk => j = i
  BY <1>1 DEF OneRead
<1>5. CASE OldRead(k, i)
  <2> DEFINE c == reads'[i].chunk
  <2>1. /\ Drained(k).state[c] = m.state[c]
        /\ c \in m.index => m.state[c] = "Loading"
        /\ \A j \in DOMAIN reads : reads[j].chunk = c => j = At(k, i)
    BY <1>1, <1>5, OwnStays
  <2>2. Quiet(c, k) \/ Spoilt(c, k) \/ Asked(c, k) \/ Dropped(c, k) \/ Brought(c, k)
    BY <1>4, FrameCell
  <2>3. c \in m.index => m'.state[c] = "Loading"
    BY <2>1, <2>2 DEF Quiet, Spoilt, Asked, Dropped, Brought
  <2>4. c \notin S
    BY <1>5, OldIsNotNew
  <2>5. ASSUME NEW j \in DOMAIN reads', reads'[j].chunk = c PROVE j = i
    <3>1. OldRead(k, j)
      BY <1>3, <2>4, <2>5 DEF NewRead
    <3>2. At(k, j) = At(k, i)
      BY <2>1, <2>5, <3>1 DEF OldRead
    <3>3. i \in Int /\ j \in Int /\ At(k, i) \in Int
      <4>1. At(k, i) \in DOMAIN reads
        BY <1>5 DEF OldRead
      <4>2. DOMAIN reads = 1..Len(reads)
        BY ReadsAreTyped, InvGives
      <4> QED
        BY <1>3, <4>1, <4>2
    <3>4. ~(At(k, i) < At(k, j)) /\ ~(At(k, j) < At(k, i))
      BY <3>2, <3>3
    <3>5. ~(i < j) /\ ~(j < i)
      BY <1>3, <1>5, <3>1, <3>4 DEF OldOrder
    <3> QED
      BY <3>3, <3>5
  <2> QED
    BY <2>3, <2>5
<1>6. CASE NewRead(S, k, i)
  <2>1. reads'[i].chunk \in S
    BY <1>6 DEF NewRead
  <2>2. m'.state[reads'[i].chunk] = "Loading"
    BY <1>2, <2>1 DEF Asks
  <2>3. ASSUME NEW j \in DOMAIN reads', reads'[j].chunk = reads'[i].chunk PROVE j = i
    <3>1. ~OldRead(k, j)
      BY <2>1, <2>3, OldIsNotNew
    <3>2. NewRead(S, k, j)
      BY <1>3, <3>1
    <3> QED
      BY <1>3, <1>6, <2>3, <3>2 DEF NewAreOne
  <2> QED
    BY <2>2, <2>3
<1> QED
  BY <1>3, <1>5, <1>6

LEMMA FrameFreshRead ==
    ASSUME Inv, NEW k, NEW n, NEW r, NEW refused, AFrame(k, n, r, refused)
    PROVE  FreshRead'
<1>1. /\ disk' = disk /\ scene' = scene /\ late' = late /\ resaved' = resaved
      /\ m'.index = m.index
  BY FrameKeeps, FrameIs, InvGives
<1> SUFFICES ASSUME NEW i \in DOMAIN reads', reads'[i].chunk \in m.index \ (late \cup resaved),
                    reads'[i].io = "Ready"
             PROVE  reads'[i].v = disk[scene][reads'[i].chunk]
  BY <1>1 DEF FreshRead
<1>2. OldRead(k, i) \/ NewRead(Start(k, n, r) \ refused, k, i)
  BY FrameReads, InvGives
<1> QED
  BY <1>2 DEF OldRead, NewRead, Inv, FreshRead

LEMMA FrameFreshRaw ==
    ASSUME Inv, NEW k, NEW n, NEW r, NEW refused, AFrame(k, n, r, refused)
    PROVE  FreshRaw'
<1>1. disk' = disk /\ scene' = scene /\ late' = late /\ resaved' = resaved
  BY FrameKeeps
<1> SUFFICES ASSUME NEW c \in Chunk \ (late \cup resaved), m'.state[c] = "Decoded"
             PROVE  raw'[c] = disk[scene][c]
  BY <1>1 DEF FreshRaw
<1>2. /\ k \in Nat
      /\ Quiet(c, k) \/ Spoilt(c, k) \/ Asked(c, k) \/ Dropped(c, k) \/ Brought(c, k)
  BY FrameCell
<1>3. Quiet(c, k)
  BY <1>2 DEF Spoilt, Asked, Dropped, Brought
<1>4. Drained(k).state[c] = "Decoded" /\ raw'[c] = RawAfter(k)[c]
  BY <1>3 DEF Quiet
<1> QED
  BY <1>2, <1>4, DecodedIs

LEMMA FrameFreshHeld ==
    ASSUME Inv, NEW k, NEW n, NEW r, NEW refused, AFrame(k, n, r, refused)
    PROVE  FreshHeld' /\ HeldIsGround' /\ GameSavesNothing'
<1>1. /\ disk' = disk /\ scene' = scene /\ late' = late /\ resaved' = resaved
      /\ editor' = editor
  BY FrameKeeps
<1>2. ASSUME NEW c \in Chunk \ (late \cup resaved), held'[c] # None
      PROVE  held'[c].v = disk[scene][c]
  <2>1. /\ k \in Nat
        /\ Quiet(c, k) \/ Spoilt(c, k) \/ Asked(c, k) \/ Dropped(c, k) \/ Brought(c, k)
    BY FrameCell
  <2>2. CASE Same(c)
    BY <1>2, <2>2 DEF Same, Inv, FreshHeld
  <2>3. CASE Brought(c, k)
    <3>1. RawAfter(k)[c] = disk[scene][c]
      BY <2>1, <2>3, DecodedIs DEF Brought
    <3> QED
      BY <2>3, <3>1 DEF Brought
  <2> QED
    BY <1>2, <2>1, <2>2, <2>3 DEF Quiet, Spoilt, Asked, Dropped
<1>3. ASSUME NEW c \in Chunk, held'[c].v = 0 PROVE held'[c] = None
  <2>1. Quiet(c, k) \/ Spoilt(c, k) \/ Asked(c, k) \/ Dropped(c, k) \/ Brought(c, k)
    BY FrameCell
  <2>2. CASE Same(c)
    BY <1>3, <2>2 DEF Same, Inv, HeldIsGround
  <2>3. ~Brought(c, k)
    BY <1>3 DEF Brought
  <2> QED
    BY <2>1, <2>2, <2>3 DEF Quiet, Spoilt, Asked, Dropped
<1> QED
  BY <1>1, <1>2, <1>3 DEF FreshHeld, HeldIsGround, Inv, GameSavesNothing

\* Ground that is brought to a saved cell is what was saved, or finds it there.
LEMMA FrameSavedIsThere ==
    ASSUME Inv, NEW k, NEW n, NEW r, NEW refused, AFrame(k, n, r, refused)
    PROVE  SavedIsThere'
<1>1. /\ disk' = disk /\ scene' = scene /\ late' = late /\ resaved' = resaved
      /\ worked' = worked
  BY FrameKeeps
<1> SUFFICES ASSUME NEW c \in resaved \ late, c \in Chunk
             PROVE  /\ field'[c] \in {0, disk[scene][c]}
                    /\ field'[c] = 0 => held'[c] = None
                    /\ m'.state[c] = "Decoded" /\ raw'[c] # disk[scene][c]
                           => field'[c] # 0 /\ c \in worked
  BY <1>1, InvGives DEF SavedIsThere
<1>2. /\ k \in Nat
      /\ Quiet(c, k) \/ Spoilt(c, k) \/ Asked(c, k) \/ Dropped(c, k) \/ Brought(c, k)
  BY FrameCell
<1>3. field[c] \in {0, disk[scene][c]} /\ (field[c] = 0 => held[c] = None)
  BY DEF Inv, SavedIsThere
<1>4. Drained(k).state[c] = "Decoded" =>
          RawAfter(k)[c] = disk[scene][c] \/ (field[c] # 0 /\ c \in worked)
  BY <1>2, DecodedIs
<1>5. CASE Quiet(c, k)
  BY <1>3, <1>4, <1>5 DEF Quiet, Same
<1>6. CASE Spoilt(c, k) \/ Asked(c, k)
  BY <1>3, <1>6 DEF Spoilt, Asked, Same
<1>7. CASE Dropped(c, k)
  BY <1>3, <1>7 DEF Dropped
<1>8. CASE Brought(c, k)
  <2>1. /\ Drained(k).state[c] = "Decoded" /\ m'.state[c] = "Resident" /\ RawAfter(k)[c] # 0
        /\ field'[c] = IF field[c] = 0 THEN RawAfter(k)[c] ELSE field[c]
    BY <1>8 DEF Brought
  <2> QED
    BY <1>3, <1>4, <2>1
<1> QED
  BY <1>2, <1>5, <1>6, <1>7, <1>8

\* An old read that has arrived is the first of its cell, so until it is told of
\* nothing of the cell is.
LEMMA FrameOldIsFirst ==
    ASSUME Inv, NEW k, NEW n, NEW r, NEW refused, AFrame(k, n, r, refused)
    PROVE  OldIsFirst'
<1> DEFINE S == Start(k, n, r) \ refused
<1>1. /\ disk' = disk /\ scene' = scene /\ late' = late /\ resaved' = resaved
      /\ worked' = worked /\ k \in Nat
  BY FrameKeeps DEF AFrame
<1>2. /\ DOMAIN reads' \in SUBSET Int /\ OldOrder(k)
      /\ \A i \in DOMAIN reads' : OldRead(k, i) \/ NewRead(S, k, i)
  BY FrameReads, InvGives
<1> SUFFICES ASSUME NEW i \in DOMAIN reads', reads'[i].chunk \in resaved \ late,
                    reads'[i].io = "Ready", reads'[i].v # disk[scene][reads'[i].chunk]
             PROVE  /\ m'.state[reads'[i].chunk] \notin {"Decoded", "Resident"}
                    /\ field'[reads'[i].chunk] # 0 /\ reads'[i].chunk \in worked
                    /\ \A j \in DOMAIN reads' : reads'[j].chunk = reads'[i].chunk => i <= j
  BY <1>1 DEF OldIsFirst
<1> DEFINE c == reads'[i].chunk
           p == At(k, i)
<1>3. OldRead(k, i)
  BY <1>2 DEF NewRead
<1>4. p \in DOMAIN reads /\ p \notin Ended(reads, k) /\ reads'[i] = reads[p] /\ i <= Staying(k)
  BY <1>3 DEF OldRead
<1>5. DOMAIN reads = 1..Len(reads) /\ c \in Chunk
  BY <1>4, ReadsAreTyped, InvGives
<1>6. /\ m.state[c] \notin {"Decoded", "Resident"} /\ field[c] # 0 /\ c \in worked
      /\ \A j \in DOMAIN reads : reads[j].chunk = c => p <= j
  BY <1>4 DEF Inv, OldIsFirst
<1>7. p > k
  BY <1>1, <1>4, <1>5 DEF Ended
<1>8. \A j \in Ended(reads, k) : reads[j].chunk # c
  <2> SUFFICES ASSUME NEW j \in Ended(reads, k), reads[j].chunk = c PROVE FALSE
    OBVIOUS
  <2>1. j \in DOMAIN reads /\ j <= k
    BY DEF Ended
  <2>2. p <= j
    BY <1>6, <2>1
  <2> QED
    BY <1>1, <1>4, <1>5, <1>7, <2>1, <2>2
<1>9. Drained(k).state[c] = m.state[c]
  <2>1. Untold(c, k) \/ ToldOf(c, k)
    BY <1>1, <1>5, DrainedIs, InvGives
  <2> QED
    BY <1>8, <2>1 DEF Untold, ToldOf
<1>10. Quiet(c, k) \/ Spoilt(c, k) \/ Asked(c, k) \/ Dropped(c, k) \/ Brought(c, k)
  BY <1>5, FrameCell
<1>11. Quiet(c, k) \/ Asked(c, k)
  BY <1>6, <1>9, <1>10 DEF Spoilt, Dropped, Brought
<1>12. m'.state[c] \notin {"Decoded", "Resident"} /\ field'[c] # 0
  BY <1>6, <1>9, <1>11 DEF Quiet, Asked, Same
<1>13. ASSUME NEW j \in DOMAIN reads', reads'[j].chunk = c PROVE i <= j
  <2>1. i \in Int /\ j \in Int
    BY <1>2
  <2>2. CASE OldRead(k, j)
    <3>1. At(k, j) \in DOMAIN reads /\ reads[At(k, j)].chunk = c
      BY <1>13, <2>2 DEF OldRead
    <3>2. p <= At(k, j) /\ p \in Int /\ At(k, j) \in Int
      BY <1>4, <1>5, <1>6, <3>1
    <3>3. ~(At(k, j) < p)
      BY <3>2
    <3>4. ~(j < i)
      BY <1>2, <1>3, <2>2, <3>3 DEF OldOrder
    <3> QED
      BY <2>1, <3>4
  <2>3. CASE NewRead(S, k, j)
    <3>1. j > Staying(k)
      BY <2>3 DEF NewRead
    <3>2. Staying(k) \in Int
      <4>1. reads \in Seq(ReadOfField)
        BY InvGives DEF TypesOK
      <4> QED
        BY <1>1, <4>1, StillOutOrder DEF Staying
    <3> QED
      BY <1>4, <2>1, <3>1, <3>2
  <2> QED
    BY <1>2, <2>2, <2>3
<1> QED
  BY <1>6, <1>12, <1>13

\* In a game a loaded cell has no read, so nothing is told of it.
LEMMA GameStaysLoaded ==
    ASSUME Inv, ~editor, NEW k \in Nat, NEW c \in Chunk \ late, m.state[c] = "Resident"
    PROVE  Drained(k).state[c] = "Resident"
<1>1. Untold(c, k) \/ ToldOf(c, k)
  BY DrainedIs, InvGives
<1>2. c \in m.index /\ c \notin resaved
  BY DEF Inv, IndexIsRows, GameSavesNothing
<1>3. ~ToldOf(c, k)
  <2> SUFFICES ASSUME ToldOf(c, k) PROVE FALSE
    OBVIOUS
  <2>1. PICK i \in Ended(reads, k) : reads[i].chunk = c
    BY DEF ToldOf
  <2>2. i \in DOMAIN reads
    BY DEF Ended
  <2>3. m.state[c] = "Loading"
    BY <1>2, <2>1, <2>2 DEF Inv, OneRead
  <2> QED
    BY <2>3
<1> QED
  BY <1>1, <1>3 DEF Untold

LEMMA FrameHolds ==
    ASSUME Inv, NEW k, NEW n, NEW r, NEW refused, AFrame(k, n, r, refused)
    PROVE  GameHolds' /\ ResidentIsHeld' /\ HeldIsThere'
<1>1. editor' = editor /\ late' = late
  BY FrameKeeps
<1>2. k \in Nat /\ \A c \in Chunk :
          Quiet(c, k) \/ Spoilt(c, k) \/ Asked(c, k) \/ Dropped(c, k) \/ Brought(c, k)
  BY FrameIs, InvGives DEF AFrame, Stages
<1>3. ASSUME NEW c \in Chunk, Brought(c, k)
      PROVE  held'[c] # None /\ field'[c] # 0 /\ m'.state[c] = "Resident"
  <2>1. /\ RawAfter(k)[c] # 0 /\ held'[c].v = RawAfter(k)[c]
        /\ field'[c] = IF field[c] = 0 THEN RawAfter(k)[c] ELSE field[c]
        /\ m'.state[c] = "Resident"
    BY <1>3 DEF Brought
  <2> QED
    BY <2>1 DEF None
<1>4. ASSUME ~editor, NEW c \in Chunk \ late, held'[c] # None
      PROVE  m'.state[c] = "Resident"
  <2>1. CASE Same(c)
    <3>1. m.state[c] = "Resident"
      BY <1>4, <2>1 DEF Same, Inv, GameHolds
    <3>2. Drained(k).state[c] = "Resident"
      BY <1>2, <1>4, <3>1, GameStaysLoaded
    <3> QED
      BY <1>2, <1>3, <1>4, <3>2 DEF Quiet, Spoilt, Asked, Dropped
  <2>2. CASE ~Same(c)
    BY <1>2, <1>3, <1>4, <2>2 DEF Quiet, Spoilt, Asked, Dropped
  <2> QED
    BY <2>1, <2>2
<1>5. ASSUME NEW c \in Chunk \ late, m'.state[c] = "Resident" PROVE held'[c] # None
  <2>1. CASE Quiet(c, k)
    <3>1. Drained(k).state[c] = "Resident" /\ held'[c] = held[c]
      BY <1>5, <2>1 DEF Quiet, Same
    <3>2. m.state[c] = "Resident"
      BY <1>2, <3>1, IndexAfterDrain, InvGives
    <3> QED
      BY <3>1, <3>2 DEF Inv, ResidentIsHeld
  <2> QED
    BY <1>2, <1>3, <1>5, <2>1 DEF Spoilt, Asked, Dropped
<1>6. ASSUME NEW c \in Chunk \ late, held'[c] # None PROVE field'[c] # 0 \/ MayDigOut
  <2>1. CASE Same(c)
    BY <1>6, <2>1 DEF Same, Inv, HeldIsThere
  <2> QED
    BY <1>2, <1>3, <1>6, <2>1 DEF Quiet, Spoilt, Asked, Dropped
<1> QED
  BY <1>1, <1>4, <1>5, <1>6 DEF GameHolds, ResidentIsHeld, HeldIsThere

\* A held cell that is what it brought is what its file holds.
LEMMA UntouchedIsSaved ==
    ASSUME Inv, NEW c \in Chunk \ late, Untouched(c)
    PROVE  field[c] = disk[scene][c]
<1>1. held[c] # None /\ field[c] = held[c].v
  BY DEF Untouched
<1>2. CASE c \in resaved
  BY <1>1, <1>2 DEF Inv, SavedIsThere
<1>3. CASE c \notin resaved
  BY <1>1, <1>3 DEF Inv, FreshHeld
<1> QED
  BY <1>2, <1>3

LEMMA FrameTouchedIsWork ==
    ASSUME Inv, NEW k, NEW n, NEW r, NEW refused, AFrame(k, n, r, refused)
    PROVE  TouchedIsWork'
<1>1. editor' = editor /\ late' = late /\ worked' = worked /\ k \in Nat
  BY FrameKeeps DEF AFrame
<1>2. Terrain' = Terrain
  BY <1>1 DEF Terrain
<1> SUFFICES ASSUME NEW c \in Chunk \ late, field'[c] # 0, ~Untouched(c)'
             PROVE  c \in worked
  BY <1>1 DEF TouchedIsWork
<1>3. Untouched(c)' <=> /\ held'[c] # None /\ field'[c] = held'[c].v
                        /\ c \in Terrain \/ held'[c].own
  BY <1>2 DEF Untouched
<1>4. field[c] # 0 /\ ~Untouched(c) => c \in worked
  BY DEF Inv, TouchedIsWork
<1>5. Quiet(c, k) \/ Spoilt(c, k) \/ Asked(c, k) \/ Dropped(c, k) \/ Brought(c, k)
  BY FrameCell
<1>6. CASE Same(c)
  BY <1>3, <1>4, <1>6 DEF Same, Untouched
<1>7. CASE Dropped(c, k)
  BY <1>4, <1>7 DEF Dropped
<1>8. CASE Brought(c, k)
  <2> DEFINE w == RawAfter(k)[c]
  <2>1. /\ Drained(k).state[c] = "Decoded" /\ w # 0
        /\ field'[c] = IF field[c] = 0 THEN w ELSE field[c]
        /\ held'[c] = [v |-> w, own |-> field[c] = 0]
    BY <1>8 DEF Brought
  <2> HIDE DEF w
  <2>2. held'[c] # None /\ held'[c].v = w /\ (field[c] = 0 => held'[c].own)
    <3>1. held'[c].v = w
      BY <2>1
    <3>2. field[c] = 0 => held'[c] = [v |-> w, own |-> TRUE]
      BY <2>1
    <3> QED
      BY <2>1, <3>1, <3>2 DEF None
  <2>3. field[c] # 0 /\ (field[c] # w \/ c \notin Terrain)
    BY <1>3, <2>1, <2>2
  <2>4. CASE ~Untouched(c)
    BY <1>4, <2>3, <2>4
  <2>5. CASE Untouched(c)
    <3>1. editor
      <4> SUFFICES ASSUME ~editor PROVE FALSE
        OBVIOUS
      <4>1. m.state[c] = "Resident"
        BY <2>5 DEF Untouched, Inv, GameHolds
      <4>2. Drained(k).state[c] = "Resident"
        BY <1>1, <4>1, GameStaysLoaded
      <4> QED
        BY <2>1, <4>2
    <3>2. field[c] # w
      BY <2>3, <3>1 DEF Terrain
    <3>3. w = disk[scene][c] \/ c \in worked
      BY <1>1, <2>1, DecodedIs DEF w
    <3>4. field[c] = disk[scene][c]
      BY <2>5, UntouchedIsSaved
    <3> QED
      BY <3>2, <3>3, <3>4
  <2> QED
    BY <2>4, <2>5
<1> QED
  BY <1>5, <1>6, <1>7, <1>8 DEF Quiet, Spoilt, Asked

LEMMA FrameInv ==
    ASSUME Inv, AnyFrame
    PROVE  Inv'
<1>1. PICK k, n, r, refused : AFrame(k, n, r, refused)
  BY FrameExists, InvGives
<1>2. TypesOK' /\ IndexIsRows' /\ ReadsAreOfScene' /\ OneRead'
  BY <1>1, FrameTypes, FrameIndex, FrameReadsAreOfScene, FrameOneRead
<1>3. FreshRead' /\ FreshRaw' /\ FreshHeld' /\ HeldIsGround' /\ GameSavesNothing'
  BY <1>1, FrameFreshRead, FrameFreshRaw, FrameFreshHeld
<1>4. SavedIsThere' /\ OldIsFirst'
  BY <1>1, FrameSavedIsThere, FrameOldIsFirst
<1>5. GameHolds' /\ ResidentIsHeld' /\ HeldIsThere' /\ TouchedIsWork'
  BY <1>1, FrameHolds, FrameTouchedIsWork
<1> QED
  BY <1>2, <1>3, <1>4, <1>5 DEF Inv

-----------------------------------------------------------------------------
(* What goes on around the streamer keeps the invariant.                     *)

LEMMA InvInit ==
    ASSUME Init PROVE Inv
<1>1. /\ editor \in BOOLEAN /\ scene = FirstScene /\ disk = OnDisk
      /\ m = Fresh(Rows(scene)) /\ reads = <<>> /\ raw = [c \in Chunk |-> 0]
      /\ field = [c \in Chunk |-> 0] /\ held = [c \in Chunk |-> None]
      /\ snapshot = field /\ foci \in Foci /\ shaped = 0 /\ resaved = {} /\ late = {}
  BY DEF Init
<1>2. scene \in Scene /\ disk \in [Scene -> [Chunk -> Nat]]
  BY <1>1, FieldAssumption
<1>3. /\ Sound(m) /\ m.index = Rows(scene) /\ \A c \in Chunk : m.state[c] = "Unloaded"
  <2>1. Rows(scene) \in SUBSET Chunk
    BY DEF Rows
  <2> QED
    BY <1>1, <2>1, FreshIs
<1>4. \A c \in Chunk : held[c] = None /\ field[c] = 0
  BY <1>1
<1>5. held \in [Chunk -> [v : Nat, own : BOOLEAN]]
  BY <1>1 DEF None
<1>6. TypesOK
  BY <1>1, <1>2, <1>3, <1>5 DEF TypesOK, TypeOK, Sound
<1>7. IndexIsRows /\ HeldIsGround /\ GameSavesNothing
  BY <1>1, <1>3, <1>4 DEF IndexIsRows, HeldIsGround, GameSavesNothing
<1>8. ReadsAreOfScene /\ OneRead /\ FreshRead /\ OldIsFirst
  BY <1>1 DEF ReadsAreOfScene, OneRead, FreshRead, OldIsFirst
<1>9. FreshRaw /\ FreshHeld /\ SavedIsThere
  BY <1>1, <1>3, <1>4 DEF FreshRaw, FreshHeld, SavedIsThere
<1>10. GameHolds /\ ResidentIsHeld /\ HeldIsThere /\ TouchedIsWork
  BY <1>3, <1>4 DEF GameHolds, ResidentIsHeld, HeldIsThere, TouchedIsWork
<1> QED
  BY <1>6, <1>7, <1>8, <1>9, <1>10 DEF Inv

\* The parts of the invariant that a step leaves alone that keeps what they speak of.
LEMMA UntouchedStays ==
    ASSUME NEW c, held'[c] = held[c], field'[c] = field[c], editor' = editor
    PROVE  Untouched(c)' <=> Untouched(c)
  BY DEF Untouched, Terrain

LEMMA ReadEndsInv ==
    ASSUME Inv, NEW i \in DOMAIN reads, NEW ok \in BOOLEAN, ReadEnds(i, ok)
    PROVE  Inv'
<1> DEFINE w == IF ok THEN disk[reads[i].scene][reads[i].chunk] ELSE 0
           e == IF ok THEN "Ready" ELSE "Failed"
<1>1. /\ reads[i].io = "Pending"
      /\ reads' = [reads EXCEPT ![i].io = e, ![i].v = w]
      /\ UNCHANGED <<m, raw, field, held, disk, editor, scene, snapshot, foci, shaped,
                     worked, resaved, late>>
  BY DEF ReadEnds
<1>2. /\ DOMAIN reads = 1..Len(reads) /\ reads \in Seq(ReadOfField)
      /\ \A j \in DOMAIN reads :
             /\ reads[j] \in ReadOfField /\ reads[j].chunk \in Chunk /\ reads[j].v \in Nat
             /\ reads[j].scene \in Scene
  BY ReadsAreTyped, InvGives DEF TypesOK
<1>3. w \in Nat /\ e \in {"Pending", "Ready", "Failed"}
  BY <1>2, InvGives
<1>4. e = "Ready" => w = disk[reads[i].scene][reads[i].chunk]
  OBVIOUS
<1> HIDE DEF w, e
<1>5. [reads[i] EXCEPT !.io = e, !.v = w] \in ReadOfField
  BY <1>2, <1>3 DEF ReadOfField
<1>6. /\ reads' \in Seq(ReadOfField) /\ DOMAIN reads' = DOMAIN reads
      /\ \A j \in DOMAIN reads : reads'[j] = IF j = i THEN [reads[i] EXCEPT !.io = e, !.v = w]
                                             ELSE reads[j]
  <2> DEFINE s == [reads EXCEPT ![i].io = e]
             x == [reads[i] EXCEPT !.io = e]
  <2>1. s = [reads EXCEPT ![i] = x]
    OBVIOUS
  <2>2. reads' = [s EXCEPT ![i].v = w]
    BY <1>1
  <2>3. [reads[i] EXCEPT !.io = e, !.v = w] = [x EXCEPT !.v = w]
    OBVIOUS
  <2> HIDE DEF x
  <2>4. DOMAIN s = DOMAIN reads /\ s[i] = x /\ \A j \in DOMAIN reads : j # i => s[j] = reads[j]
    BY <2>1
  <2> HIDE DEF s
  <2>5. /\ DOMAIN reads' = DOMAIN reads
        /\ \A j \in DOMAIN reads : reads'[j] = IF j = i THEN [reads[i] EXCEPT !.io = e, !.v = w]
                                               ELSE reads[j]
    BY <2>2, <2>3, <2>4
  <2>6. reads' = [j \in DOMAIN reads |-> reads'[j]]
    BY <2>2, <2>4
  <2>7. \A j \in 1..Len(reads) : reads'[j] \in ReadOfField
    BY <1>2, <1>5, <2>5
  <2>8. reads' \in [1..Len(reads) -> ReadOfField]
    BY <1>2, <2>6, <2>7
  <2>9. Len(reads) \in Nat
    BY <1>2
  <2> QED
    BY <2>5, <2>8, <2>9
<1>7. \A j \in DOMAIN reads : reads'[j].chunk = reads[j].chunk /\ reads'[j].scene = reads[j].scene
  BY <1>2, <1>6 DEF ReadOfField
<1>8. /\ reads'[i].io = e /\ reads'[i].v = w
      /\ \A j \in DOMAIN reads : j # i => reads'[j].io = reads[j].io /\ reads'[j].v = reads[j].v
  BY <1>2, <1>6 DEF ReadOfField
<1>9. e = "Ready" /\ reads[i].chunk \notin late => w = disk[scene][reads[i].chunk]
  BY <1>4 DEF Inv, ReadsAreOfScene
<1>10. TypesOK'
  <2>1. \A j \in DOMAIN reads' : reads'[j] \in ReadOfField
    BY <1>6
  <2> QED
    BY <1>1, <1>6, <2>1 DEF Inv, TypesOK, TypeOK, ReadOfField
<1>11. IndexIsRows' /\ HeldIsGround' /\ GameSavesNothing'
  BY <1>1 DEF Inv, IndexIsRows, Rows, HeldIsGround, GameSavesNothing
<1>12. ReadsAreOfScene' /\ OneRead'
  BY <1>1, <1>6, <1>7 DEF Inv, ReadsAreOfScene, OneRead
<1>13. FreshRead'
  <2> SUFFICES ASSUME NEW j \in DOMAIN reads, reads[j].chunk \in m.index \ (late \cup resaved),
                      reads'[j].io = "Ready"
               PROVE  reads'[j].v = disk[scene][reads[j].chunk]
    BY <1>1, <1>6, <1>7 DEF FreshRead
  <2>1. CASE j = i
    BY <1>8, <1>9, <2>1
  <2>2. CASE j # i
    BY <1>8, <2>2 DEF Inv, FreshRead
  <2> QED
    BY <2>1, <2>2
<1>14. OldIsFirst'
  <2> SUFFICES ASSUME NEW j \in DOMAIN reads, reads[j].chunk \in resaved \ late,
                      reads'[j].io = "Ready", reads'[j].v # disk[scene][reads[j].chunk]
               PROVE  /\ m.state[reads[j].chunk] \notin {"Decoded", "Resident"}
                      /\ field[reads[j].chunk] # 0 /\ reads[j].chunk \in worked
                      /\ \A l \in DOMAIN reads : reads[l].chunk = reads[j].chunk => j <= l
    BY <1>1, <1>6, <1>7 DEF OldIsFirst
  <2>1. j # i
    BY <1>8, <1>9
  <2> QED
    BY <1>8, <2>1 DEF Inv, OldIsFirst
<1>15. FreshRaw' /\ FreshHeld' /\ SavedIsThere'
  BY <1>1 DEF Inv, FreshRaw, FreshHeld, SavedIsThere
<1>16. GameHolds' /\ ResidentIsHeld' /\ HeldIsThere'
  BY <1>1 DEF Inv, GameHolds, ResidentIsHeld, HeldIsThere
<1>17. TouchedIsWork'
  BY <1>1 DEF Inv, TouchedIsWork, Untouched, Terrain
<1> QED
  BY <1>10, <1>11, <1>12, <1>13, <1>14, <1>15, <1>16, <1>17 DEF Inv

\* A step that changes neither the manager nor the reads nor the files keeps what is
\* said of those, if it leaves no more cells out of the promise.
LEMMA ReadsStayFresh ==
    ASSUME Inv, UNCHANGED <<m, reads, raw, disk, scene, resaved>>, late \subseteq late'
    PROVE  /\ IndexIsRows' /\ ReadsAreOfScene' /\ OneRead' /\ FreshRead' /\ FreshRaw'
           /\ editor' = editor => GameSavesNothing'
<1>1. IndexIsRows'
  BY DEF Inv, IndexIsRows, Rows
<1>2. ReadsAreOfScene' /\ OneRead'
  BY DEF Inv, ReadsAreOfScene, OneRead
<1>3. FreshRead' /\ FreshRaw'
  BY DEF Inv, FreshRead, FreshRaw
<1>4. editor' = editor => GameSavesNothing'
  BY DEF Inv, GameSavesNothing
<1> QED
  BY <1>1, <1>2, <1>3, <1>4

LEMMA MoveFocusInv ==
    ASSUME Inv, NEW f \in Foci, MoveFocus(f)
    PROVE  Inv'
<1>1. /\ foci' = f
      /\ UNCHANGED <<m, reads, raw, field, held, disk, editor, scene, snapshot, shaped,
                     worked, resaved, late>>
  BY DEF MoveFocus
<1>2. TypesOK'
  BY <1>1 DEF Inv, TypesOK, TypeOK
<1>3. /\ IndexIsRows' /\ ReadsAreOfScene' /\ OneRead' /\ FreshRead' /\ FreshRaw'
      /\ GameSavesNothing'
  BY <1>1, ReadsStayFresh
<1>4. HeldIsGround' /\ FreshHeld' /\ SavedIsThere' /\ OldIsFirst'
  BY <1>1 DEF Inv, HeldIsGround, FreshHeld, SavedIsThere, OldIsFirst
<1>5. GameHolds' /\ ResidentIsHeld' /\ HeldIsThere'
  BY <1>1 DEF Inv, GameHolds, ResidentIsHeld, HeldIsThere
<1>6. TouchedIsWork'
  BY <1>1 DEF Inv, TouchedIsWork, Untouched, Terrain
<1> QED
  BY <1>2, <1>3, <1>4, <1>5, <1>6 DEF Inv

\* Whoever owns the ground, what is held keeps its content.
LEMMA NotOwnIs ==
    ASSUME Inv, NEW c \in Chunk, NEW h, h = [held[c] EXCEPT !.own = FALSE]
    PROVE  /\ h \in [v : Nat, own : BOOLEAN] /\ h.v = held[c].v /\ h.own = FALSE
           /\ h = None <=> held[c] = None
           /\ h.v = 0 => h = None
<1>1. held[c] \in [v : Nat, own : BOOLEAN]
  BY InvGives
<1>2. /\ h = [v |-> held[c].v, own |-> FALSE] /\ held[c].v \in Nat
      /\ held[c] = [v |-> held[c].v, own |-> held[c].own]
  BY <1>1
<1>3. h.v = held[c].v /\ h.own = FALSE /\ h \in [v : Nat, own : BOOLEAN]
  BY <1>2
<1>4. held[c].v = 0 => held[c] = None
  BY DEF Inv, HeldIsGround
<1>5. h.v = 0 => h = None
  BY <1>2, <1>3 DEF None
<1>6. h = None => held[c] = None
  BY <1>3, <1>4 DEF None
<1>7. held[c] = None => h = None
  BY <1>3, <1>5 DEF None
<1> QED
  BY <1>3, <1>5, <1>6, <1>7

LEMMA ShapeInv ==
    ASSUME Inv, NEW x \in Chunk, NEW v \in Version \cup {0}, Shape(x, v)
    PROVE  Inv'
<1>1. /\ v = 0 => MayDigOut
      /\ field' = [field EXCEPT ![x] = v]
      /\ held' = [held EXCEPT ![x].own = FALSE]
      /\ snapshot' = IF editor THEN field ELSE snapshot
      /\ shaped' = shaped + 1 /\ worked' = worked \cup {x}
      /\ late' = late \cup ({x} \cap resaved)
      /\ UNCHANGED <<m, reads, raw, disk, editor, scene, foci, resaved>>
  BY DEF Shape
<1>2. /\ field \in [Chunk -> Nat] /\ held \in [Chunk -> [v : Nat, own : BOOLEAN]]
      /\ v \in Nat
  BY InvGives, FieldAssumption
<1> DEFINE h == [held[x] EXCEPT !.own = FALSE]
<1>3. /\ h \in [v : Nat, own : BOOLEAN] /\ h.v = held[x].v
      /\ (h = None <=> held[x] = None) /\ (h.v = 0 => h = None)
  BY NotOwnIs
<1>4. /\ held' \in [Chunk -> [v : Nat, own : BOOLEAN]]
      /\ \A c \in Chunk : held'[c] = IF c = x THEN h ELSE held[c]
  <2>1. held' = [held EXCEPT ![x] = h]
    BY <1>1
  <2> HIDE DEF h
  <2> QED
    BY <1>2, <1>3, <2>1
<1> HIDE DEF h
<1>5. field' \in [Chunk -> Nat] /\ \A c \in Chunk : field'[c] = IF c = x THEN v ELSE field[c]
  BY <1>1, <1>2
<1>6. TypesOK'
  <2>1. snapshot' \in [Chunk -> Nat] /\ shaped' \in Nat
    BY <1>1, <1>2 DEF Inv, TypesOK
  <2>2. TypeOK'
    BY <1>1, <1>4, <1>5 DEF Inv, TypesOK, TypeOK
  <2> QED
    BY <1>1, <2>1, <2>2 DEF Inv, TypesOK
<1>7. /\ IndexIsRows' /\ ReadsAreOfScene' /\ OneRead' /\ FreshRead' /\ FreshRaw'
      /\ GameSavesNothing'
  BY <1>1, ReadsStayFresh
<1>8. HeldIsGround' /\ FreshHeld'
  BY <1>1, <1>3, <1>4 DEF Inv, HeldIsGround, FreshHeld
<1>9. SavedIsThere'
  <2> SUFFICES ASSUME NEW c \in resaved \ late, c # x
               PROVE  /\ field'[c] \in {0, disk[scene][c]}
                      /\ field'[c] = 0 => held'[c] = None
                      /\ m.state[c] = "Decoded" /\ raw[c] # disk[scene][c]
                             => field'[c] # 0 /\ c \in worked'
    BY <1>1 DEF SavedIsThere
  <2>1. c \in Chunk
    BY InvGives
  <2> QED
    BY <1>1, <1>4, <1>5, <2>1 DEF Inv, SavedIsThere
<1>10. OldIsFirst'
  <2> SUFFICES ASSUME NEW i \in DOMAIN reads, reads[i].chunk \in resaved \ late,
                      reads[i].chunk # x,
                      reads[i].io = "Ready", reads[i].v # disk[scene][reads[i].chunk]
               PROVE  /\ m.state[reads[i].chunk] \notin {"Decoded", "Resident"}
                      /\ field'[reads[i].chunk] # 0 /\ reads[i].chunk \in worked'
                      /\ \A j \in DOMAIN reads : reads[j].chunk = reads[i].chunk => i <= j
    BY <1>1 DEF OldIsFirst
  <2>1. reads[i].chunk \in Chunk
    BY InvGives
  <2> QED
    BY <1>1, <1>5, <2>1 DEF Inv, OldIsFirst
<1>11. GameHolds' /\ ResidentIsHeld' /\ HeldIsThere'
  BY <1>1, <1>3, <1>4, <1>5 DEF Inv, GameHolds, ResidentIsHeld, HeldIsThere
<1>12. TouchedIsWork'
  <2> SUFFICES ASSUME NEW c \in Chunk \ late', field'[c] # 0, ~Untouched(c)', c # x
               PROVE  c \in worked
    BY <1>1 DEF TouchedIsWork
  <2>1. field'[c] = field[c] /\ held'[c] = held[c]
    BY <1>4, <1>5
  <2>2. ~Untouched(c)
    BY <1>1, <2>1, UntouchedStays
  <2> QED
    BY <1>1, <2>1, <2>2 DEF Inv, TouchedIsWork
<1> QED
  BY <1>6, <1>7, <1>8, <1>9, <1>10, <1>11, <1>12 DEF Inv

LEMMA UndoInv ==
    ASSUME Inv, Undo
    PROVE  Inv'
<1>1. /\ editor /\ field' = Reconciled(snapshot) /\ snapshot' = field
      /\ held' = [c \in Chunk |-> [held[c] EXCEPT !.own = FALSE]]
      /\ shaped' = shaped + 1 /\ worked' = worked \cup {c \in Chunk : snapshot[c] # 0}
      /\ late' = late \cup resaved
      /\ UNCHANGED <<m, reads, raw, disk, editor, scene, foci, resaved>>
  BY DEF Undo
<1>2. snapshot \in [Chunk -> Nat] /\ field \in [Chunk -> Nat] /\ \A c \in Chunk : held[c].v \in Nat
  BY InvGives DEF TypesOK
<1>3. \A c \in Chunk : held'[c] = [held[c] EXCEPT !.own = FALSE]
  BY <1>1
<1>4. \A c \in Chunk :
          /\ held'[c] \in [v : Nat, own : BOOLEAN] /\ held'[c].v = held[c].v
          /\ (held'[c] = None <=> held[c] = None) /\ (held'[c].v = 0 => held'[c] = None)
  BY <1>3, NotOwnIs
<1>5. held' \in [Chunk -> [v : Nat, own : BOOLEAN]]
  <2> DEFINE h(c) == [held[c] EXCEPT !.own = FALSE]
  <2>1. held' = [c \in Chunk |-> h(c)] /\ \A c \in Chunk : held'[c] = h(c)
    BY <1>1
  <2> HIDE DEF h
  <2> QED
    BY <1>4, <2>1
<1>6. \A c \in Chunk : field'[c] = IF snapshot[c] = 0 THEN held[c].v ELSE snapshot[c]
  BY <1>1 DEF Reconciled
<1>7. field' \in [Chunk -> Nat]
  BY <1>1, <1>2 DEF Reconciled
<1>8. TypesOK'
  BY <1>1, <1>2, <1>5, <1>7 DEF Inv, TypesOK, TypeOK
<1>9. /\ IndexIsRows' /\ ReadsAreOfScene' /\ OneRead' /\ FreshRead' /\ FreshRaw'
      /\ GameSavesNothing'
  BY <1>1, ReadsStayFresh
<1>10. HeldIsGround' /\ FreshHeld'
  BY <1>1, <1>4 DEF Inv, HeldIsGround, FreshHeld
<1>11. SavedIsThere' /\ OldIsFirst'
  BY <1>1 DEF SavedIsThere, OldIsFirst
<1>12. GameHolds' /\ ResidentIsHeld'
  BY <1>1, <1>4 DEF Inv, GameHolds, ResidentIsHeld
<1>13. HeldIsThere'
  BY <1>2, <1>4, <1>6 DEF HeldIsThere
<1>14. TouchedIsWork'
  <2> SUFFICES ASSUME NEW c \in Chunk, field'[c] # 0, ~Untouched(c)'
               PROVE  c \in worked'
    BY DEF TouchedIsWork
  <2>1. Untouched(c)' <=> held'[c] # None /\ field'[c] = held'[c].v
    BY <1>1 DEF Untouched, Terrain
  <2>2. snapshot[c] # 0
    <3> SUFFICES ASSUME snapshot[c] = 0 PROVE FALSE
      OBVIOUS
    <3>1. field'[c] = held'[c].v
      BY <1>4, <1>6
    <3>2. held'[c] # None
      BY <3>1 DEF None
    <3> QED
      BY <2>1, <3>1, <3>2
  <2> QED
    BY <1>1, <2>2
<1> QED
  BY <1>8, <1>9, <1>10, <1>11, <1>12, <1>13, <1>14 DEF Inv

\* Taking an index over drops the cells it does not name.
LEMMA AdoptedIs ==
    ASSUME Inv, NEW index \in SUBSET Chunk
    PROVE  /\ Sound(Adopted(index)) /\ Adopted(index).index = index
           /\ \A c \in Chunk : Adopted(index).state[c] = IF c \in index THEN m.state[c] ELSE "Unloaded"
<1>1. Sound(m) /\ \A c \in Chunk : m.state[c] # "Unloaded" => c \in m.index
  BY DEF Inv, TypesOK, TypeOK, Sound, IndexIsRows
<1> DEFINE d == Adopted(index)
<1>2. CASE m.index = {}
  <2>1. d = Fresh(index)
    BY <1>2 DEF Adopted
  <2> HIDE DEF d
  <2>2. Sound(d) /\ d.index = index /\ \A c \in Chunk : d.state[c] = "Unloaded"
    BY <2>1, FreshIs
  <2>3. \A c \in Chunk : m.state[c] = "Unloaded"
    BY <1>1, <1>2
  <2> QED
    BY <2>2, <2>3 DEF d
<1>3. CASE m.index # {}
  <2>1. d = ReplaceIndex(m, index)
    BY <1>3 DEF Adopted
  <2> HIDE DEF d
  <2>2. /\ Sound(d) /\ d.index = index
        /\ \A c \in Chunk : d.state[c] = IF c \in m.index \ index THEN "Unloaded" ELSE m.state[c]
    BY <1>1, <2>1, ReplacedIs
  <2>3. \A c \in Chunk : d.state[c] = IF c \in index THEN m.state[c] ELSE "Unloaded"
    BY <1>1, <2>2
  <2> QED
    BY <2>2, <2>3 DEF d
<1> QED
  BY <1>2, <1>3

\* A world with none of its ground, whose reads are all out of the promise.
LEMMA EmptyWorldInv ==
    ASSUME Inv, TypesOK', IndexIsRows', GameSavesNothing', late \subseteq late',
           BeingRead \subseteq late', reads' = reads, resaved' = resaved,
           field' = [c \in Chunk |-> 0], held' = [c \in Chunk |-> None],
           \A c \in Chunk \ late' : m'.state[c] = "Unloaded"
    PROVE  Inv'
<1>1. \A c \in Chunk : field'[c] = 0 /\ held'[c] = None
  OBVIOUS
<1>2. \A i \in DOMAIN reads' : reads'[i].chunk \in late'
  BY DEF BeingRead
<1>3. HeldIsGround' /\ FreshHeld' /\ HeldIsThere' /\ TouchedIsWork'
  BY <1>1 DEF HeldIsGround, FreshHeld, HeldIsThere, TouchedIsWork
<1>4. GameHolds' /\ ResidentIsHeld'
  BY <1>1 DEF GameHolds, ResidentIsHeld
<1>5. ReadsAreOfScene' /\ OneRead' /\ FreshRead' /\ OldIsFirst'
  BY <1>2 DEF ReadsAreOfScene, OneRead, FreshRead, OldIsFirst
<1>6. FreshRaw'
  BY DEF FreshRaw
<1>7. SavedIsThere'
  <2>1. \A c \in resaved \ late' : field'[c] = 0 /\ held'[c] = None /\ m'.state[c] = "Unloaded"
    BY <1>1, InvGives
  <2> QED
    BY <2>1 DEF SavedIsThere
<1> QED
  BY <1>3, <1>4, <1>5, <1>6, <1>7 DEF Inv

LEMMA OpenSceneInv ==
    ASSUME Inv, NEW s \in Scene, OpenScene(s)
    PROVE  Inv'
<1>1. /\ editor /\ scene' = s /\ m' = Adopted(Rows(s))
      /\ field' = [c \in Chunk |-> 0] /\ held' = [c \in Chunk |-> None]
      /\ snapshot' = field' /\ shaped' = shaped + 1
      /\ late' = late \cup {c \in m.index : m.state[c] # "Unloaded"} \cup BeingRead
      /\ UNCHANGED <<reads, raw, disk, editor, foci, resaved>>
  BY DEF OpenScene
<1>2. Rows(s) \in SUBSET Chunk
  BY DEF Rows
<1>3. /\ Sound(m') /\ m'.index = Rows(s)
      /\ \A c \in Chunk : m'.state[c] = IF c \in Rows(s) THEN m.state[c] ELSE "Unloaded"
  BY <1>1, <1>2, AdoptedIs
<1>4. TypesOK'
  <2>1. held' \in [Chunk -> [v : Nat, own : BOOLEAN]]
    BY <1>1 DEF None
  <2>2. field' \in [Chunk -> Nat] /\ snapshot' \in [Chunk -> Nat] /\ shaped' \in Nat
    BY <1>1 DEF Inv, TypesOK
  <2>3. TypeOK'
    BY <1>1, <1>3, <2>1, <2>2 DEF Inv, TypesOK, TypeOK, Sound
  <2> QED
    BY <1>1, <2>2, <2>3 DEF Inv, TypesOK
<1>5. IndexIsRows'
  BY <1>1, <1>3 DEF IndexIsRows, Rows
<1>6. GameSavesNothing'
  BY <1>1 DEF GameSavesNothing
<1>7. \A c \in Chunk \ late' : m'.state[c] = "Unloaded"
  BY <1>1, <1>3 DEF Inv, IndexIsRows
<1>8. late \subseteq late' /\ BeingRead \subseteq late'
  BY <1>1
<1> QED
  BY <1>1, <1>4, <1>5, <1>6, <1>7, <1>8, EmptyWorldInv

LEMMA ReloadInv ==
    ASSUME Inv, Reload
    PROVE  Inv'
<1>1. /\ field' = [c \in Chunk |-> 0] /\ held' = [c \in Chunk |-> None]
      /\ m' = Fresh(m.index) /\ shaped' = shaped + 1 /\ late' = late \cup BeingRead
      /\ UNCHANGED <<reads, raw, disk, editor, scene, snapshot, foci, resaved>>
  BY DEF Reload, ForgetResidency
<1>2. m.index \in SUBSET Chunk /\ m.index = Rows(scene)
  BY DEF Inv, IndexIsRows, Rows
<1>3. Sound(m') /\ m'.index = m.index /\ \A c \in Chunk : m'.state[c] = "Unloaded"
  BY <1>1, <1>2, FreshIs
<1>4. TypesOK'
  <2>1. held' \in [Chunk -> [v : Nat, own : BOOLEAN]]
    BY <1>1 DEF None
  <2>2. field' \in [Chunk -> Nat] /\ shaped' \in Nat
    BY <1>1 DEF Inv, TypesOK
  <2>3. TypeOK'
    BY <1>1, <1>3, <2>1, <2>2 DEF Inv, TypesOK, TypeOK, Sound
  <2> QED
    BY <1>1, <2>2, <2>3 DEF Inv, TypesOK
<1>5. IndexIsRows' /\ GameSavesNothing'
  BY <1>1, <1>2, <1>3 DEF Inv, IndexIsRows, Rows, GameSavesNothing
<1>6. late \subseteq late' /\ BeingRead \subseteq late'
  BY <1>1
<1> QED
  BY <1>1, <1>3, <1>4, <1>5, <1>6, EmptyWorldInv

-----------------------------------------------------------------------------
(* A save.                                                                   *)

\* What a save that writes W makes of each cell.
Wrote(W, c)  == /\ c \in W /\ disk'[scene][c] = field[c]
                /\ held'[c] = [v |-> field[c], own |-> TRUE]
Erased(W, c) == c \in DugOut \ W /\ disk'[scene][c] = 0 /\ held'[c] = None
Passed(W, c) == c \notin W \cup DugOut /\ disk'[scene][c] = disk[scene][c] /\ held'[c] = held[c]

LEMMA SaveIs ==
    ASSUME Inv, NEW U \in SUBSET Chunk, Save(U)
    PROVE  LET W == ToWrite \ U
           IN  /\ editor /\ Sound(m') /\ m'.index = (m.index \ DugOut) \cup W
               /\ disk' \in [Scene -> [Chunk -> Nat]]
               /\ held' \in [Chunk -> [v : Nat, own : BOOLEAN]]
               /\ \A c \in Chunk : Wrote(W, c) \/ Erased(W, c) \/ Passed(W, c)
               /\ \A c \in Chunk : m'.state[c] = IF c \in m'.index THEN m.state[c] ELSE "Unloaded"
               /\ worked' = worked \ {c \in W : m.state[c] = "Resident"}
               /\ resaved' = resaved \cup (W \cap (BeingRead \cup In(m, "Decoded")))
               /\ UNCHANGED <<reads, raw, field, editor, scene, snapshot, foci, shaped, late>>
<1> DEFINE W == ToWrite \ U
           X == (m.index \ DugOut) \cup W
           g == [c \in Chunk |-> IF c \in W THEN field[c] ELSE IF c \in DugOut THEN 0
                                 ELSE disk[scene][c]]
<1>1. /\ editor /\ m' = Adopted(X)
      /\ worked' = worked \ {c \in W : m.state[c] = "Resident"}
      /\ resaved' = resaved \cup (W \cap (BeingRead \cup In(m, "Decoded")))
      /\ UNCHANGED <<reads, raw, field, editor, scene, snapshot, foci, shaped, late>>
  BY DEF Save
<1>2. disk' = [disk EXCEPT ![scene] = g]
  BY DEF Save
<1>3. held' = [c \in Chunk |-> IF c \in W THEN [v |-> field[c], own |-> TRUE]
                               ELSE IF c \in DugOut THEN None ELSE held[c]]
  BY DEF Save, HeldAfter
<1>4. W \in SUBSET Chunk /\ m.index \in SUBSET Chunk
  BY DEF ToWrite, Inv, IndexIsRows, Rows
<1> HIDE DEF W
<1>5. g \in [Chunk -> Nat] /\ \A c \in Chunk : g[c] = IF c \in W THEN field[c]
                                       ELSE IF c \in DugOut THEN 0 ELSE disk[scene][c]
  BY InvGives
<1> HIDE DEF g
<1>6. disk' \in [Scene -> [Chunk -> Nat]] /\ disk'[scene] = g
  BY <1>2, <1>5, InvGives
<1>7. X \in SUBSET Chunk
  BY <1>4
<1> HIDE DEF X
<1>8. /\ Sound(m') /\ m'.index = X
      /\ \A c \in Chunk : m'.state[c] = IF c \in X THEN m.state[c] ELSE "Unloaded"
  BY <1>1, <1>7, AdoptedIs
<1>9. held' \in [Chunk -> [v : Nat, own : BOOLEAN]]
  BY <1>3, InvGives DEF None
<1>10. \A c \in Chunk : held'[c] = IF c \in W THEN [v |-> field[c], own |-> TRUE]
                                   ELSE IF c \in DugOut THEN None ELSE held[c]
  BY <1>3
<1>11. \A c \in Chunk : Wrote(W, c) \/ Erased(W, c) \/ Passed(W, c)
  BY <1>5, <1>6, <1>10 DEF Wrote, Erased, Passed
<1> QED
  BY <1>1, <1>6, <1>8, <1>9, <1>11 DEF W, X

LEMMA SaveInv ==
    ASSUME Inv, NEW U \in SUBSET Chunk, Save(U)
    PROVE  Inv'
<1> DEFINE W == ToWrite \ U
<1>1. /\ editor /\ Sound(m') /\ m'.index = (m.index \ DugOut) \cup W
      /\ disk' \in [Scene -> [Chunk -> Nat]]
      /\ held' \in [Chunk -> [v : Nat, own : BOOLEAN]]
      /\ \A c \in Chunk : Wrote(W, c) \/ Erased(W, c) \/ Passed(W, c)
      /\ \A c \in Chunk : m'.state[c] = IF c \in m'.index THEN m.state[c] ELSE "Unloaded"
      /\ worked' = worked \ {c \in W : m.state[c] = "Resident"}
      /\ resaved' = resaved \cup (W \cap (BeingRead \cup In(m, "Decoded")))
      /\ UNCHANGED <<reads, raw, field, editor, scene, snapshot, foci, shaped, late>>
  BY SaveIs
<1>2. W \in SUBSET Chunk /\ \A c \in W : field[c] # 0 /\ ~Untouched(c)
  BY DEF ToWrite
<1>3. \A c \in DugOut : field[c] = 0 /\ held[c] # None
  BY DEF DugOut
<1> HIDE DEF W
<1>4. W \cap DugOut = {}
  BY <1>2, <1>3
<1>5. /\ \A c \in Chunk : m.state[c] # "Unloaded" => c \in m.index
      /\ \A c \in Chunk : c \in m.index <=> disk[scene][c] # 0
  BY DEF Inv, IndexIsRows, Rows
<1>6. \A i \in DOMAIN reads : reads[i].chunk \in Chunk /\ reads[i].chunk \in BeingRead
  BY ReadsAreTyped, InvGives DEF BeingRead
<1>7. \A c \in Chunk : field[c] \in Nat /\ held[c] \in [v : Nat, own : BOOLEAN]
  BY InvGives
<1>8. TypesOK'
  <2>1. resaved' \subseteq Chunk
    BY <1>1, <1>2, InvGives
  <2>2. TypeOK'
    BY <1>1 DEF Inv, TypesOK, TypeOK, Sound
  <2> QED
    BY <1>1, <2>1, <2>2 DEF Inv, TypesOK
<1>9. IndexIsRows'
  <2>1. \A c \in Chunk : c \in m'.index <=> disk'[scene][c] # 0
    BY <1>1, <1>2, <1>4, <1>5 DEF Wrote, Erased, Passed
  <2>2. m'.index \subseteq Chunk
    BY <1>1, <1>2 DEF Inv, IndexIsRows, Rows
  <2>3. m'.index = Rows(scene)'
    BY <1>1, <2>1, <2>2 DEF Rows
  <2> QED
    BY <1>1, <2>3 DEF IndexIsRows
<1>10. HeldIsGround'
  <2> SUFFICES ASSUME NEW c \in Chunk, held'[c].v = 0 PROVE held'[c] = None
    BY DEF HeldIsGround
  <2>1. CASE Wrote(W, c)
    BY <1>2, <2>1 DEF Wrote
  <2>2. CASE Erased(W, c)
    BY <2>2 DEF Erased
  <2>3. CASE Passed(W, c)
    BY <2>3 DEF Passed, Inv, HeldIsGround
  <2> QED
    BY <1>1, <2>1, <2>2, <2>3
<1>11. GameSavesNothing' /\ GameHolds' /\ ReadsAreOfScene'
  BY <1>1 DEF GameSavesNothing, GameHolds, Inv, ReadsAreOfScene
<1>12. ASSUME NEW i \in DOMAIN reads, reads[i].chunk \notin late \cup resaved'
       PROVE  reads[i].chunk \notin late \cup resaved /\ reads[i].chunk \notin W
  BY <1>1, <1>6, <1>12
<1>13. OneRead'
  <2> SUFFICES ASSUME NEW i \in DOMAIN reads, reads[i].chunk \notin late \cup resaved'
               PROVE  /\ reads[i].chunk \in m'.index => m'.state[reads[i].chunk] = "Loading"
                      /\ \A j \in DOMAIN reads : reads[j].chunk = reads[i].chunk => j = i
    BY <1>1 DEF OneRead
  <2>1. reads[i].chunk \notin late \cup resaved /\ reads[i].chunk \notin W
    BY <1>12
  <2>2. reads[i].chunk \in m'.index => reads[i].chunk \in m.index
    BY <1>1, <2>1
  <2>3. /\ reads[i].chunk \in m.index => m.state[reads[i].chunk] = "Loading"
        /\ \A j \in DOMAIN reads : reads[j].chunk = reads[i].chunk => j = i
    BY <2>1 DEF Inv, OneRead
  <2> QED
    BY <1>1, <1>6, <2>2, <2>3
<1>14. FreshRead'
  <2> SUFFICES ASSUME NEW i \in DOMAIN reads, reads[i].chunk \in m'.index \ (late \cup resaved'),
                      reads[i].io = "Ready"
               PROVE  reads[i].v = disk'[scene][reads[i].chunk]
    BY <1>1 DEF FreshRead
  <2>1. reads[i].chunk \notin late \cup resaved /\ reads[i].chunk \notin W
    BY <1>12
  <2>2. reads[i].chunk \in m.index /\ reads[i].chunk \notin DugOut
    BY <1>1, <2>1
  <2>3. disk'[scene][reads[i].chunk] = disk[scene][reads[i].chunk]
    BY <1>1, <1>6, <2>1, <2>2 DEF Wrote, Erased, Passed
  <2>4. reads[i].v = disk[scene][reads[i].chunk]
    BY <2>1, <2>2 DEF Inv, FreshRead
  <2> QED
    BY <2>3, <2>4
<1>15. FreshRaw'
  <2> SUFFICES ASSUME NEW c \in Chunk, c \notin late \cup resaved', m'.state[c] = "Decoded"
               PROVE  raw[c] = disk'[scene][c]
    BY <1>1 DEF FreshRaw
  <2>1. c \in m'.index /\ m.state[c] = "Decoded"
    BY <1>1
  <2>2. c \notin W /\ c \notin resaved
    BY <1>1, <2>1 DEF In
  <2>3. c \notin DugOut
    BY <1>1, <2>1, <2>2
  <2>4. disk'[scene][c] = disk[scene][c]
    BY <1>1, <2>2, <2>3 DEF Wrote, Erased, Passed
  <2> QED
    BY <2>1, <2>2, <2>4 DEF Inv, FreshRaw
<1>16. FreshHeld'
  <2> SUFFICES ASSUME NEW c \in Chunk, c \notin late \cup resaved', held'[c] # None
               PROVE  held'[c].v = disk'[scene][c]
    BY <1>1 DEF FreshHeld
  <2>1. CASE Wrote(W, c)
    BY <2>1 DEF Wrote
  <2>2. CASE Passed(W, c)
    BY <1>1, <2>2 DEF Passed, Inv, FreshHeld
  <2> QED
    BY <1>1, <2>1, <2>2 DEF Erased
<1>17. ASSUME NEW c \in resaved \ late
       PROVE  disk'[scene][c] = disk[scene][c] /\ c \notin DugOut
  <2>1. c \in Chunk /\ field[c] \in {0, disk[scene][c]} /\ (field[c] = 0 => held[c] = None)
    BY InvGives DEF Inv, SavedIsThere
  <2>2. c \notin DugOut
    BY <1>3, <2>1
  <2>3. CASE Wrote(W, c)
    BY <1>2, <2>1, <2>2, <2>3 DEF Wrote
  <2>4. CASE Passed(W, c)
    BY <2>2, <2>4 DEF Passed
  <2> QED
    BY <1>1, <2>1, <2>2, <2>3, <2>4 DEF Erased
<1>18. ASSUME NEW c \in W \ late
       PROVE  c \in worked /\ field[c] # 0 /\ disk'[scene][c] = field[c]
  <2>1. c \in worked /\ field[c] # 0
    BY <1>2, <1>18 DEF Inv, TouchedIsWork
  <2> QED
    BY <1>1, <1>2, <1>4, <2>1 DEF Wrote, Erased, Passed
<1>19. SavedIsThere'
  <2> SUFFICES ASSUME NEW c \in resaved' \ late, c \in Chunk
               PROVE  /\ field[c] \in {0, disk'[scene][c]}
                      /\ field[c] = 0 => held'[c] = None
                      /\ m'.state[c] = "Decoded" /\ raw[c] # disk'[scene][c]
                             => field[c] # 0 /\ c \in worked'
    BY <1>1, <1>2, InvGives DEF SavedIsThere
  <2>1. CASE c \in W
    BY <1>1, <1>18, <2>1
  <2>2. CASE c \notin W
    <3>1. c \in resaved \ late
      BY <1>1, <2>2
    <3>2. disk'[scene][c] = disk[scene][c] /\ c \notin DugOut
      BY <1>17, <3>1
    <3>3. held'[c] = held[c]
      BY <1>1, <2>2, <3>2 DEF Wrote, Erased, Passed
    <3>4. m'.state[c] = "Decoded" => m.state[c] = "Decoded"
      BY <1>1
    <3>5. c \in worked => c \in worked'
      BY <1>1, <2>2
    <3> QED
      BY <3>1, <3>2, <3>3, <3>4, <3>5 DEF Inv, SavedIsThere
  <2> QED
    BY <2>1, <2>2
<1>20. OldIsFirst'
  <2> SUFFICES ASSUME NEW i \in DOMAIN reads, reads[i].chunk \in resaved' \ late,
                      reads[i].io = "Ready", reads[i].v # disk'[scene][reads[i].chunk]
               PROVE  /\ m'.state[reads[i].chunk] \notin {"Decoded", "Resident"}
                      /\ field[reads[i].chunk] # 0 /\ reads[i].chunk \in worked'
                      /\ \A j \in DOMAIN reads : reads[j].chunk = reads[i].chunk => i <= j
    BY <1>1 DEF OldIsFirst
  <2> DEFINE c == reads[i].chunk
  <2>1. c \in Chunk
    BY <1>6
  <2>2. CASE c \in resaved
    <3>1. disk'[scene][c] = disk[scene][c]
      BY <1>17, <2>2
    <3>2. /\ m.state[c] \notin {"Decoded", "Resident"} /\ field[c] # 0 /\ c \in worked
          /\ \A j \in DOMAIN reads : reads[j].chunk = c => i <= j
      BY <2>2, <3>1 DEF Inv, OldIsFirst
    <3> QED
      BY <1>1, <2>1, <3>2
  <2>3. CASE c \notin resaved
    <3>1. c \in W
      BY <1>1, <2>3
    <3>2. /\ c \in m.index => m.state[c] = "Loading"
          /\ \A j \in DOMAIN reads : reads[j].chunk = c => j = i
      BY <2>3 DEF Inv, OneRead
    <3>3. m.state[c] \notin {"Decoded", "Resident"}
      BY <1>5, <2>1, <3>2
    <3>4. field[c] # 0 /\ c \in worked
      BY <1>18, <3>1
    <3>5. i \in Int
      BY ReadsAreTyped, InvGives
    <3> QED
      BY <1>1, <2>1, <3>2, <3>3, <3>4, <3>5
  <2> QED
    BY <2>2, <2>3
<1>21. ResidentIsHeld'
  <2> SUFFICES ASSUME NEW c \in Chunk \ late, m'.state[c] = "Resident" PROVE held'[c] # None
    BY <1>1 DEF ResidentIsHeld
  <2>1. c \in m'.index /\ m.state[c] = "Resident"
    BY <1>1
  <2>2. CASE Wrote(W, c)
    BY <2>2 DEF Wrote, None
  <2>3. CASE Passed(W, c)
    BY <2>1, <2>3 DEF Passed, Inv, ResidentIsHeld
  <2> QED
    BY <1>1, <2>1, <2>2, <2>3 DEF Erased
<1>22. HeldIsThere'
  <2> SUFFICES ASSUME NEW c \in Chunk \ late, held'[c] # None PROVE field[c] # 0 \/ MayDigOut
    BY <1>1 DEF HeldIsThere
  <2>1. CASE Wrote(W, c)
    BY <1>2, <2>1 DEF Wrote
  <2>2. CASE Passed(W, c)
    BY <2>2 DEF Passed, Inv, HeldIsThere
  <2> QED
    BY <1>1, <2>1, <2>2 DEF Erased
<1>23. TouchedIsWork'
  <2> SUFFICES ASSUME NEW c \in Chunk \ late, field[c] # 0, ~Untouched(c)'
               PROVE  c \in worked'
    BY <1>1 DEF TouchedIsWork
  <2>1. CASE Wrote(W, c)
    <3>1. held'[c].v = field[c] /\ held'[c].own = TRUE
      BY <2>1 DEF Wrote
    <3>2. held'[c] # None
      BY <3>1 DEF None
    <3> QED
      BY <1>1, <3>1, <3>2 DEF Untouched
  <2>2. CASE Passed(W, c)
    <3>1. ~Untouched(c)
      BY <1>1, <2>2, UntouchedStays DEF Passed
    <3>2. c \in worked
      BY <3>1 DEF Inv, TouchedIsWork
    <3> QED
      BY <1>1, <2>2, <3>2 DEF Passed
  <2> QED
    BY <1>1, <1>3, <2>1, <2>2 DEF Erased
<1> QED
  BY <1>8, <1>9, <1>10, <1>11, <1>13, <1>14, <1>15, <1>16, <1>19, <1>20, <1>21, <1>22, <1>23 DEF Inv

-----------------------------------------------------------------------------
(* The invariant, and what follows from it.                                  *)

LEMMA StutterInv ==
    ASSUME Inv, UNCHANGED vars PROVE Inv'
<1>1. UNCHANGED <<m, reads, raw, field, held, disk, editor, scene, snapshot, foci, shaped,
                  worked, resaved, late>>
  BY DEF vars
<1>2. TypesOK' /\ HeldIsGround' /\ FreshHeld' /\ SavedIsThere' /\ OldIsFirst'
  BY <1>1 DEF Inv, TypesOK, TypeOK, HeldIsGround, FreshHeld, SavedIsThere, OldIsFirst
<1>3. /\ IndexIsRows' /\ ReadsAreOfScene' /\ OneRead' /\ FreshRead' /\ FreshRaw'
      /\ GameSavesNothing'
  BY <1>1, ReadsStayFresh
<1>4. GameHolds' /\ ResidentIsHeld' /\ HeldIsThere'
  BY <1>1 DEF Inv, GameHolds, ResidentIsHeld, HeldIsThere
<1>5. TouchedIsWork'
  BY <1>1 DEF Inv, TouchedIsWork, Untouched, Terrain
<1> QED
  BY <1>2, <1>3, <1>4, <1>5 DEF Inv

LEMMA NextInv ==
    ASSUME Inv, [Next]_vars PROVE Inv'
<1>1. ASSUME NEW c \in Chunk, ReadOf(c) PROVE Inv'
  <2>1. PICK i \in DOMAIN reads, ok \in BOOLEAN : ReadEnds(i, ok)
    BY <1>1 DEF ReadOf
  <2> QED
    BY <2>1, ReadEndsInv
<1>2. ASSUME NEW f \in Foci, MoveFocus(f) PROVE Inv'
  BY <1>2, MoveFocusInv
<1>3. ASSUME NEW c \in Chunk, NEW v \in Version \cup {0}, Shape(c, v) PROVE Inv'
  BY <1>3, ShapeInv
<1>4. CASE Undo
  BY <1>4, UndoInv
<1>5. ASSUME NEW s \in Scene, OpenScene(s) PROVE Inv'
  BY <1>5, OpenSceneInv
<1>6. ASSUME NEW S \in SUBSET Chunk, Save(S) PROVE Inv'
  BY <1>6, SaveInv
<1>7. CASE Reload
  BY <1>7, ReloadInv
<1>8. CASE AnyFrame
  BY <1>8, FrameInv
<1>9. CASE UNCHANGED vars
  BY <1>9, StutterInv
<1> QED
  BY <1>1, <1>2, <1>3, <1>4, <1>5, <1>6, <1>7, <1>8, <1>9 DEF Next

\* Every behaviour keeps what is said above of the reads, the cells and the files.
THEOREM InvHolds == Spec => []Inv
<1>1. Init => Inv
  BY InvInit
<1>2. Inv /\ [Next]_vars => Inv'
  BY NextInv
<1> QED
  BY <1>1, <1>2, PTL DEF Spec

LEMMA InvIsGroundIsHeld ==
    ASSUME Inv PROVE GroundIsHeld
<1>1. TypeOK
  BY DEF Inv, TypesOK
<1>2. ResidentHasGround
  BY DEF Inv, ResidentIsHeld, HeldIsThere, ResidentHasGround, HasGround
<1>3. OnlyWorkStays
  BY DEF Inv, TouchedIsWork, Untouched, OnlyWorkStays
<1> QED
  BY <1>1, <1>2, <1>3 DEF GroundIsHeld

\* A cell the manager takes for resident has its ground and is held, and ground that
\* nothing holds is somebody's work: FieldStreamer's drain, evict and materialize.
THEOREM GroundIsHeldHolds == Spec => []GroundIsHeld
<1>1. Inv => GroundIsHeld
  BY InvIsGroundIsHeld
<1> QED
  BY <1>1, InvHolds, PTL

\* A cell the editor's next save would leave as unchanged is what its file holds,
\* whatever was read, saved and dropped before.
THEOREM UnchangedIsSavedHolds == Spec => []UnchangedIsSaved
<1>1. Inv => UnchangedIsSaved
  BY UntouchedIsSaved DEF UnchangedIsSaved
<1> QED
  BY <1>1, InvHolds, PTL

-----------------------------------------------------------------------------
(* Streaming changes nothing about the ground.                               *)

\* Where an edit leaves something, the ground is what the field has, else what the
\* file will bring.
LEMMA ShownIs ==
    ASSUME Inv, MayDigOut = FALSE
    PROVE  \A c \in Chunk : Shown[c] = IF c \in late THEN 0
                                       ELSE IF field[c] # 0 THEN field[c] ELSE disk[scene][c]
<1>1. \A c \in Chunk \ late : held[c] # None => field[c] # 0
  BY DEF Inv, HeldIsThere
<1> QED
  BY <1>1 DEF Shown

LEMMA ShownIsGround ==
    ASSUME Inv PROVE Shown \in [Chunk -> Nat]
<1>1. \A c \in Chunk : field[c] \in Nat /\ disk[scene][c] \in Nat
  BY InvGives
<1> QED
  BY <1>1 DEF Shown

LEMMA SameShown ==
    ASSUME Inv, Inv', MayDigOut = FALSE, late' = late,
           \A c \in Chunk \ late : (IF field'[c] # 0 THEN field'[c] ELSE disk'[scene'][c])
                                   = IF field[c] # 0 THEN field[c] ELSE disk[scene][c]
    PROVE  Shown' = Shown
<1>1. \A c \in Chunk : Shown[c] = IF c \in late THEN 0
                                  ELSE IF field[c] # 0 THEN field[c] ELSE disk[scene][c]
  BY ShownIs
<1>2. \A c \in Chunk \ late : held'[c] # None => field'[c] # 0
  BY DEF Inv, HeldIsThere
<1>3. \A c \in Chunk : Shown'[c] = IF c \in late THEN 0
                                   ELSE IF field'[c] # 0 THEN field'[c] ELSE disk'[scene'][c]
  BY <1>2 DEF Shown
<1>4. \A c \in Chunk : Shown'[c] = Shown[c]
  BY <1>1, <1>3
<1>5. Shown = [c \in Chunk |-> Shown[c]] /\ Shown' = [c \in Chunk |-> Shown'[c]]
  BY DEF Shown
<1> QED
  BY <1>4, <1>5

LEMMA FrameShows ==
    ASSUME Inv, Inv', AnyFrame, MayDigOut = FALSE
    PROVE  Shown' = Shown /\ shaped' = shaped
<1>1. PICK k, n, r, refused : AFrame(k, n, r, refused)
  BY FrameExists, InvGives
<1>2. disk' = disk /\ scene' = scene /\ late' = late /\ shaped' = shaped /\ k \in Nat
  BY <1>1, FrameKeeps DEF AFrame
<1>3. ASSUME NEW c \in Chunk \ late
      PROVE  (IF field'[c] # 0 THEN field'[c] ELSE disk[scene][c])
             = IF field[c] # 0 THEN field[c] ELSE disk[scene][c]
  <2>1. Quiet(c, k) \/ Spoilt(c, k) \/ Asked(c, k) \/ Dropped(c, k) \/ Brought(c, k)
    BY <1>1, FrameCell
  <2>2. CASE Same(c)
    BY <2>2 DEF Same
  <2>3. CASE Dropped(c, k)
    <3>1. Untouched(c) => field[c] = disk[scene][c]
      BY UntouchedIsSaved
    <3> QED
      BY <2>3, <3>1 DEF Dropped
  <2>4. CASE Brought(c, k)
    <3>1. Drained(k).state[c] = "Decoded"
      BY <2>4 DEF Brought
    <3>2. RawAfter(k)[c] = disk[scene][c] \/ field[c] # 0
      BY <1>2, <3>1, DecodedIs
    <3> QED
      BY <2>4, <3>2 DEF Brought
  <2> QED
    BY <2>1, <2>2, <2>3, <2>4 DEF Quiet, Spoilt, Asked
<1> QED
  BY <1>2, <1>3, SameShown

LEMMA SaveShows ==
    ASSUME Inv, Inv', NEW U \in SUBSET Chunk, Save(U), MayDigOut = FALSE
    PROVE  Shown' = Shown /\ shaped' = shaped
<1> DEFINE W == ToWrite \ U
<1>1. /\ \A c \in Chunk : Wrote(W, c) \/ Erased(W, c) \/ Passed(W, c)
      /\ UNCHANGED <<field, scene, shaped, late>>
  BY SaveIs
<1>2. \A c \in W : field[c] # 0
  BY DEF ToWrite
<1> HIDE DEF W
<1>3. ASSUME NEW c \in Chunk \ late
      PROVE  (IF field[c] # 0 THEN field[c] ELSE disk'[scene][c])
             = IF field[c] # 0 THEN field[c] ELSE disk[scene][c]
  <2>1. ~Erased(W, c)
    BY DEF Erased, DugOut, Inv, HeldIsThere
  <2> QED
    BY <1>1, <1>2, <2>1 DEF Wrote, Passed
<1> QED
  BY <1>1, <1>3, SameShown

LEMMA QuietShows ==
    ASSUME UNCHANGED <<field, held, disk, scene, late, shaped>>
    PROVE  Shown' = Shown /\ shaped' = shaped
  BY DEF Shown

\* In a world nobody may dig out, loading, dropping and saving cells leaves the ground
\* as it was, and only an edit, an undo, another scene or a reload changes it: the
\* sharing that lets the field win, and the eviction that keeps what was touched.
THEOREM ImplementsGroundHolds ==
    ASSUME MayDigOut = FALSE PROVE Spec => ImplementsGround
<1>1. Init => Promise!Init
  <2> SUFFICES ASSUME Init PROVE Promise!Init
    OBVIOUS
  <2>1. Shown \in [Chunk -> Nat] /\ shaped = 0
    BY InvInit, ShownIsGround DEF Init
  <2> QED
    BY <2>1 DEF Promise!Init
<1>2. Inv /\ Inv' /\ [Next]_vars => [Promise!Next]_<<Shown, shaped>>
  <2> SUFFICES ASSUME Inv, Inv', [Next]_vars
               PROVE  [Promise!Next]_<<Shown, shaped>>
    OBVIOUS
  <2>1. Shown' \in [Chunk -> Nat]
    <3>1. TypesOK' /\ TypeOK'
      BY DEF Inv, TypesOK
    <3>2. field' \in [Chunk -> Nat] /\ scene' \in Scene /\ disk' \in [Scene -> [Chunk -> Nat]]
      BY <3>1 DEF TypesOK, TypeOK
    <3>3. \A c \in Chunk : field'[c] \in Nat /\ disk'[scene'][c] \in Nat
      BY <3>2
    <3> QED
      BY <3>3 DEF Shown
  <2>2. ASSUME NEW c \in Chunk, ReadOf(c) PROVE Shown' = Shown /\ shaped' = shaped
    <3>1. PICK i \in DOMAIN reads, ok \in BOOLEAN : ReadEnds(i, ok)
      BY <2>2 DEF ReadOf
    <3> QED
      BY <3>1, QuietShows DEF ReadEnds
  <2>3. ASSUME NEW f \in Foci, MoveFocus(f) PROVE Shown' = Shown /\ shaped' = shaped
    BY <2>3, QuietShows DEF MoveFocus
  <2>4. ASSUME NEW c \in Chunk, NEW v \in Version \cup {0}, Shape(c, v) PROVE shaped' = shaped + 1
    BY <2>4 DEF Shape
  <2>5. ASSUME Undo PROVE shaped' = shaped + 1
    BY <2>5 DEF Undo
  <2>6. ASSUME NEW s \in Scene, OpenScene(s) PROVE shaped' = shaped + 1
    BY <2>6 DEF OpenScene
  <2>7. ASSUME NEW S \in SUBSET Chunk, Save(S) PROVE Shown' = Shown /\ shaped' = shaped
    BY <2>7, SaveShows
  <2>8. ASSUME Reload PROVE shaped' = shaped + 1
    BY <2>8 DEF Reload
  <2>9. ASSUME AnyFrame PROVE Shown' = Shown /\ shaped' = shaped
    BY <2>9, FrameShows
  <2>10. ASSUME UNCHANGED vars PROVE Shown' = Shown /\ shaped' = shaped
    BY <2>10, QuietShows DEF vars
  <2>11. shaped' = shaped + 1 \/ (Shown' = Shown /\ shaped' = shaped)
    BY <2>2, <2>3, <2>4, <2>5, <2>6, <2>7, <2>8, <2>9, <2>10 DEF Next
  <2> QED
    BY <2>1, <2>11 DEF Promise!Next, Promise!Shape
<1> QED
  BY <1>1, <1>2, InvHolds, PTL DEF Spec, ImplementsGround, Promise!Spec
=============================================================================
