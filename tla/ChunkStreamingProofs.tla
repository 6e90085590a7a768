------------------------- MODULE ChunkStreamingProofs -------------------------
(* Theorems about ChunkStreaming, for any chunks, foci, radii, budget and   *)
(* number of reloads.                                                       *)
EXTENDS ChunkStreaming, SublistProofs, SequenceTheorems

-----------------------------------------------------------------------------
(* What the host tells the manager, and what the manager does about it.     *)

\* The places taken are those of the chunks that are loading.
Sound(mm) ==
    /\ mm \in Managers /\ mm.index = Chunk
    /\ mm.inFlight = Cardinality(In(mm, "Loading"))

LEMMA InIsFinite ==
    ASSUME NEW mm, NEW s
    PROVE  /\ IsFiniteSet(In(mm, s)) /\ Cardinality(In(mm, s)) \in Nat
           /\ In(mm, s) \in SUBSET Chunk
<1>1. In(mm, s) \in SUBSET Chunk
  BY DEF In
<1>2. IsFiniteSet(Chunk)
  BY StreamingAssumption
<1>3. IsFiniteSet(In(mm, s))
  BY <1>1, <1>2, FS_Subset
<1> QED
  BY <1>1, <1>3, FS_CardinalityType

LEMMA PutIs ==
    ASSUME NEW mm \in Managers, NEW S \in SUBSET Chunk, NEW s \in ChunkState
    PROVE  /\ Put(mm, S, s) \in Managers
           /\ Put(mm, S, s).index = mm.index /\ Put(mm, S, s).wanted = mm.wanted
           /\ Put(mm, S, s).inFlight = mm.inFlight /\ Put(mm, S, s).bytes = mm.bytes
           /\ \A c \in Chunk : Put(mm, S, s).state[c] = IF c \in S THEN s ELSE mm.state[c]
<1>1. mm.state \in [Chunk -> ChunkState]
  BY DEF Managers
<1>2. [c \in Chunk |-> IF c \in S THEN s ELSE mm.state[c]] \in [Chunk -> ChunkState]
  BY <1>1
<1>3. Put(mm, S, s) = [mm EXCEPT !.state = [c \in Chunk |-> IF c \in S THEN s ELSE mm.state[c]]]
  BY DEF Put
<1> QED
  BY <1>2, <1>3 DEF Managers

LEMMA LessIs ==
    ASSUME NEW n \in Nat, NEW k \in Nat
    PROVE  Less(n, k) \in Nat /\ (k <= n => Less(n, k) = n - k)
  BY DEF Less

\* The chunks of L and F are decoded or have failed, and the others are what they were.
Moved(d, mm, L, F) ==
    \A c \in Chunk : /\ c \in F => d.state[c] = "Failed"
                     /\ c \in L \ F => d.state[c] = "Decoded"
                     /\ c \notin L \cup F => d.state[c] = mm.state[c]

\* A completion moves its chunk wherever it was ...
LEMMA DeliveredIs ==
    ASSUME NEW mm, Sound(mm), NEW L \in SUBSET Chunk, NEW F \in SUBSET Chunk
    PROVE  LET d == Delivered(mm, L, F)
           IN  /\ d \in Managers /\ d.index = Chunk /\ d.bytes = mm.bytes
               /\ d.inFlight = Less(mm.inFlight, Cardinality((L \cup F) \cap In(mm, "Loading")))
               /\ Moved(d, mm, L, F)
<1> DEFINE n == Cardinality((L \cup F) \cap In(mm, "Loading"))
           p == Put(mm, L, "Decoded")
           q == Put(p, F, "Failed")
           d == Delivered(mm, L, F)
<1>1. mm \in Managers /\ mm.index = Chunk /\ mm.inFlight \in Nat
  BY DEF Sound, Managers
<1>2. /\ p \in Managers /\ p.index = mm.index /\ p.inFlight = mm.inFlight /\ p.bytes = mm.bytes
      /\ \A c \in Chunk : p.state[c] = IF c \in L THEN "Decoded" ELSE mm.state[c]
  BY <1>1, PutIs DEF ChunkState
<1> HIDE DEF p
<1>3. /\ q \in Managers /\ q.index = mm.index /\ q.inFlight = mm.inFlight /\ q.bytes = mm.bytes
      /\ \A c \in Chunk : q.state[c] = IF c \in F THEN "Failed" ELSE p.state[c]
  BY <1>2, PutIs DEF ChunkState
<1>4. d = [q EXCEPT !.inFlight = Less(q.inFlight, n)]
  <2>1. L \cap mm.index = L /\ F \cap mm.index = F
    BY <1>1
  <2> QED
    BY <2>1 DEF Delivered, p
<1>5. Less(q.inFlight, n) \in Nat
  <2>1. (L \cup F) \cap In(mm, "Loading") \in SUBSET In(mm, "Loading")
    OBVIOUS
  <2>2. n \in Nat
    BY <2>1, InIsFinite, FS_Subset, FS_CardinalityType
  <2> HIDE DEF n, q
  <2> QED
    BY <1>1, <1>3, <2>2, LessIs
<1> HIDE DEF n, q
<1>6. /\ d \in Managers /\ d.index = Chunk /\ d.bytes = mm.bytes
      /\ d.inFlight = Less(mm.inFlight, n) /\ d.state = q.state
  <2> HIDE DEF d
  <2> QED
    BY <1>1, <1>3, <1>4, <1>5 DEF Managers
<1> HIDE DEF d
<1>7. Moved(d, mm, L, F)
  BY <1>2, <1>3, <1>6 DEF Moved
<1> QED
  BY <1>6, <1>7 DEF d, n

\* ... and gives back a place only if the chunk was loading.
LEMMA DeliveredPlaces ==
    ASSUME NEW mm, Sound(mm), NEW L \in SUBSET Chunk, NEW F \in SUBSET Chunk
    PROVE  LET d == Delivered(mm, L, F)
               n == Cardinality((L \cup F) \cap In(mm, "Loading"))
           IN  Sound(d) /\ n \in Nat /\ n <= mm.inFlight /\ d.inFlight = mm.inFlight - n
<1> DEFINE X == L \cup F
           C == X \cap In(mm, "Loading")
           n == Cardinality(C)
           d == Delivered(mm, L, F)
<1>1. mm.inFlight = Cardinality(In(mm, "Loading"))
  BY DEF Sound
<1>2. IsFiniteSet(In(mm, "Loading")) /\ Cardinality(In(mm, "Loading")) \in Nat
  BY InIsFinite
<1>3. /\ d \in Managers /\ d.index = Chunk /\ d.inFlight = Less(mm.inFlight, n)
      /\ Moved(d, mm, L, F)
  BY DeliveredIs
<1> HIDE DEF d
<1>4. In(d, "Loading") = In(mm, "Loading") \ X /\ C = In(mm, "Loading") \cap X
  BY <1>3 DEF In, Moved
<1> HIDE DEF X
<1>5. C \in SUBSET In(mm, "Loading")
  OBVIOUS
<1> HIDE DEF C
<1>6. IsFiniteSet(C) /\ n <= mm.inFlight
  BY <1>1, <1>2, <1>5, FS_Subset
<1>7. n \in Nat
  BY <1>6, FS_CardinalityType
<1>8. Cardinality(In(mm, "Loading") \ X) = mm.inFlight - n
  BY <1>1, <1>2, <1>4, FS_Difference
<1>9. Less(mm.inFlight, n) = mm.inFlight - n
  BY <1>1, <1>2, <1>6, <1>7, LessIs
<1> HIDE DEF n
<1>10. Sound(d) /\ n \in Nat /\ n <= mm.inFlight /\ d.inFlight = mm.inFlight - n
  BY <1>3, <1>4, <1>6, <1>7, <1>8, <1>9 DEF Sound
<1> QED
  BY <1>10 DEF d, n, C, X

LEMMA RescoredIs ==
    ASSUME NEW mm, Sound(mm), NEW focus
    PROVE  LET d == Rescored(mm, focus)
           IN  Sound(d) /\ d.bytes = mm.bytes /\ d.state = mm.state /\ d.inFlight = mm.inFlight
<1> DEFINE d == Rescored(mm, focus)
           w == [c \in Chunk |-> /\ c \in mm.index
                                 /\ \/ focus = {}
                                    \/ Within(c, focus, LoadRadius)
                                    \/ mm.wanted[c] /\ Within(c, focus, DropRadius)]
<1>1. mm \in Managers
  BY DEF Sound
<1>2. w \in [Chunk -> BOOLEAN]
  OBVIOUS
<1>3. d = [mm EXCEPT !.wanted = w]
  BY DEF Rescored
<1> HIDE DEF w
<1>4. /\ d \in Managers /\ d.index = mm.index /\ d.bytes = mm.bytes /\ d.state = mm.state
      /\ d.inFlight = mm.inFlight
  <2> HIDE DEF d
  <2> QED
    BY <1>1, <1>2, <1>3 DEF Managers
<1> HIDE DEF d
<1>5. In(d, "Loading") = In(mm, "Loading")
  BY <1>4 DEF In
<1> QED
  BY <1>4, <1>5 DEF Sound, d

\* Bytes are counted for every resident chunk, once.
Counted(mm) == mm.bytes = Cardinality(In(mm, "Resident"))

LEMMA EvictedIs ==
    ASSUME NEW mm, Sound(mm), NEW S, S \in SUBSET In(mm, "Resident")
    PROVE  LET d == Evicted(mm, S)
           IN  /\ Sound(d) /\ d.inFlight = mm.inFlight
               /\ \A c \in Chunk : d.state[c] = IF c \in S THEN "Unloaded" ELSE mm.state[c]
               /\ Counted(mm) => Counted(d)
<1> DEFINE d == Evicted(mm, S)
           p == Put(mm, S, "Unloaded")
           k == Cardinality(S)
<1>1. mm \in Managers /\ mm.index = Chunk /\ mm.inFlight = Cardinality(In(mm, "Loading"))
  BY DEF Sound
<1>2. /\ IsFiniteSet(In(mm, "Resident")) /\ Cardinality(In(mm, "Resident")) \in Nat
      /\ In(mm, "Resident") \in SUBSET Chunk
  BY InIsFinite
<1>3. IsFiniteSet(S) /\ k <= Cardinality(In(mm, "Resident"))
  BY <1>2, FS_Subset
<1>4. k \in Nat
  BY <1>3, FS_CardinalityType
<1>5. /\ p \in Managers /\ p.index = mm.index /\ p.inFlight = mm.inFlight /\ p.bytes = mm.bytes
      /\ \A c \in Chunk : p.state[c] = IF c \in S THEN "Unloaded" ELSE mm.state[c]
  BY <1>1, <1>2, PutIs DEF ChunkState
<1>6. d = [p EXCEPT !.bytes = Less(p.bytes, k)]
  BY DEF Evicted
<1> HIDE DEF p, k
<1>7. Less(p.bytes, k) \in Nat /\ (k <= p.bytes => Less(p.bytes, k) = p.bytes - k)
  BY <1>4, <1>5, LessIs DEF Managers
<1>8. /\ d \in Managers /\ d.index = mm.index /\ d.inFlight = mm.inFlight /\ d.state = p.state
      /\ d.bytes = Less(p.bytes, k)
  <2> HIDE DEF d
  <2> QED
    BY <1>5, <1>6, <1>7 DEF Managers
<1> HIDE DEF d
<1>9. In(d, "Loading") = In(mm, "Loading")
  BY <1>5, <1>8 DEF In
<1>10. In(d, "Resident") = In(mm, "Resident") \ S
  BY <1>5, <1>8 DEF In
<1>11. In(mm, "Resident") \cap S = S
  OBVIOUS
<1>12. Cardinality(In(d, "Resident")) = Cardinality(In(mm, "Resident")) - k
  BY <1>2, <1>10, <1>11, FS_Difference DEF k
<1>13. Counted(mm) => Counted(d)
  <2> SUFFICES ASSUME mm.bytes = Cardinality(In(mm, "Resident"))
               PROVE  d.bytes = Cardinality(In(d, "Resident"))
    BY DEF Counted
  <2>1. k <= p.bytes
    BY <1>3, <1>5 DEF k
  <2> QED
    BY <1>5, <1>7, <1>8, <1>12, <2>1
<1> QED
  BY <1>1, <1>5, <1>8, <1>9, <1>13 DEF Sound, d

LEMMA BuiltIs ==
    ASSUME NEW mm, Sound(mm), NEW S, S \in SUBSET In(mm, "Decoded")
    PROVE  LET d == Built(mm, S, {})
           IN  /\ Sound(d) /\ d.inFlight = mm.inFlight
               /\ \A c \in Chunk : d.state[c] = IF c \in S THEN "Resident" ELSE mm.state[c]
               /\ Counted(mm) => Counted(d)
<1> DEFINE d == Built(mm, S, {})
           p == Put(mm, S, "Resident")
           q == Put(p, {}, "Failed")
           k == Cardinality(S)
<1>1. mm \in Managers /\ mm.index = Chunk /\ mm.inFlight = Cardinality(In(mm, "Loading"))
  BY DEF Sound
<1>2. /\ IsFiniteSet(In(mm, "Decoded")) /\ In(mm, "Decoded") \in SUBSET Chunk
  BY InIsFinite
<1>3. /\ IsFiniteSet(In(mm, "Resident")) /\ Cardinality(In(mm, "Resident")) \in Nat
  BY InIsFinite
<1>4. IsFiniteSet(S) /\ S \in SUBSET Chunk
  BY <1>2, FS_Subset
<1>5. k \in Nat
  BY <1>4, FS_CardinalityType
<1>6. /\ p \in Managers /\ p.index = mm.index /\ p.inFlight = mm.inFlight /\ p.bytes = mm.bytes
      /\ \A c \in Chunk : p.state[c] = IF c \in S THEN "Resident" ELSE mm.state[c]
  BY <1>1, <1>4, PutIs DEF ChunkState
<1> HIDE DEF p
<1>7. /\ q \in Managers /\ q.index = mm.index /\ q.inFlight = mm.inFlight /\ q.bytes = mm.bytes
      /\ \A c \in Chunk : q.state[c] = p.state[c]
  BY <1>6, PutIs DEF ChunkState
<1>8. d = [q EXCEPT !.bytes = q.bytes + k]
  <2>1. S \ {} = S /\ S \cap {} = {}
    OBVIOUS
  <2> QED
    BY <2>1 DEF Built, p
<1> HIDE DEF q, k
<1>9. /\ d \in Managers /\ d.index = mm.index /\ d.inFlight = mm.inFlight /\ d.state = q.state
      /\ d.bytes = mm.bytes + k
  <2> HIDE DEF d
  <2> QED
    BY <1>5, <1>7, <1>8 DEF Managers
<1> HIDE DEF d
<1>10. \A c \in Chunk : d.state[c] = IF c \in S THEN "Resident" ELSE mm.state[c]
  BY <1>6, <1>7, <1>9
<1>11. In(d, "Loading") = In(mm, "Loading")
  BY <1>10 DEF In
<1>12. In(d, "Resident") = In(mm, "Resident") \cup S /\ In(mm, "Resident") \cap S = {}
  BY <1>4, <1>10 DEF In
<1>13. Cardinality(In(d, "Resident")) = Cardinality(In(mm, "Resident")) + k
  BY <1>3, <1>4, <1>5, <1>12, FS_Union, FS_EmptySet DEF k
<1>14. Counted(mm) => Counted(d)
  BY <1>9, <1>13 DEF Counted
<1> QED
  BY <1>1, <1>9, <1>10, <1>11, <1>14 DEF Sound, d

LEMMA StartedIs ==
    ASSUME NEW mm, Sound(mm), NEW S, S \in SUBSET In(mm, "Unloaded")
    PROVE  LET d == Started(mm, S)
           IN  /\ Sound(d) /\ Cardinality(S) \in Nat /\ d.inFlight = mm.inFlight + Cardinality(S)
               /\ \A c \in Chunk : d.state[c] = IF c \in S THEN "Loading" ELSE mm.state[c]
               /\ Counted(mm) => Counted(d)
<1> DEFINE d == Started(mm, S)
           p == Put(mm, S, "Loading")
           k == Cardinality(S)
<1>1. mm \in Managers /\ mm.index = Chunk /\ mm.inFlight = Cardinality(In(mm, "Loading"))
  BY DEF Sound
<1>2. /\ IsFiniteSet(In(mm, "Unloaded")) /\ In(mm, "Unloaded") \in SUBSET Chunk
  BY InIsFinite
<1>3. /\ IsFiniteSet(In(mm, "Loading")) /\ Cardinality(In(mm, "Loading")) \in Nat
  BY InIsFinite
<1>4. IsFiniteSet(S) /\ S \in SUBSET Chunk
  BY <1>2, FS_Subset
<1>5. k \in Nat
  BY <1>4, FS_CardinalityType
<1>6. /\ p \in Managers /\ p.index = mm.index /\ p.inFlight = mm.inFlight /\ p.bytes = mm.bytes
      /\ \A c \in Chunk : p.state[c] = IF c \in S THEN "Loading" ELSE mm.state[c]
  BY <1>1, <1>4, PutIs DEF ChunkState
<1>7. d = [p EXCEPT !.inFlight = p.inFlight + k]
  BY DEF Started
<1> HIDE DEF p, k
<1>8. /\ d \in Managers /\ d.index = mm.index /\ d.inFlight = mm.inFlight + k /\ d.state = p.state
      /\ d.bytes = mm.bytes
  <2> HIDE DEF d
  <2> QED
    BY <1>5, <1>6, <1>7 DEF Managers
<1> HIDE DEF d
<1>9. \A c \in Chunk : d.state[c] = IF c \in S THEN "Loading" ELSE mm.state[c]
  BY <1>6, <1>8
<1>10. In(d, "Resident") = In(mm, "Resident")
  BY <1>9 DEF In
<1>11. In(d, "Loading") = In(mm, "Loading") \cup S /\ In(mm, "Loading") \cap S = {}
  BY <1>4, <1>9 DEF In
<1>12. Cardinality(In(d, "Loading")) = Cardinality(In(mm, "Loading")) + k
  <2>1. Cardinality(In(mm, "Loading") \cup S)
            = Cardinality(In(mm, "Loading")) + Cardinality(S) - Cardinality(In(mm, "Loading") \cap S)
    BY <1>3, <1>4, FS_Union
  <2>2. Cardinality(In(mm, "Loading") \cap S) = 0
    BY <1>11, FS_EmptySet
  <2>3. Cardinality(In(d, "Loading")) = Cardinality(In(mm, "Loading") \cup S)
    BY <1>11
  <2> DEFINE a == Cardinality(In(mm, "Loading"))
             b == Cardinality(In(mm, "Loading") \cup S)
             e == Cardinality(In(mm, "Loading") \cap S)
  <2>4. a \in Nat /\ b = a + k - e /\ e = 0
    BY <1>3, <2>1, <2>2 DEF k
  <2> HIDE DEF a, b, e
  <2>5. b = a + k
    BY <1>5, <2>4
  <2> QED
    BY <2>3, <2>5 DEF a, b
<1>13. Counted(mm) => Counted(d)
  BY <1>8, <1>10 DEF Counted
<1> QED
  BY <1>1, <1>5, <1>8, <1>9, <1>12, <1>13 DEF Sound, d, k

\* So many more places are taken.
Grown(d, mm, S) == d.inFlight = mm.inFlight + Cardinality(S)

\* A start that is refused gives its place back.
LEMMA StartedButIs ==
    ASSUME NEW mm, Sound(mm), NEW S, S \in SUBSET In(mm, "Unloaded"), NEW refused \in SUBSET S
    PROVE  LET d == StartedBut(mm, S, refused)
           IN  /\ Sound(d) /\ Cardinality(S \ refused) \in Nat
               /\ Grown(d, mm, S \ refused)
               /\ \A c \in Chunk : /\ c \in refused => d.state[c] = "Failed"
                                   /\ c \in S \ refused => d.state[c] = "Loading"
                                   /\ c \notin S => d.state[c] = mm.state[c]
               /\ Counted(mm) => Counted(d)
<1> DEFINE t == Started(mm, S)
           d == StartedBut(mm, S, refused)
           n == Cardinality(({} \cup refused) \cap In(t, "Loading"))
<1>1. /\ Sound(t) /\ Cardinality(S) \in Nat /\ t.inFlight = mm.inFlight + Cardinality(S)
      /\ \A c \in Chunk : t.state[c] = IF c \in S THEN "Loading" ELSE mm.state[c]
      /\ Counted(mm) => Counted(t)
  BY StartedIs
<1>2. /\ IsFiniteSet(In(mm, "Unloaded")) /\ In(mm, "Unloaded") \in SUBSET Chunk
  BY InIsFinite
<1>3. IsFiniteSet(S) /\ S \in SUBSET Chunk /\ refused \in SUBSET Chunk
  BY <1>2, FS_Subset
<1>4. d = Delivered(t, {}, refused)
  BY DEF StartedBut
<1> HIDE DEF t
<1> HIDE DEF d, n
<1>5. /\ Sound(d) /\ d.bytes = t.bytes /\ d.inFlight = t.inFlight - n
      /\ \A c \in Chunk : d.state[c] = IF c \in refused THEN "Failed" ELSE t.state[c]
  <2> DEFINE none == {}
  <2>1. none \in SUBSET Chunk /\ \A c : c \notin none
    OBVIOUS
  <2>2. d = Delivered(t, none, refused) /\ n = Cardinality((none \cup refused) \cap In(t, "Loading"))
    BY <1>4 DEF n
  <2> HIDE DEF none
  <2>3. Sound(d) /\ d.inFlight = t.inFlight - n
    BY <1>1, <1>3, <2>1, <2>2, DeliveredPlaces
  <2>4. d.bytes = t.bytes /\ Moved(d, t, none, refused)
    BY <1>1, <1>3, <2>1, <2>2, DeliveredIs
  <2> QED
    BY <2>1, <2>3, <2>4 DEF Moved
<1>6. ({} \cup refused) \cap In(t, "Loading") = S \cap refused
  BY <1>1, <1>3 DEF In
<1>7. Cardinality(S \ refused) = Cardinality(S) - n
  BY <1>3, <1>6, FS_Difference DEF n
<1>8. Cardinality(S \ refused) \in Nat
  BY <1>3, FS_Difference, FS_CardinalityType
<1>9. n = Cardinality(S) - Cardinality(S \ refused)
  <2>1. n \in Nat
    BY <1>3, <1>6, FS_Intersection, FS_CardinalityType DEF n
  <2> QED
    BY <1>1, <1>7, <1>8, <2>1
<1>10. mm.inFlight \in Nat
  BY DEF Sound, Managers
<1>11. d.inFlight = mm.inFlight + Cardinality(S \ refused)
  BY <1>1, <1>5, <1>8, <1>9, <1>10
<1>12. In(d, "Resident") = In(t, "Resident")
  BY <1>1, <1>3, <1>5 DEF In
<1>13. Counted(mm) => Counted(d)
  BY <1>1, <1>5, <1>12 DEF Counted
<1>14. \A c \in Chunk : /\ c \in refused => d.state[c] = "Failed"
                        /\ c \in S \ refused => d.state[c] = "Loading"
                        /\ c \notin S => d.state[c] = mm.state[c]
  BY <1>1, <1>5
<1> QED
  BY <1>5, <1>8, <1>11, <1>13, <1>14 DEF d, Grown

LEMMA FreshIs ==
    /\ Sound(Fresh(Chunk)) /\ Counted(Fresh(Chunk)) /\ Fresh(Chunk).inFlight = 0
    /\ \A c \in Chunk : Fresh(Chunk).state[c] = "Unloaded"
<1> DEFINE d == Fresh(Chunk)
<1>1. /\ d \in Managers /\ d.index = Chunk /\ d.inFlight = 0 /\ d.bytes = 0
      /\ \A c \in Chunk : d.state[c] = "Unloaded"
  BY DEF Fresh, Managers, ChunkState
<1> HIDE DEF d
<1>2. In(d, "Loading") = {} /\ In(d, "Resident") = {}
  BY <1>1 DEF In
<1> QED
  BY <1>1, <1>2, FS_EmptySet DEF Sound, Counted, d

\* What a frame asks for fits the room there is.
LEMMA ToReadFits ==
    ASSUME NEW mm, Sound(mm), NEW focus \in SUBSET Int, IsFiniteSet(focus), NEW n \in Nat, NEW k \in Nat,
           mm.inFlight <= MaxInFlight
    PROVE  LET S == ToRead(mm, focus, n, k)
           IN  /\ S \in SUBSET In(mm, "Unloaded") /\ IsFiniteSet(S)
               /\ Cardinality(S) \in Nat /\ mm.inFlight + Cardinality(S) <= MaxInFlight
<1> DEFINE W == Waiting(mm)
           N == Nearest(W, n, focus) \cap In(mm, "Unloaded")
           room == Less(MaxInFlight, mm.inFlight)
           j == IF k < room THEN k ELSE room
<1>1. mm.inFlight \in Nat /\ MaxInFlight \in Nat /\ Chunk \in SUBSET Int
  BY StreamingAssumption DEF Sound, Managers
<1>2. room \in Nat /\ room = MaxInFlight - mm.inFlight
  BY <1>1, LessIs
<1> HIDE DEF room
<1>3. j \in Nat /\ j <= room
  BY <1>2
<1>4. N \in SUBSET Int /\ N \in SUBSET In(mm, "Unloaded")
  BY <1>1 DEF In
<1>5. IsFiniteSet(N)
  <2>1. IsFiniteSet(In(mm, "Unloaded"))
    BY InIsFinite
  <2> HIDE DEF N
  <2> QED
    BY <1>4, <2>1, FS_Subset
<1>6. ToRead(mm, focus, n, k) = Nearest(N, j, focus)
  BY DEF ToRead, room
<1> HIDE DEF N, j
<1>7. /\ Nearest(N, j, focus) \in SUBSET N /\ IsFiniteSet(Nearest(N, j, focus))
      /\ Cardinality(Nearest(N, j, focus)) \in 0..j
  BY <1>3, <1>4, <1>5, NearestIsFew
<1>8. Cardinality(Nearest(N, j, focus)) \in Nat /\ Cardinality(Nearest(N, j, focus)) <= room
  <2> DEFINE q == Cardinality(Nearest(N, j, focus))
  <2>1. q \in 0..j
    BY <1>7
  <2> HIDE DEF q
  <2> QED
    BY <1>2, <1>3, <2>1 DEF q
<1> DEFINE S == ToRead(mm, focus, n, k)
           q == Cardinality(S)
<1>9. S \in SUBSET In(mm, "Unloaded") /\ IsFiniteSet(S) /\ q \in Nat /\ q <= room
  BY <1>4, <1>6, <1>7, <1>8
<1> HIDE DEF q
<1>10. mm.inFlight + q <= MaxInFlight
  BY <1>1, <1>2, <1>9
<1> QED
  BY <1>9, <1>10 DEF q

-----------------------------------------------------------------------------
(* The reads.                                                               *)

Read == [chunk : Chunk, io : {"Pending", "Ready", "Failed"}]

\* No more chunks are told of than reads have ended.
LEMMA ToldAreFew ==
    ASSUME NEW rs \in Seq(Read), NEW k \in Nat
    PROVE  /\ Told(rs, k) \in SUBSET Chunk /\ IsFiniteSet(Told(rs, k))
           /\ Cardinality(Told(rs, k)) <= Cardinality(Ended(rs, k))
           /\ Cardinality(Told(rs, k)) \in Nat
           /\ \A c \in Told(rs, k) : \E i \in Ended(rs, k) : rs[i].chunk = c
<1> DEFINE E == Ended(rs, k)
           P == LastOf(rs, k)
           T == Told(rs, k)
           g == [i \in P |-> rs[i].chunk]
<1>1. E \in SUBSET (1..Len(rs)) /\ IsFiniteSet(E) /\ Cardinality(E) \in Nat
  BY EndedIs
<1>2. P \in SUBSET E
  BY DEF LastOf
<1>3. T = {rs[i].chunk : i \in P}
  BY DEF Told
<1> HIDE DEF E, P, T
<1>4. g \in Surjection(P, T)
  BY <1>3 DEF Surjection
<1> HIDE DEF g
<1>5. IsFiniteSet(P) /\ Cardinality(P) <= Cardinality(E)
  BY <1>1, <1>2, FS_Subset
<1>6. IsFiniteSet(T) /\ Cardinality(T) <= Cardinality(P)
  BY <1>4, <1>5, FS_Surjection
<1>7. Cardinality(P) \in Nat /\ Cardinality(T) \in Nat
  BY <1>5, <1>6, FS_CardinalityType
<1>8. \A i \in 1..Len(rs) : rs[i].chunk \in Chunk
  <2>1. \A i \in 1..Len(rs) : rs[i] \in Read
    OBVIOUS
  <2> QED
    BY <2>1 DEF Read
<1>9. T \in SUBSET Chunk /\ \A c \in T : \E i \in E : rs[i].chunk = c
  BY <1>1, <1>2, <1>3, <1>8
<1> QED
  BY <1>1, <1>5, <1>6, <1>7, <1>9 DEF E, T

\* One read is begun of every chunk that is asked for.
LEMMA BegunIs ==
    ASSUME NEW S \in SUBSET Chunk, foci \in SUBSET Int, IsFiniteSet(foci)
    PROVE  /\ Begun(S) \in Seq(Read) /\ Len(Begun(S)) = Cardinality(S) /\ Cardinality(S) \in Nat
           /\ \A n \in 1..Cardinality(S) : Begun(S)[n].chunk \in S
           /\ \A n, j \in 1..Cardinality(S) : Begun(S)[n].chunk = Begun(S)[j].chunk => n = j
           /\ \A c \in S : \E n \in 1..Cardinality(S) : Begun(S)[n].chunk = c
<1>1. IsFiniteSet(S) /\ S \in SUBSET Int
  BY StreamingAssumption, FS_Subset
<1> DEFINE N == Cardinality(S)
           at(n) == InOrder(S, foci)[n]
<1>2. /\ N \in Nat /\ \A n \in 1..N : at(n) \in S
      /\ \A c \in S : \E n \in 1..N : at(n) = c
  BY <1>1, InOrderIsExact
<1>3. \A n, j \in 1..N : at(n) = at(j) => n = j
  BY <1>1, InOrderIsExact
<1>4. Begun(S) = [n \in 1..N |-> [chunk |-> at(n), io |-> "Pending"]]
  BY DEF Begun
<1> HIDE DEF at, N
<1>5. \A n \in 1..N : Begun(S)[n] = [chunk |-> at(n), io |-> "Pending"]
  BY <1>4
<1>6. \A n \in 1..N : [chunk |-> at(n), io |-> "Pending"] \in Read
  BY <1>2 DEF Read
<1>7. Begun(S) \in [1..N -> Read]
  BY <1>4, <1>6
<1>8. Begun(S) \in Seq(Read) /\ Len(Begun(S)) = N
  BY <1>2, <1>7
<1>9. \A n \in 1..N : Begun(S)[n].chunk = at(n)
  <2> SUFFICES ASSUME NEW n \in 1..N PROVE Begun(S)[n].chunk = at(n)
    OBVIOUS
  <2>1. Begun(S)[n] = [chunk |-> at(n), io |-> "Pending"]
    BY <1>5
  <2> QED
    BY <2>1
<1> QED
  BY <1>2, <1>3, <1>8, <1>9 DEF N

-----------------------------------------------------------------------------
(* The inductive invariant.                                                 *)

\* What the step of a read relies on: the list is one of reads.
ReadsOK == reads \in Seq(Read)

\* Every world that has asked for reads left no more of them than the budget, and
\* this one has no more than the places it takes.
ReadsFew == Len(reads) <= MaxInFlight * hostWorld + m.inFlight

\* A read that was not outstanding when a world went is the only one of its chunk,
\* and its chunk is loading.
ReadsAreOwn ==
    \A i \in 1..Len(reads) : reads[i].chunk \notin crossed =>
        /\ m.state[reads[i].chunk] = "Loading"
        /\ \A j \in 1..Len(reads) : reads[j].chunk = reads[i].chunk => j = i

\* A world the host has not been given is the next one, and nothing is in it.
WorldIsEmpty == hostWorld # world => world = hostWorld + 1 /\ \A c \in Chunk : live[c] = 0

\* What a script holds is in the world, or its husk is.
HeldIsThere == \A c \in kept : live[c] > 0 \/ c \in husks

Inv ==
    /\ TypeOK /\ Sound(m) /\ ReadsOK /\ foci \in Foci /\ enabled \in BOOLEAN
    /\ LoadingIsRead /\ ReadsFew /\ ReadsAreOwn
    /\ WorldIsEmpty /\ ResidentIsThere /\ LeftOnlyByReload /\ HeldIsThere

\* The reads' bound is that of the worlds and the budget.
LEMMA InvGives ==
    ASSUME Inv PROVE BudgetExact /\ WorldAgrees
<1>1. m.inFlight \in 0..MaxInFlight /\ hostWorld \in Nat /\ MaxInFlight \in Nat
  BY StreamingAssumption, ChunkStreamingAssumption DEF Inv, TypeOK
<1>2. Len(reads) \in Nat /\ Len(reads) <= MaxInFlight * hostWorld + m.inFlight
  BY DEF Inv, ReadsOK, ReadsFew
<1>3. MaxInFlight * (hostWorld + 1) = MaxInFlight * hostWorld + MaxInFlight
  BY <1>1
<1>4. Len(reads) <= MaxInFlight * (hostWorld + 1)
  <2> DEFINE x == MaxInFlight * hostWorld
             y == MaxInFlight * (hostWorld + 1)
  <2>1. x \in Nat /\ y = x + MaxInFlight /\ Len(reads) <= x + m.inFlight
    BY <1>1, <1>2, <1>3
  <2> HIDE DEF x, y
  <2>2. Len(reads) <= y
    BY <1>1, <1>2, <2>1
  <2> QED
    BY <2>2 DEF y
<1> QED
  BY <1>4 DEF Inv, BudgetExact, InFlightExact, Sound, ReadsBounded, WorldAgrees

LEMMA InvInit ==
    ASSUME Init PROVE Inv
<1>1. /\ m = Fresh(Chunk) /\ reads = <<>> /\ world = 0 /\ hostWorld = 0
      /\ glue = {} /\ live = [c \in Chunk |-> 0]
      /\ kept = {} /\ husks = {} /\ areas = {}
      /\ foci \in Foci /\ enabled = TRUE /\ crossed = {}
  BY DEF Init
<1>2. /\ Sound(m) /\ Counted(m) /\ m.inFlight = 0 /\ \A c \in Chunk : m.state[c] = "Unloaded"
  BY <1>1, FreshIs
<1>3. MaxInFlight \in Nat /\ Reloads \in Nat
  BY StreamingAssumption, ChunkStreamingAssumption
<1>4. TypeOK
  BY <1>1, <1>2, <1>3 DEF TypeOK, Sound
<1>5. ReadsOK /\ ReadsAreOwn /\ LoadingIsRead
  BY <1>1, <1>2 DEF ReadsOK, ReadsAreOwn, LoadingIsRead, In
<1>6. ReadsFew
  BY <1>1, <1>2, <1>3 DEF ReadsFew
<1>7. WorldIsEmpty /\ HeldIsThere
  BY <1>1 DEF WorldIsEmpty, HeldIsThere
<1>8. ResidentIsThere /\ LeftOnlyByReload
  BY <1>1, <1>2 DEF ResidentIsThere, LeftOnlyByReload, In, Counted
<1> QED
  BY <1>1, <1>2, <1>4, <1>5, <1>6, <1>7, <1>8 DEF Inv

-----------------------------------------------------------------------------
(* A frame, stage by stage.                                                 *)

Scored(k) == Rescored(Drained(SetWorld, k), foci)
Out(k)    == IF enabled THEN Leaving(Scored(k)) ELSE {}
Cleared(k) == Evicted(Scored(k), Out(k))
Build(k, n) == IF enabled THEN ToBuild(Cleared(k), foci, n) ELSE {}
Start(k, n, r) == IF enabled THEN ToRead(Cleared(k), foci, n, r) ELSE {}
TakenAway(k) == TakenOut(GlueFor, Out(k))

LEMMA PumpIs ==
    ASSUME NEW k, NEW n, NEW r, NEW refused, Pump(k, n, r, refused)
    PROVE  /\ refused \subseteq Start(k, n, r)
           /\ m' = StartedBut(Built(Cleared(k), Build(k, n), {}), Start(k, n, r), refused)
           /\ reads' = StillOut(reads, k) \o Begun(Start(k, n, r) \ refused)
           /\ glue' = (GlueFor \ TakenAway(k)) \cup Build(k, n)
           /\ live' = [c \in Chunk |-> (IF c \in TakenAway(k) THEN 0 ELSE live[c])
                           + (IF c \in Build(k, n) \ (GlueFor \ TakenAway(k)) THEN 1 ELSE 0)]
           /\ husks' = Swept(husks \cup (TakenAway(k) \cap Probed))
<1> DEFINE made == Materialize(GlueFor \ TakenAway(k), Build(k, n))
<1>1. /\ refused \subseteq Start(k, n, r)
      /\ m' = StartedBut(Built(Cleared(k), Build(k, n), {}), Start(k, n, r), refused)
      /\ reads' = StillOut(reads, k) \o Begun(Start(k, n, r) \ refused)
      /\ glue' = made.glue
      /\ live' = [c \in Chunk |-> (IF c \in TakenAway(k) THEN 0 ELSE live[c]) + made.live[c]]
      /\ husks' = Swept(husks \cup (TakenAway(k) \cap Probed))
  <2> DEFINE Done(evicted, build, start, gone, mad) ==
        /\ refused \subseteq start
        /\ m' = StartedBut(Built(evicted, build, {}), start, refused)
        /\ reads' = StillOut(reads, k) \o Begun(start \ refused)
        /\ glue' = mad.glue
        /\ live' = [c \in Chunk |-> (IF c \in gone THEN 0 ELSE live[c]) + mad.live[c]]
        /\ husks' = Swept(husks \cup (gone \cap Probed))
  <2>1. \E scored \in {Rescored(Drained(SetWorld, k), foci)} :
        \E out \in {IF enabled THEN Leaving(scored) ELSE {}} :
        \E evicted \in {Evicted(scored, out)} :
        \E build \in {IF enabled THEN ToBuild(evicted, foci, n) ELSE {}} :
        \E start \in {IF enabled THEN ToRead(evicted, foci, n, r) ELSE {}} :
        \E gone \in {TakenOut(GlueFor, out)} :
        \E mad \in {Materialize(GlueFor \ gone, build)} :
            Done(evicted, build, start, gone, mad)
    BY Zenon DEF Pump
  <2> HIDE DEF Done
  <2>2. Done(Cleared(k), Build(k, n), Start(k, n, r), TakenAway(k), made)
    BY <2>1 DEF Scored, Out, Cleared, Build, Start, TakenAway
  <2> QED
    BY <2>2 DEF Done
<1>2. /\ made.glue = (GlueFor \ TakenAway(k)) \cup Build(k, n)
      /\ made.live = [c \in Chunk |-> IF c \in Build(k, n) \ (GlueFor \ TakenAway(k)) THEN 1 ELSE 0]
  BY DEF Materialize
<1>3. \A c \in Chunk :
          made.live[c] = IF c \in Build(k, n) \ (GlueFor \ TakenAway(k)) THEN 1 ELSE 0
  BY <1>2
<1> HIDE DEF made
<1> QED
  BY <1>1, <1>2, <1>3

LEMMA InvTypes ==
    ASSUME Inv
    PROVE  /\ m \in Managers /\ m.inFlight \in 0..MaxInFlight /\ Sound(m)
           /\ hostWorld \in Nat /\ world \in 0..Reloads /\ hostWorld <= world
           /\ reads \in Seq(Read) /\ Len(reads) \in Nat
           /\ foci \in SUBSET Int /\ IsFiniteSet(foci)
           /\ glue \subseteq Chunk /\ live \in [Chunk -> Nat]
           /\ kept \subseteq Chunk /\ husks \subseteq Chunk /\ areas \subseteq Chunk /\ crossed \subseteq Chunk
           /\ MaxInFlight \in Nat \ {0} /\ IsFiniteSet(Chunk) /\ Reloads \in Nat
  BY StreamingAssumption, ChunkStreamingAssumption DEF Inv, TypeOK, ReadsOK

\* The host that hears of another world forgets; the reads of the last go on.
LEMMA SetWorldIs ==
    ASSUME Inv
    PROVE  /\ Sound(SetWorld) /\ SetWorld.inFlight \in 0..MaxInFlight
           /\ hostWorld = world => SetWorld = m
           /\ hostWorld # world => /\ SetWorld.inFlight = 0 /\ Counted(SetWorld)
                                   /\ \A c \in Chunk : SetWorld.state[c] = "Unloaded"
<1>1. Sound(m) /\ m.inFlight \in 0..MaxInFlight /\ MaxInFlight \in Nat
  BY InvTypes
<1>2. CASE hostWorld = world
  BY <1>1, <1>2 DEF SetWorld
<1>3. CASE hostWorld # world
  <2>1. SetWorld = Fresh(Chunk)
    BY <1>1, <1>3 DEF SetWorld, ForgetResidency, Sound
  <2> QED
    BY <1>1, <1>3, <2>1, FreshIs
<1> QED
  BY <1>2, <1>3

\* What the drain makes of the chunks that are told of.
Outcomes(d, mm, k) ==
    \A c \in Chunk : /\ c \in Told(reads, k) => d.state[c] \in {"Decoded", "Failed"}
                     /\ c \notin Told(reads, k) => d.state[c] = mm.state[c]

LEMMA DrainedIs ==
    ASSUME NEW mm, Sound(mm), reads \in Seq(Read), NEW k \in Nat
    PROVE  LET d == Drained(mm, k)
           IN  /\ Sound(d) /\ d.bytes = mm.bytes /\ Outcomes(d, mm, k)
               /\ d.inFlight <= mm.inFlight /\ mm.inFlight <= d.inFlight + Cardinality(Ended(reads, k))
<1> DEFINE good == {i \in LastOf(reads, k) : reads[i].io = "Ready" /\ reads[i].chunk \notin Malformed}
           L == {reads[i].chunk : i \in good}
           F == {reads[i].chunk : i \in LastOf(reads, k) \ good}
           T == Told(reads, k)
           d == Drained(mm, k)
           n == Cardinality((L \cup F) \cap In(mm, "Loading"))
<1>1. L \cup F = T
  BY DEF Told
<1>2. /\ T \in SUBSET Chunk /\ IsFiniteSet(T) /\ Cardinality(T) <= Cardinality(Ended(reads, k))
      /\ Cardinality(T) \in Nat /\ Cardinality(Ended(reads, k)) \in Nat
  BY ToldAreFew, EndedIs
<1>3. L \in SUBSET Chunk /\ F \in SUBSET Chunk
  BY <1>1, <1>2
<1>4. d = Delivered(mm, L, F)
  BY DEF Drained
<1> HIDE DEF L, F, T, d
<1>5. d.bytes = mm.bytes /\ Moved(d, mm, L, F)
  BY <1>3, <1>4, DeliveredIs
<1>6. Sound(d) /\ n \in Nat /\ n <= mm.inFlight /\ d.inFlight = mm.inFlight - n
  BY <1>3, <1>4, DeliveredPlaces
<1>7. n <= Cardinality(T)
  <2>1. (L \cup F) \cap In(mm, "Loading") \in SUBSET T
    BY <1>1
  <2> QED
    BY <1>2, <2>1, FS_Subset
<1>8. mm.inFlight \in Nat
  BY DEF Sound, Managers
<1> HIDE DEF n
<1>9. d.inFlight <= mm.inFlight /\ mm.inFlight <= d.inFlight + Cardinality(Ended(reads, k))
  BY <1>2, <1>6, <1>7, <1>8
<1>10. Outcomes(d, mm, k)
  BY <1>1, <1>5 DEF Outcomes, Moved, T
<1> QED
  BY <1>5, <1>6, <1>9, <1>10 DEF d

\* What a frame makes of a chunk after the drain.
Staged(d, mm, out, build, start, refused) ==
    /\ out \subseteq In(mm, "Resident") /\ build \subseteq In(mm, "Decoded")
    /\ start \subseteq In(mm, "Unloaded") \cup out
    /\ \A c \in Chunk : /\ c \in refused => d.state[c] = "Failed"
                        /\ c \in start \ refused => d.state[c] = "Loading"
                        /\ c \in build => d.state[c] = "Resident"
                        /\ c \in out \ start => d.state[c] = "Unloaded"
                        /\ c \notin start \cup build \cup out => d.state[c] = mm.state[c]

LEMMA FrameStages ==
    ASSUME Inv, NEW k \in Nat, NEW n \in Nat, NEW r \in Nat, NEW refused,
           refused \subseteq Start(k, n, r)
    PROVE  LET d == StartedBut(Built(Cleared(k), Build(k, n), {}), Start(k, n, r), refused)
               b == Drained(SetWorld, k)
           IN  /\ Sound(d) /\ Cardinality(Start(k, n, r) \ refused) \in Nat
               /\ Grown(d, b, Start(k, n, r) \ refused)
               /\ d.inFlight <= MaxInFlight
               /\ Staged(d, b, Out(k), Build(k, n), Start(k, n, r), refused)
               /\ Counted(b) => Counted(d)
<1> DEFINE b == Drained(SetWorld, k)
           s == Scored(k)
           e == Cleared(k)
           o == Out(k)
           B == Build(k, n)
           S == Start(k, n, r)
           t == Built(e, B, {})
           d == StartedBut(t, S, refused)
<1>0. foci \in SUBSET Int /\ IsFiniteSet(foci) /\ MaxInFlight \in Nat
  BY InvTypes
<1>1. Sound(b) /\ b.inFlight <= SetWorld.inFlight
  BY SetWorldIs, InvTypes, DrainedIs
<1>2. b.inFlight \in Nat /\ b.inFlight <= MaxInFlight
  <2>1. SetWorld.inFlight \in 0..MaxInFlight
    BY SetWorldIs
  <2>2. b.inFlight \in Nat
    BY <1>1 DEF Sound, Managers
  <2> HIDE DEF b
  <2> QED
    BY <1>0, <1>1, <2>1, <2>2
<1>3. s = Rescored(b, foci)
  BY DEF Scored
<1> HIDE DEF b
<1>4. Sound(s) /\ s.bytes = b.bytes /\ s.state = b.state /\ s.inFlight = b.inFlight
  BY <1>1, <1>3, RescoredIs
<1>5. o \in SUBSET In(s, "Resident") /\ e = Evicted(s, o)
  BY DEF Out, Leaving, Cleared
<1> HIDE DEF s, o, e
<1>6. /\ Sound(e) /\ e.inFlight = s.inFlight
      /\ \A c \in Chunk : e.state[c] = IF c \in o THEN "Unloaded" ELSE s.state[c]
      /\ Counted(s) => Counted(e)
  BY <1>4, <1>5, EvictedIs
<1>7. B \in SUBSET In(e, "Decoded")
  BY DEF Build, ToBuild, e
<1>8. /\ S \in SUBSET In(e, "Unloaded") /\ Cardinality(S) \in Nat /\ IsFiniteSet(S)
      /\ e.inFlight + Cardinality(S) <= MaxInFlight
  <2>1. CASE enabled
    <3>1. S = ToRead(e, foci, n, r)
      BY <2>1 DEF Start, e
    <3>2. e.inFlight <= MaxInFlight
      BY <1>2, <1>4, <1>6
    <3> HIDE DEF S
    <3> QED
      BY <1>0, <1>6, <3>1, <3>2, ToReadFits
  <2>2. CASE ~enabled
    <3>1. S = {}
      BY <2>2 DEF Start
    <3>2. e.inFlight + 0 <= MaxInFlight
      BY <1>2, <1>4, <1>6
    <3> QED
      BY <3>1, <3>2, FS_EmptySet
  <2> QED
    BY <2>1, <2>2
<1> HIDE DEF B, S
<1>9. /\ Sound(t) /\ t.inFlight = e.inFlight
      /\ \A c \in Chunk : t.state[c] = IF c \in B THEN "Resident" ELSE e.state[c]
      /\ Counted(e) => Counted(t)
  BY <1>6, <1>7, BuiltIs
<1> HIDE DEF t
<1>10. S \in SUBSET In(t, "Unloaded")
  BY <1>7, <1>8, <1>9 DEF In
<1>11. refused \in SUBSET S
  BY DEF S
<1>12. /\ Sound(d) /\ Cardinality(S \ refused) \in Nat
       /\ d.inFlight = t.inFlight + Cardinality(S \ refused)
  <2>1. Sound(d)
    BY <1>9, <1>10, <1>11, StartedButIs
  <2>2. Cardinality(S \ refused) \in Nat
    BY <1>8, FS_Difference, FS_CardinalityType
  <2>3. Grown(d, t, S \ refused)
    BY <1>9, <1>10, <1>11, StartedButIs
  <2> QED
    BY <2>1, <2>2, <2>3 DEF Grown
<1>13. /\ \A c \in Chunk : /\ c \in refused => d.state[c] = "Failed"
                           /\ c \in S \ refused => d.state[c] = "Loading"
                           /\ c \notin S => d.state[c] = t.state[c]
  BY <1>9, <1>10, <1>11, StartedButIs
<1>14. Counted(t) => Counted(d)
  BY <1>9, <1>10, <1>11, StartedButIs
<1> HIDE DEF d
<1>15. d.inFlight <= MaxInFlight
  <2> DEFINE x == Cardinality(S \ refused)
             y == Cardinality(S)
  <2>1. x <= y
    BY <1>8, FS_Subset
  <2>2. x \in Nat /\ y \in Nat /\ d.inFlight = e.inFlight + x /\ e.inFlight + y <= MaxInFlight
    BY <1>8, <1>9, <1>12
  <2>3. e.inFlight \in Nat
    BY <1>2, <1>4, <1>6
  <2> HIDE DEF x, y
  <2> QED
    BY <1>0, <2>1, <2>2, <2>3
<1>16. o \subseteq In(b, "Resident") /\ B \subseteq In(b, "Decoded") /\ S \subseteq In(b, "Unloaded") \cup o
  BY <1>4, <1>5, <1>6, <1>7, <1>8 DEF In
<1>17. B \cap S = {} /\ B \cap o = {}
  BY <1>6, <1>7, <1>8, <1>16 DEF In
<1>18. Staged(d, b, o, B, S, refused)
  <2> SUFFICES ASSUME NEW c \in Chunk
               PROVE  /\ c \in refused => d.state[c] = "Failed"
                      /\ c \in S \ refused => d.state[c] = "Loading"
                      /\ c \in B => d.state[c] = "Resident"
                      /\ c \in o \ S => d.state[c] = "Unloaded"
                      /\ c \notin S \cup B \cup o => d.state[c] = b.state[c]
    BY <1>16 DEF Staged
  <2>1. c \in B => c \notin S
    BY <1>17
  <2>2. c \in o => c \notin B
    BY <1>17
  <2> QED
    BY <1>4, <1>6, <1>9, <1>13, <2>1, <2>2
<1>19. Counted(b) => Counted(d)
  <2>1. Counted(b) => Counted(s)
    BY <1>4 DEF Counted, In
  <2> QED
    BY <1>6, <1>9, <1>14, <2>1
<1>20. Grown(d, b, S \ refused)
  BY <1>4, <1>6, <1>9, <1>12 DEF Grown
<1> QED
  BY <1>12, <1>15, <1>18, <1>19, <1>20 DEF d, t, S, B, e, o, b

-----------------------------------------------------------------------------
(* What a frame does to the reads and to the world.                         *)

\* A frame of k reads, n chunks and room for r reads.
AFrame(k, n, r, refused) ==
    /\ Frame(k, n, r, refused)
    /\ k \in Nat /\ n \in Nat /\ r \in Nat

LEMMA FrameIs ==
    ASSUME Inv, NEW k, NEW n, NEW r, NEW refused, AFrame(k, n, r, refused)
    PROVE  LET b == Drained(SetWorld, k)
           IN  /\ refused \subseteq Start(k, n, r)
               /\ Sound(m') /\ m'.inFlight <= MaxInFlight
               /\ Staged(m', b, Out(k), Build(k, n), Start(k, n, r), refused)
               /\ Grown(m', b, Start(k, n, r) \ refused)
               /\ Counted(b) => Counted(m')
<1>1. k \in Nat /\ n \in Nat /\ r \in Nat /\ Pump(k, n, r, refused)
  BY DEF AFrame, Frame
<1>2. /\ refused \subseteq Start(k, n, r)
      /\ m' = StartedBut(Built(Cleared(k), Build(k, n), {}), Start(k, n, r), refused)
  BY <1>1, PumpIs
<1> DEFINE d == StartedBut(Built(Cleared(k), Build(k, n), {}), Start(k, n, r), refused)
           b == Drained(SetWorld, k)
<1>3. /\ Sound(d) /\ d.inFlight <= MaxInFlight
      /\ Staged(d, b, Out(k), Build(k, n), Start(k, n, r), refused)
      /\ Grown(d, b, Start(k, n, r) \ refused)
      /\ Counted(b) => Counted(d)
  BY <1>1, <1>2, FrameStages
<1>4. m' = d
  BY <1>2
<1> HIDE DEF d, b
<1>5. /\ Sound(m') /\ m'.inFlight <= MaxInFlight
      /\ Staged(m', b, Out(k), Build(k, n), Start(k, n, r), refused)
      /\ Grown(m', b, Start(k, n, r) \ refused)
      /\ Counted(b) => Counted(m')
  BY <1>3, <1>4
<1> QED
  BY <1>2, <1>5 DEF b

\* What follows the first q reads of rs was begun, one of every chunk of S.
BegunAfter(rs, q, S) ==
    \A i \in (q + 1)..Len(rs) : i - q \in 1..Cardinality(S) /\ rs[i] = Begun(S)[i - q]

\* The reads after a frame: those that have not ended, and those it began.
LEMMA FrameReads ==
    ASSUME Inv, NEW k, NEW n, NEW r, NEW refused, AFrame(k, n, r, refused)
    PROVE  LET S == Start(k, n, r) \ refused
               q == Len(StillOut(reads, k))
           IN  /\ S \in SUBSET Chunk /\ Cardinality(S) \in Nat /\ q \in Nat
               /\ q = Len(reads) - Cardinality(Ended(reads, k))
               /\ reads' \in Seq(Read) /\ Len(reads') = q + Cardinality(S)
               /\ \A i \in 1..q : reads'[i] = StillOut(reads, k)[i]
               /\ BegunAfter(reads', q, S)
<1> DEFINE S == Start(k, n, r) \ refused
           o == StillOut(reads, k)
           q == Len(o)
           g == Begun(S)
<1>1. k \in Nat /\ n \in Nat /\ r \in Nat /\ Pump(k, n, r, refused)
  BY DEF AFrame, Frame
<1>2. reads \in Seq(Read) /\ foci \in SUBSET Int /\ IsFiniteSet(foci)
  BY InvTypes
<1>3. S \in SUBSET Chunk
  <2>1. Staged(m', Drained(SetWorld, k), Out(k), Build(k, n), Start(k, n, r), refused)
    BY FrameIs
  <2> QED
    BY <2>1 DEF Staged, In
<1>4. reads' = o \o g
  BY <1>1, PumpIs
<1>5. o \in Seq(Read) /\ q = Len(reads) - Cardinality(Ended(reads, k))
  BY <1>1, <1>2, StillOutIs
<1> HIDE DEF S, o
<1>6. g \in Seq(Read) /\ Len(g) = Cardinality(S) /\ Cardinality(S) \in Nat
  BY <1>2, <1>3, BegunIs
<1> HIDE DEF g
<1>7. q \in Nat
  BY <1>5
<1>8. reads' \in Seq(Read) /\ Len(reads') = q + Cardinality(S)
  BY <1>4, <1>5, <1>6, ConcatProperties
<1>9. \A i \in 1..q : reads'[i] = o[i]
  BY <1>4, <1>5, <1>6
<1>10. \A i \in (q + 1)..Len(reads') : i - q \in 1..Cardinality(S) /\ reads'[i] = g[i - q]
  BY <1>4, <1>5, <1>6, <1>7, <1>8
<1> QED
  BY <1>3, <1>5, <1>6, <1>7, <1>8, <1>9, <1>10 DEF S, o, g, BegunAfter

\* A read that goes on, of a chunk that was never outstanding when a world went,
\* keeps its chunk loading through the drain.
LEMMA OwnStays ==
    ASSUME Inv, hostWorld = world, NEW k \in Nat, NEW i \in Kept(reads, k), reads[i].chunk \notin crossed
    PROVE  /\ reads[i].chunk \in Chunk /\ Drained(SetWorld, k).state[reads[i].chunk] = "Loading"
           /\ \A j \in 1..Len(reads) : reads[j].chunk = reads[i].chunk => j = i
<1>1. reads \in Seq(Read) /\ Sound(SetWorld) /\ SetWorld = m
  BY InvTypes, SetWorldIs
<1>2. i \in 1..Len(reads) /\ i \notin Ended(reads, k)
  BY DEF Kept
<1>3. /\ m.state[reads[i].chunk] = "Loading"
      /\ \A j \in 1..Len(reads) : reads[j].chunk = reads[i].chunk => j = i
  BY <1>2 DEF Inv, ReadsAreOwn
<1>4. reads[i].chunk \notin Told(reads, k)
  <2> SUFFICES ASSUME reads[i].chunk \in Told(reads, k) PROVE FALSE
    OBVIOUS
  <2>1. PICK j \in Ended(reads, k) : reads[j].chunk = reads[i].chunk
    BY <1>1, ToldAreFew
  <2>2. j \in 1..Len(reads)
    BY <1>1, EndedIs
  <2> QED
    BY <1>2, <1>3, <2>1, <2>2
<1>5. reads[i].chunk \in Chunk
  <2>1. reads[i] \in Read
    BY <1>1, <1>2
  <2> QED
    BY <2>1 DEF Read
<1>6. Outcomes(Drained(SetWorld, k), SetWorld, k)
  BY <1>1, DrainedIs
<1> QED
  BY <1>1, <1>3, <1>4, <1>5, <1>6 DEF Outcomes

\* A frame of a host that hears of a new world makes all its reads old ones.
LEMMA FrameCrosses ==
    ASSUME Inv, NEW k, NEW n, NEW r, NEW refused, AFrame(k, n, r, refused)
    PROVE  /\ crossed \subseteq crossed' /\ crossed' \subseteq Chunk
           /\ hostWorld = world => crossed' = crossed
           /\ hostWorld # world => \A i \in 1..Len(reads) : reads[i].chunk \in crossed'
<1>1. crossed' = IF hostWorld = world THEN crossed
                 ELSE crossed \cup {reads[i].chunk : i \in DOMAIN reads}
  BY DEF AFrame, Frame
<1>2. DOMAIN reads = 1..Len(reads) /\ \A i \in 1..Len(reads) : reads[i] \in Read
  BY InvTypes
<1>3. \A i \in 1..Len(reads) : reads[i].chunk \in Chunk
  BY <1>2 DEF Read
<1>4. crossed \subseteq Chunk
  BY InvTypes
<1> QED
  BY <1>1, <1>2, <1>3, <1>4

LEMMA FrameReadsAreOwn ==
    ASSUME Inv, NEW k, NEW n, NEW r, NEW refused, AFrame(k, n, r, refused)
    PROVE  ReadsAreOwn'
<1> DEFINE b == Drained(SetWorld, k)
           st == Start(k, n, r)
           S == st \ refused
           o == StillOut(reads, k)
           q == Len(o)
           at(i) == Place(Kept(reads, k), i)
<1>1. k \in Nat /\ reads \in Seq(Read) /\ foci \in SUBSET Int /\ IsFiniteSet(foci)
  BY InvTypes DEF AFrame
<1>2. Staged(m', b, Out(k), Build(k, n), st, refused) /\ refused \subseteq st
  BY FrameIs
<1>3. /\ S \in SUBSET Chunk /\ q \in Nat /\ Cardinality(S) \in Nat /\ Len(reads') = q + Cardinality(S)
      /\ \A i \in 1..q : reads'[i] = o[i]
      /\ \A i \in (q + 1)..Len(reads') : i - q \in 1..Cardinality(S) /\ reads'[i] = Begun(S)[i - q]
  <2>1. S \in SUBSET Chunk /\ q \in Nat /\ Cardinality(S) \in Nat /\ Len(reads') = q + Cardinality(S)
    BY FrameReads
  <2>2. \A i \in 1..q : reads'[i] = o[i]
    BY FrameReads
  <2>3. BegunAfter(reads', q, S)
    BY FrameReads
  <2> QED
    BY <2>1, <2>2, <2>3 DEF BegunAfter
<1>4. \A i \in 1..q : at(i) \in Kept(reads, k) /\ o[i] = reads[at(i)]
  BY <1>1, StillOutIs
<1>5. \A i, j \in 1..q : at(i) = at(j) => i = j
  BY <1>1, StillOutIs
<1>6. /\ \A i \in 1..Cardinality(S) : Begun(S)[i].chunk \in S
      /\ \A i, j \in 1..Cardinality(S) : Begun(S)[i].chunk = Begun(S)[j].chunk => i = j
  BY <1>1, <1>3, BegunIs
<1> HIDE DEF b, o, at
<1>7. \A i \in 1..q : reads'[i].chunk \notin crossed' =>
          /\ b.state[reads'[i].chunk] = "Loading" /\ reads'[i].chunk \in Chunk
          /\ \A j \in 1..Len(reads) : reads[j].chunk = reads'[i].chunk => j = at(i)
  <2> SUFFICES ASSUME NEW i \in 1..q, reads'[i].chunk \notin crossed'
               PROVE  /\ b.state[reads'[i].chunk] = "Loading" /\ reads'[i].chunk \in Chunk
                      /\ \A j \in 1..Len(reads) : reads[j].chunk = reads'[i].chunk => j = at(i)
    OBVIOUS
  <2>1. reads'[i] = reads[at(i)] /\ at(i) \in Kept(reads, k) /\ at(i) \in 1..Len(reads)
    BY <1>3, <1>4 DEF Kept
  <2>2. hostWorld = world /\ reads[at(i)].chunk \notin crossed
    BY <2>1, FrameCrosses
  <2> QED
    BY <1>1, <2>1, <2>2, OwnStays DEF b
<1>8. \A c \in Chunk : b.state[c] = "Loading" => c \notin st /\ m'.state[c] = "Loading"
  BY <1>2 DEF Staged, In
<1>9. \A c \in S : m'.state[c] = "Loading"
  BY <1>2, <1>3 DEF Staged
<1> HIDE DEF st
<1> SUFFICES ASSUME NEW i \in 1..Len(reads'), reads'[i].chunk \notin crossed'
             PROVE  /\ m'.state[reads'[i].chunk] = "Loading"
                    /\ \A j \in 1..Len(reads') : reads'[j].chunk = reads'[i].chunk => j = i
  BY DEF ReadsAreOwn
<1>10. CASE i \in 1..q
  <2>1. m'.state[reads'[i].chunk] = "Loading" /\ reads'[i].chunk \notin S
    BY <1>7, <1>8, <1>10
  <2>2. ASSUME NEW j \in 1..Len(reads'), reads'[j].chunk = reads'[i].chunk
        PROVE  j = i
    <3>1. CASE j \in 1..q
      <4>1. at(j) \in 1..Len(reads) /\ reads[at(j)].chunk = reads'[i].chunk
        BY <1>3, <1>4, <2>2, <3>1 DEF Kept
      <4>2. at(j) = at(i)
        BY <1>7, <1>10, <4>1
      <4> QED
        BY <1>5, <1>10, <3>1, <4>2
    <3>2. CASE j \notin 1..q
      <4>1. j \in (q + 1)..Len(reads')
        BY <1>3, <3>2
      <4>2. reads'[j].chunk \in S
        BY <1>3, <1>6, <4>1
      <4> QED
        BY <2>1, <2>2, <4>2
    <3> QED
      BY <3>1, <3>2
  <2> QED
    BY <2>1, <2>2
<1>11. CASE i \notin 1..q
  <2>1. i \in (q + 1)..Len(reads')
    BY <1>3, <1>11
  <2>2. reads'[i] = Begun(S)[i - q] /\ i - q \in 1..Cardinality(S) /\ reads'[i].chunk \in S
    BY <1>3, <1>6, <2>1
  <2>3. ASSUME NEW j \in 1..Len(reads'), reads'[j].chunk = reads'[i].chunk
        PROVE  j = i
    <3>1. CASE j \in 1..q
      <4>1. reads'[j].chunk \notin S
        BY <1>7, <1>8, <2>3, <3>1
      <4> QED
        BY <2>2, <2>3, <4>1
    <3>2. CASE j \notin 1..q
      <4>1. j \in (q + 1)..Len(reads')
        BY <1>3, <3>2
      <4>2. reads'[j] = Begun(S)[j - q] /\ j - q \in 1..Cardinality(S)
        BY <1>3, <4>1
      <4>3. j - q = i - q
        BY <1>6, <2>2, <2>3, <4>2
      <4> QED
        BY <1>3, <2>1, <4>1, <4>3
    <3> QED
      BY <3>1, <3>2
  <2> QED
    BY <1>9, <2>2, <2>3
<1> QED
  BY <1>10, <1>11

LEMMA FrameLoadingIsRead ==
    ASSUME Inv, NEW k, NEW n, NEW r, NEW refused, AFrame(k, n, r, refused)
    PROVE  LoadingIsRead'
<1> DEFINE b == Drained(SetWorld, k)
           st == Start(k, n, r)
           S == st \ refused
           o == StillOut(reads, k)
           q == Len(o)
<1>1. k \in Nat /\ reads \in Seq(Read) /\ foci \in SUBSET Int /\ IsFiniteSet(foci)
  BY InvTypes DEF AFrame
<1>2. Staged(m', b, Out(k), Build(k, n), st, refused) /\ refused \subseteq st
  BY FrameIs
<1>3. /\ S \in SUBSET Chunk /\ q \in Nat /\ Cardinality(S) \in Nat /\ Len(reads') = q + Cardinality(S)
      /\ reads' \in Seq(Read)
  BY FrameReads
<1>4. \A i \in 1..q : reads'[i] = o[i]
  BY FrameReads
<1>5. BegunAfter(reads', q, S)
  BY FrameReads
<1>6. \A i \in Kept(reads, k) : \E j \in 1..q : o[j] = reads[i]
  BY <1>1, StillOutIs
<1>7. \A c \in S : \E i \in 1..Cardinality(S) : Begun(S)[i].chunk = c
  BY <1>1, <1>3, BegunIs
<1>8. Outcomes(b, SetWorld, k)
  BY <1>1, SetWorldIs, DrainedIs
<1> HIDE DEF b, o, st
<1>9. DOMAIN reads' = 1..Len(reads')
  BY <1>3
<1> SUFFICES ASSUME NEW c \in Chunk, m'.state[c] = "Loading"
             PROVE  \E i \in 1..Len(reads') : reads'[i].chunk = c
  BY <1>9 DEF LoadingIsRead, In
<1>10. CASE c \in S
  <2>1. PICK i \in 1..Cardinality(S) : Begun(S)[i].chunk = c
    BY <1>7, <1>10
  <2>2. q + i \in (q + 1)..Len(reads') /\ (q + i) - q = i
    BY <1>3
  <2>3. reads'[q + i] = Begun(S)[i]
    <3>1. reads'[q + i] = Begun(S)[(q + i) - q]
      BY <1>5, <2>2 DEF BegunAfter
    <3> QED
      BY <2>2, <3>1
  <2>4. q + i \in 1..Len(reads')
    BY <1>3
  <2> QED
    BY <2>1, <2>3, <2>4
<1>11. CASE c \notin S
  <2>1. b.state[c] = "Loading"
    BY <1>2, <1>11 DEF Staged
  <2>2. c \notin Told(reads, k) /\ SetWorld.state[c] = "Loading"
    BY <1>8, <2>1 DEF Outcomes
  <2>3. hostWorld = world /\ c \in In(m, "Loading")
    BY <2>2, SetWorldIs DEF In
  <2>4. PICK i \in 1..Len(reads) : reads[i].chunk = c
    BY <1>1, <2>3 DEF Inv, LoadingIsRead
  <2>5. i \in Kept(reads, k)
    BY <1>1, <2>2, <2>4, LastIsTold DEF Kept
  <2>6. PICK j \in 1..q : o[j] = reads[i]
    BY <1>6, <2>5
  <2>7. j \in 1..Len(reads') /\ reads'[j].chunk = c
    <3>1. j \in 1..Len(reads')
      BY <1>3
    <3>2. reads'[j] = reads[i]
      BY <1>4, <2>6
    <3> QED
      BY <2>4, <3>1, <3>2
  <2> QED
    BY <2>7
<1> QED
  BY <1>10, <1>11

LEMMA FrameReadsFew ==
    ASSUME Inv, NEW k, NEW n, NEW r, NEW refused, AFrame(k, n, r, refused)
    PROVE  ReadsFew'
<1> DEFINE b == Drained(SetWorld, k)
           S == Start(k, n, r) \ refused
           e == Cardinality(Ended(reads, k))
           s == Cardinality(S)
           x == MaxInFlight * hostWorld
           l == Len(reads)
           q == Len(StillOut(reads, k))
<1>1. k \in Nat /\ reads \in Seq(Read) /\ MaxInFlight \in Nat /\ hostWorld \in Nat /\ l \in Nat
      /\ m.inFlight \in 0..MaxInFlight
  BY InvTypes DEF AFrame
<1>2. Grown(m', b, S)
  BY FrameIs
<1>3. s \in Nat /\ Len(reads') = q + s /\ q = l - e
  BY FrameReads
<1>4. e \in Nat
  BY <1>1, EndedIs
<1>5. /\ SetWorld.inFlight <= b.inFlight + e /\ Sound(b)
      /\ SetWorld.inFlight \in Nat
  BY <1>1, SetWorldIs, DrainedIs
<1>6. b.inFlight \in Nat
  BY <1>5 DEF Sound, Managers
<1>7. l <= x + m.inFlight /\ x \in Nat
  BY <1>1 DEF Inv, ReadsFew
<1>8. m'.inFlight = b.inFlight + s
  BY <1>2 DEF Grown
<1>9. hostWorld' = world
  BY DEF AFrame, Frame
<1> HIDE DEF b, e, s, l, x, q
<1>10. CASE hostWorld = world
  <2>1. SetWorld.inFlight = m.inFlight
    BY <1>10, SetWorldIs
  <2>2. l <= x + (b.inFlight + e)
    BY <1>1, <1>4, <1>5, <1>6, <1>7, <2>1
  <2>3. q <= x + b.inFlight
    BY <1>1, <1>3, <1>4, <1>6, <1>7, <2>2
  <2>4. Len(reads') <= x + m'.inFlight
    BY <1>3, <1>4, <1>1, <1>6, <1>7, <1>8, <2>3
  <2> QED
    BY <1>9, <1>10, <2>4 DEF ReadsFew, x
<1>11. CASE hostWorld # world
  <2>1. world = hostWorld + 1
    BY <1>11 DEF Inv, WorldIsEmpty
  <2>2. MaxInFlight * world = x + MaxInFlight
    BY <1>1, <2>1 DEF x
  <2>3. q <= x + MaxInFlight /\ s <= m'.inFlight
    BY <1>1, <1>3, <1>4, <1>6, <1>7, <1>8
  <2>4. Len(reads') <= (x + MaxInFlight) + m'.inFlight
    BY <1>1, <1>3, <1>4, <1>6, <1>7, <1>8, <2>3
  <2> QED
    BY <1>9, <2>2, <2>4 DEF ReadsFew
<1> QED
  BY <1>10, <1>11

\* Before a frame builds, what is in the world is what the glue will know of.
LEMMA GlueIs ==
    ASSUME Inv
    PROVE  /\ GlueFor \subseteq Chunk /\ \A c \in Chunk : live[c] = IF c \in GlueFor THEN 1 ELSE 0
           /\ In(SetWorld, "Resident") \subseteq GlueFor
           /\ \A c \in GlueFor \ crossed : hostWorld = world /\ SetWorld.state[c] = "Resident"
           /\ crossed = {} => Counted(SetWorld)
<1>1. glue \subseteq Chunk
  BY InvTypes
<1>2. CASE hostWorld = world
  <2>1. GlueFor = glue /\ SetWorld = m
    BY <1>2 DEF GlueFor, SetWorld
  <2>2. In(m, "Resident") \subseteq glue /\ \A c \in Chunk : live[c] = IF c \in glue THEN 1 ELSE 0
    BY <1>2 DEF Inv, ResidentIsThere
  <2>3. (\A c \in glue \ crossed : m.state[c] = "Resident") /\ (crossed = {} => Counted(m))
    BY <1>2 DEF Inv, LeftOnlyByReload, Counted
  <2> QED
    BY <1>1, <1>2, <2>1, <2>2, <2>3
<1>3. CASE hostWorld # world
  <2>1. GlueFor = {} /\ \A c \in Chunk : live[c] = 0
    BY <1>3 DEF GlueFor, Inv, WorldIsEmpty
  <2>2. Counted(SetWorld) /\ \A c \in Chunk : SetWorld.state[c] = "Unloaded"
    BY <1>3, SetWorldIs
  <2> QED
    BY <2>1, <2>2 DEF In
<1> QED
  BY <1>2, <1>3

\* A read that ends is of a chunk that was loading, or of one whose reads a world left.
LEMMA ToldAreLoading ==
    ASSUME Inv, hostWorld = world, NEW k \in Nat, NEW c \in Told(reads, k), c \notin crossed
    PROVE  m.state[c] = "Loading"
<1>1. reads \in Seq(Read)
  BY InvTypes
<1>2. PICK i \in Ended(reads, k) : reads[i].chunk = c
  BY <1>1, ToldAreFew
<1>3. i \in 1..Len(reads)
  BY <1>1, EndedIs
<1> QED
  BY <1>2, <1>3 DEF Inv, ReadsAreOwn

LEMMA FrameGlue ==
    ASSUME Inv, NEW k, NEW n, NEW r, NEW refused, AFrame(k, n, r, refused)
    PROVE  /\ glue' = (GlueFor \ Out(k)) \cup Build(k, n)
           /\ live' = [c \in Chunk |-> IF c \in glue' THEN 1 ELSE 0]
           /\ hostWorld' = world /\ world' = world
           /\ \A c \in kept : live[c] > 0 \/ c \in husks => live'[c] > 0 \/ c \in husks'
           /\ kept' = kept /\ husks' \subseteq kept
<1> DEFINE b == Drained(SetWorld, k)
           T == TakenAway(k)
           B == Build(k, n)
           O == Out(k)
           G == GlueFor
<1>1. /\ glue' = (G \ T) \cup B
      /\ live' = [c \in Chunk |-> (IF c \in T THEN 0 ELSE live[c])
                                      + (IF c \in B \ (G \ T) THEN 1 ELSE 0)]
      /\ husks' = Swept(husks \cup (T \cap Probed))
  BY PumpIs DEF AFrame, Frame
<1>2. hostWorld' = world /\ world' = world /\ kept' = kept
  BY DEF AFrame, Frame
<1>3. Staged(m', b, O, B, Start(k, n, r), refused)
  BY FrameIs
<1>4. G \subseteq Chunk /\ \A c \in Chunk : live[c] = IF c \in G THEN 1 ELSE 0
  BY GlueIs
<1>5. T = O \cap G
  BY DEF TakenAway, TakenOut
<1> HIDE DEF b, T, B, O, G
<1>6. B \cap O = {} /\ B \subseteq Chunk
  BY <1>3 DEF Staged, In
<1>7. glue' = (G \ O) \cup B
  BY <1>1, <1>5
<1>8. \A c \in Chunk : live'[c] = IF c \in glue' THEN 1 ELSE 0
  <2> SUFFICES ASSUME NEW c \in Chunk PROVE live'[c] = IF c \in glue' THEN 1 ELSE 0
    OBVIOUS
  <2>1. live'[c] = (IF c \in T THEN 0 ELSE live[c]) + (IF c \in B \ (G \ T) THEN 1 ELSE 0)
    BY <1>1
  <2>2. live[c] = IF c \in G THEN 1 ELSE 0
    BY <1>4
  <2>3. CASE c \in T
    BY <1>5, <1>6, <1>7, <2>1, <2>3
  <2>4. CASE c \notin T /\ c \in G
    BY <1>5, <1>7, <2>1, <2>2, <2>4
  <2>5. CASE c \notin G
    BY <1>5, <1>7, <2>1, <2>2, <2>5
  <2> QED
    BY <2>3, <2>4, <2>5
<1>9. live' = [c \in Chunk |-> IF c \in glue' THEN 1 ELSE 0]
  <2>1. DOMAIN live' = Chunk /\ live' = [c \in DOMAIN live' |-> live'[c]]
    BY <1>1
  <2> QED
    BY <1>8, <2>1
<1>10. husks' = (husks \cup (T \cap (kept \ husks))) \cap kept
  BY <1>1 DEF Swept, Probed
<1>11. ASSUME NEW c \in kept, live[c] > 0 \/ c \in husks
       PROVE  live'[c] > 0 \/ c \in husks'
  <2>1. c \in Chunk
    BY InvTypes
  <2>2. CASE c \in husks \/ c \in T
    BY <1>10, <2>2
  <2>3. CASE c \notin husks /\ c \notin T
    <3>1. c \in G
      BY <1>4, <1>11, <2>1, <2>3
    <3>2. c \in glue'
      BY <1>5, <1>7, <2>3, <3>1
    <3> QED
      BY <1>8, <2>1, <3>2
  <2> QED
    BY <2>2, <2>3
<1> QED
  BY <1>2, <1>7, <1>9, <1>10, <1>11 DEF G, B, O

LEMMA FrameResidentIsThere ==
    ASSUME Inv, NEW k, NEW n, NEW r, NEW refused, AFrame(k, n, r, refused)
    PROVE  ResidentIsThere'
<1> DEFINE b == Drained(SetWorld, k)
<1>1. reads \in Seq(Read) /\ k \in Nat /\ Sound(SetWorld)
  BY InvTypes, SetWorldIs DEF AFrame
<1>2. Outcomes(b, SetWorld, k)
  BY <1>1, DrainedIs
<1>3. Staged(m', b, Out(k), Build(k, n), Start(k, n, r), refused) /\ refused \subseteq Start(k, n, r)
  BY FrameIs
<1> HIDE DEF b
<1>4. glue' = (GlueFor \ Out(k)) \cup Build(k, n)
  BY FrameGlue
<1>5. \A c \in Chunk : live'[c] = IF c \in glue' THEN 1 ELSE 0
  BY FrameGlue
<1>6. In(SetWorld, "Resident") \subseteq GlueFor
  BY GlueIs
<1>7. ASSUME NEW c \in Chunk, m'.state[c] = "Resident"
      PROVE  c \in glue'
  <2>1. CASE c \in Build(k, n)
    BY <1>4, <2>1
  <2>2. CASE c \notin Build(k, n)
    <3>1. c \notin Start(k, n, r) /\ c \notin Out(k) /\ b.state[c] = "Resident"
      BY <1>3, <1>7, <2>2 DEF Staged
    <3>2. SetWorld.state[c] = "Resident"
      BY <1>2, <3>1 DEF Outcomes
    <3> QED
      BY <1>4, <1>6, <3>1, <3>2 DEF In
  <2> QED
    BY <2>1, <2>2
<1>8. In(m', "Resident") \subseteq glue'
  BY <1>7 DEF In
<1>9. In(m, "Resident")' = In(m', "Resident")
  BY DEF In
<1> QED
  BY <1>5, <1>8, <1>9 DEF ResidentIsThere

LEMMA FrameLeftOnlyByReload ==
    ASSUME Inv, NEW k, NEW n, NEW r, NEW refused, AFrame(k, n, r, refused)
    PROVE  LeftOnlyByReload'
<1> DEFINE b == Drained(SetWorld, k)
<1>1. reads \in Seq(Read) /\ k \in Nat /\ Sound(SetWorld)
  BY InvTypes, SetWorldIs DEF AFrame
<1>2. Outcomes(b, SetWorld, k) /\ b.bytes = SetWorld.bytes
  BY <1>1, DrainedIs
<1>3. /\ Staged(m', b, Out(k), Build(k, n), Start(k, n, r), refused)
      /\ refused \subseteq Start(k, n, r) /\ (Counted(b) => Counted(m'))
  BY FrameIs
<1> HIDE DEF b
<1>4. glue' = (GlueFor \ Out(k)) \cup Build(k, n) /\ GlueFor \subseteq Chunk
  BY FrameGlue, GlueIs
<1>5. crossed \subseteq crossed'
  BY FrameCrosses
<1>6. ASSUME NEW c \in glue', c \notin crossed'
      PROVE  m'.state[c] = "Resident"
  <2>1. CASE c \in Build(k, n)
    BY <1>3, <2>1 DEF Staged, In
  <2>2. CASE c \notin Build(k, n)
    <3>1. c \in GlueFor \ crossed /\ c \notin Out(k) /\ c \in Chunk
      BY <1>4, <1>5, <1>6, <2>2
    <3>2. hostWorld = world /\ SetWorld.state[c] = "Resident"
      BY <3>1, GlueIs
    <3>3. c \notin Told(reads, k)
      BY <1>1, <3>1, <3>2, SetWorldIs, ToldAreLoading
    <3>4. b.state[c] = "Resident"
      BY <1>2, <3>1, <3>2, <3>3 DEF Outcomes
    <3>5. c \notin Start(k, n, r)
      BY <1>3, <3>1, <3>4 DEF Staged, In
    <3> QED
      BY <1>3, <2>2, <3>1, <3>4, <3>5 DEF Staged
  <2> QED
    BY <2>1, <2>2
<1>7. ASSUME crossed' = {}
      PROVE  Counted(m')
  <2>1. crossed = {} /\ Counted(SetWorld)
    BY <1>5, <1>7, GlueIs
  <2>2. ASSUME NEW c \in Chunk
        PROVE  b.state[c] = "Resident" <=> SetWorld.state[c] = "Resident"
    <3>1. CASE c \notin Told(reads, k)
      BY <1>2, <3>1 DEF Outcomes
    <3>2. CASE c \in Told(reads, k)
      <4>1. b.state[c] # "Resident"
        BY <1>2, <3>2 DEF Outcomes
      <4>2. SetWorld.state[c] # "Resident"
        <5>1. CASE hostWorld = world
          BY <1>1, <2>1, <3>2, <5>1, SetWorldIs, ToldAreLoading
        <5>2. CASE hostWorld # world
          BY <5>2, SetWorldIs
        <5> QED
          BY <5>1, <5>2
      <4> QED
        BY <4>1, <4>2
    <3> QED
      BY <3>1, <3>2
  <2>3. In(b, "Resident") = In(SetWorld, "Resident")
    BY <2>2 DEF In
  <2> QED
    BY <1>2, <1>3, <2>1, <2>3 DEF Counted
<1>8. Cardinality(In(m, "Resident"))' = Cardinality(In(m', "Resident"))
  BY DEF In
<1> QED
  BY <1>6, <1>7, <1>8 DEF LeftOnlyByReload, Counted

LEMMA FrameTypeOK ==
    ASSUME Inv, NEW k, NEW n, NEW r, NEW refused, AFrame(k, n, r, refused)
    PROVE  TypeOK' /\ Sound(m') /\ ReadsOK'
<1>1. Sound(m') /\ m'.inFlight <= MaxInFlight
  BY FrameIs
<1>2. m' \in Managers /\ m'.inFlight \in 0..MaxInFlight
  BY <1>1, InvTypes DEF Sound, Managers
<1>3. hostWorld' = world /\ world' = world /\ kept' = kept /\ husks' \subseteq kept
      /\ live' = [c \in Chunk |-> IF c \in glue' THEN 1 ELSE 0]
      /\ glue' = (GlueFor \ Out(k)) \cup Build(k, n)
  BY FrameGlue
<1>4. areas' \subseteq areas
  BY DEF AFrame, Frame, Publish
<1>5. crossed' \subseteq Chunk
  BY FrameCrosses
<1>6. glue' \subseteq Chunk
  <2>1. Staged(m', Drained(SetWorld, k), Out(k), Build(k, n), Start(k, n, r), refused)
    BY FrameIs
  <2>2. Build(k, n) \subseteq Chunk
    BY <2>1 DEF Staged, In
  <2> QED
    BY <1>3, <2>2, GlueIs
<1>7. reads' \in Seq(Read)
  BY FrameReads
<1>8. \A i \in DOMAIN reads' : reads'[i].chunk \in Chunk /\ reads'[i].io \in {"Pending", "Ready", "Failed"}
  <2>1. \A i \in DOMAIN reads' : reads'[i] \in Read
    BY <1>7
  <2> QED
    BY <2>1 DEF Read
<1>9. live' \in [Chunk -> Nat]
  BY <1>3
<1>10. world \in 0..Reloads /\ hostWorld' \in 0..world' /\ world' \in 0..Reloads
       /\ kept' \cup husks' \cup areas' \cup crossed' \subseteq Chunk
  BY <1>3, <1>4, <1>5, InvTypes
<1> QED
  BY <1>1, <1>2, <1>6, <1>7, <1>8, <1>9, <1>10 DEF TypeOK, ReadsOK

LEMMA FrameInv ==
    ASSUME Inv, NEW k, NEW n, NEW r, NEW refused, AFrame(k, n, r, refused)
    PROVE  Inv'
<1>1. TypeOK' /\ Sound(m') /\ ReadsOK'
  BY FrameTypeOK
<1>2. foci' = foci /\ enabled' = enabled
  BY DEF AFrame, Frame
<1>3. ReadsAreOwn' /\ LoadingIsRead' /\ ReadsFew'
  BY FrameReadsAreOwn, FrameLoadingIsRead, FrameReadsFew
<1>4. ResidentIsThere' /\ LeftOnlyByReload'
  BY FrameResidentIsThere, FrameLeftOnlyByReload
<1>5. WorldIsEmpty'
  BY FrameGlue DEF WorldIsEmpty
<1>6. HeldIsThere'
  <2>1. kept' = kept
    BY FrameGlue
  <2>2. \A c \in kept : live[c] > 0 \/ c \in husks => live'[c] > 0 \/ c \in husks'
    BY FrameGlue
  <2>3. \A c \in kept : live[c] > 0 \/ c \in husks
    BY DEF Inv, HeldIsThere
  <2> QED
    BY <2>1, <2>2, <2>3 DEF HeldIsThere
<1>7. foci' \in Foci /\ enabled' \in BOOLEAN
  BY <1>2 DEF Inv
<1>8. Sound(m)'
  BY <1>1 DEF Sound, In, Managers
<1> QED
  BY <1>1, <1>3, <1>4, <1>5, <1>6, <1>7, <1>8 DEF Inv

-----------------------------------------------------------------------------
(* The other steps.                                                         *)

LEMMA ReadEndsInv ==
    ASSUME Inv, NEW i \in DOMAIN reads, NEW o \in {"Ready", "Failed"}, ReadEnds(i, o)
    PROVE  Inv'
<1>1. /\ reads' = [reads EXCEPT ![i].io = o]
      /\ UNCHANGED <<m, hostWorld, glue, live, kept, husks, areas, foci, enabled, world, crossed>>
  BY DEF ReadEnds, sceneVars, scriptVars
<1>2. reads \in Seq(Read) /\ Len(reads) \in Nat /\ i \in 1..Len(reads)
  BY InvTypes
<1>3. \A j \in 1..Len(reads) : reads[j] \in Read
  BY <1>2
<1>4. /\ reads' \in Seq(Read) /\ Len(reads') = Len(reads) /\ DOMAIN reads' = 1..Len(reads)
      /\ \A j \in 1..Len(reads) : reads'[j].chunk = reads[j].chunk
  <2>1. [reads[i] EXCEPT !.io = o] \in Read
    BY <1>2, <1>3 DEF Read
  <2>2. [reads[i] EXCEPT !.io = o].chunk = reads[i].chunk
    BY <1>2, <1>3 DEF Read
  <2> QED
    BY <1>1, <1>2, <2>1, <2>2
<1>5. \A j \in 1..Len(reads) : reads'[j] \in Read
  BY <1>4
<1>6. TypeOK'
  BY <1>1, <1>4, <1>5 DEF Inv, TypeOK, Read
<1>7. ReadsOK' /\ ReadsFew'
  BY <1>1, <1>4 DEF Inv, ReadsOK, ReadsFew
<1>8. LoadingIsRead'
  <2>1. \A c \in In(m, "Loading") : \E j \in 1..Len(reads) : reads[j].chunk = c
    BY <1>2 DEF Inv, LoadingIsRead
  <2>2. In(m, "Loading")' = In(m, "Loading")
    BY <1>1 DEF In
  <2> QED
    BY <1>4, <2>1, <2>2 DEF LoadingIsRead
<1>9. ReadsAreOwn'
  BY <1>1, <1>4 DEF Inv, ReadsAreOwn
<1>10. Sound(m)' /\ foci' \in Foci /\ enabled' \in BOOLEAN
  BY <1>1 DEF Inv, Sound, In
<1>11. WorldIsEmpty' /\ ResidentIsThere' /\ LeftOnlyByReload' /\ HeldIsThere'
  BY <1>1 DEF Inv, WorldIsEmpty, ResidentIsThere, LeftOnlyByReload, HeldIsThere, In
<1> QED
  BY <1>6, <1>7, <1>8, <1>9, <1>10, <1>11 DEF Inv

\* A step that leaves the host, and what is in the world, as they were.
LEMMA ScriptInv ==
    ASSUME Inv, UNCHANGED <<m, reads, hostWorld, glue, live, world, crossed>>,
           kept' \cup husks' \cup areas' \subseteq Chunk, HeldIsThere',
           foci' \in Foci, enabled' \in BOOLEAN
    PROVE  Inv'
<1>1. TypeOK'
  BY DEF Inv, TypeOK
<1>2. ReadsOK' /\ ReadsFew' /\ ReadsAreOwn' /\ LoadingIsRead' /\ Sound(m)'
  BY DEF Inv, ReadsOK, ReadsFew, ReadsAreOwn, LoadingIsRead, Sound, In
<1>3. WorldIsEmpty' /\ ResidentIsThere' /\ LeftOnlyByReload'
  BY DEF Inv, WorldIsEmpty, ResidentIsThere, LeftOnlyByReload, In
<1> QED
  BY <1>1, <1>2, <1>3 DEF Inv

LEMMA ScriptsInv ==
    ASSUME Inv, Scripts PROVE Inv'
<1>0. kept \subseteq Chunk /\ husks \subseteq Chunk /\ areas \subseteq Chunk
  BY InvTypes
<1>00. foci \in Foci /\ enabled \in BOOLEAN /\ HeldIsThere
  BY DEF Inv
<1>1. CASE \E f \in Foci : MoveFocus(f)
  <2>1. /\ UNCHANGED <<m, reads, hostWorld, glue, live, world, crossed, kept, husks, areas, enabled>>
        /\ foci' \in Foci
    BY <1>1 DEF MoveFocus, hostVars, sceneVars
  <2>2. HeldIsThere'
    BY <1>00, <2>1 DEF HeldIsThere
  <2> QED
    BY <1>0, <1>00, <2>1, <2>2, ScriptInv
<1>2. CASE \E on \in BOOLEAN : SetEnabled(on)
  <2>1. /\ UNCHANGED <<m, reads, hostWorld, glue, live, world, crossed, kept, husks, areas, foci>>
        /\ enabled' \in BOOLEAN
    BY <1>2 DEF SetEnabled, hostVars, sceneVars
  <2>2. HeldIsThere'
    BY <1>00, <2>1 DEF HeldIsThere
  <2> QED
    BY <1>0, <1>00, <2>1, <2>2, ScriptInv
<1>3. ASSUME NEW c \in Chunk, Keep(c)
      PROVE  Inv'
  <2>1. /\ UNCHANGED <<m, reads, hostWorld, glue, live, world, crossed, husks, areas, foci, enabled>>
        /\ kept' = kept \cup {c} /\ live[c] > 0
    BY <1>3 DEF Keep, hostVars, sceneVars
  <2>2. HeldIsThere'
    BY <1>00, <2>1 DEF HeldIsThere
  <2>3. kept' \cup husks' \cup areas' \subseteq Chunk
    BY <1>0, <2>1
  <2> QED
    BY <1>00, <2>1, <2>2, <2>3, ScriptInv
<1>4. ASSUME NEW c \in Chunk, Drop(c)
      PROVE  Inv'
  <2>1. /\ UNCHANGED <<m, reads, hostWorld, glue, live, world, crossed, husks, areas, foci, enabled>>
        /\ kept' = kept \ {c}
    BY <1>4 DEF Drop, hostVars, sceneVars
  <2>2. HeldIsThere'
    BY <1>00, <2>1 DEF HeldIsThere
  <2>3. kept' \cup husks' \cup areas' \subseteq Chunk
    BY <1>0, <2>1
  <2> QED
    BY <1>00, <2>1, <2>2, <2>3, ScriptInv
<1>5. ASSUME NEW c \in Chunk, LoadArea(c)
      PROVE  Inv'
  <2>1. /\ UNCHANGED <<m, reads, hostWorld, glue, live, world, crossed, kept, husks, foci, enabled>>
        /\ areas' = areas \cup {c}
    BY <1>5 DEF LoadArea, hostVars, sceneVars
  <2>2. HeldIsThere'
    BY <1>00, <2>1 DEF HeldIsThere
  <2>3. kept' \cup husks' \cup areas' \subseteq Chunk
    BY <1>0, <2>1
  <2> QED
    BY <1>00, <2>1, <2>2, <2>3, ScriptInv
<1> QED
  BY <1>1, <1>2, <1>3, <1>4, <1>5 DEF Scripts

LEMMA ReloadInv ==
    ASSUME Inv, Reload PROVE Inv'
<1>1. /\ world < Reloads /\ world = hostWorld /\ world' = world + 1
      /\ live' = [c \in Chunk |-> 0] /\ kept' = {} /\ husks' = {} /\ areas' = {}
      /\ UNCHANGED <<m, reads, hostWorld, glue, foci, enabled, crossed>>
  BY DEF Reload, hostVars
<1>2. hostWorld \in Nat /\ world \in 0..Reloads /\ Reloads \in Nat /\ glue \subseteq Chunk
      /\ crossed \subseteq Chunk
  BY InvTypes
<1>3. hostWorld' \in 0..world' /\ world' \in 0..Reloads
  BY <1>1, <1>2
<1>4. live' \in [Chunk -> Nat] /\ \A c \in Chunk : live'[c] = 0
  BY <1>1
<1>5. TypeOK'
  <2>1. /\ m \in Managers /\ m.inFlight \in 0..MaxInFlight
        /\ \A i \in DOMAIN reads : /\ reads[i].chunk \in Chunk
                                   /\ reads[i].io \in {"Pending", "Ready", "Failed"}
    BY DEF Inv, TypeOK
  <2> QED
    BY <1>1, <1>2, <1>3, <1>4, <2>1 DEF TypeOK
<1>6. ReadsOK' /\ ReadsFew' /\ ReadsAreOwn' /\ LoadingIsRead' /\ Sound(m)'
  BY <1>1 DEF Inv, ReadsOK, ReadsFew, ReadsAreOwn, LoadingIsRead, Sound, In
<1>7. hostWorld' # world' /\ world' = hostWorld' + 1
  BY <1>1, <1>2
<1>8. WorldIsEmpty' /\ ResidentIsThere' /\ LeftOnlyByReload'
  BY <1>4, <1>7 DEF WorldIsEmpty, ResidentIsThere, LeftOnlyByReload
<1>9. HeldIsThere' /\ foci' \in Foci /\ enabled' \in BOOLEAN
  BY <1>1 DEF HeldIsThere, Inv
<1> QED
  BY <1>5, <1>6, <1>8, <1>9 DEF Inv

LEMMA InvNext ==
    ASSUME Inv, [Next]_vars PROVE Inv'
<1>1. CASE \E c \in Chunk : ReadOf(c)
  BY <1>1, ReadEndsInv DEF ReadOf
<1>2. CASE Scripts
  BY <1>2, ScriptsInv
<1>3. CASE Reload
  BY <1>3, ReloadInv
<1>4. CASE AnyFrame
  <2>1. PICK k \in 0..Len(reads), n \in 0..Cardinality(Chunk), r \in 0..MaxInFlight,
             refused \in SUBSET Chunk : Frame(k, n, r, refused)
    BY <1>4 DEF AnyFrame
  <2>2. k \in Nat /\ n \in Nat /\ r \in Nat
    BY InvTypes, FS_CardinalityType
  <2> QED
    BY <2>1, <2>2, FrameInv DEF AFrame
<1>5. CASE UNCHANGED vars
  <2>1. UNCHANGED <<m, reads, hostWorld, glue, live, world, crossed, kept, husks, areas, foci, enabled>>
    BY <1>5 DEF vars, hostVars, sceneVars, scriptVars
  <2>2. HeldIsThere'
    BY <2>1 DEF Inv, HeldIsThere
  <2>3. kept' \cup husks' \cup areas' \subseteq Chunk /\ foci' \in Foci /\ enabled' \in BOOLEAN
    BY <2>1 DEF Inv, TypeOK
  <2> QED
    BY <2>1, <2>2, <2>3, ScriptInv
<1> QED
  BY <1>1, <1>2, <1>3, <1>4, <1>5 DEF Next

\* The invariant holds of every state of every behaviour.
LEMMA InvHolds == Spec => []Inv
<1>1. Init => Inv
  BY InvInit
<1>2. Inv /\ [Next]_vars => Inv'
  BY InvNext
<1> QED
  BY <1>1, <1>2, PTL DEF Spec

-----------------------------------------------------------------------------
(* The theorems.                                                            *)

\* The in-flight budget is exact: the places taken are those of the chunks that are
\* loading, each of which has a read, and the reads in the air are no more than the
\* budget, once for every world that has asked (streaming.cpp's m_inFlight).
THEOREM BudgetExactHolds == Spec => []BudgetExact
<1>1. Inv => BudgetExact
  BY InvGives
<1> QED
  BY <1>1, InvHolds, PTL

\* What the manager takes for resident is in the world, once, and what is in the
\* world is resident, but for what a read that outlived its world has left.
THEOREM WorldAgreesHolds == Spec => []WorldAgrees
<1>1. Inv => WorldAgrees
  BY InvGives
<1> QED
  BY <1>1, InvHolds, PTL

LEMMA HeldOutlivesStep ==
    ASSUME Inv, [Next]_vars, NEW c \in kept, world' = world, c \in kept'
    PROVE  live'[c] > 0 \/ c \in husks'
<1>1. live[c] > 0 \/ c \in husks
  BY DEF Inv, HeldIsThere
<1>2. CASE AnyFrame
  <2>1. PICK k \in 0..Len(reads), n \in 0..Cardinality(Chunk), r \in 0..MaxInFlight,
             refused \in SUBSET Chunk : Frame(k, n, r, refused)
    BY <1>2 DEF AnyFrame
  <2>2. k \in Nat /\ n \in Nat /\ r \in Nat
    BY InvTypes, FS_CardinalityType
  <2>3. AFrame(k, n, r, refused)
    BY <2>1, <2>2 DEF AFrame
  <2> QED
    BY <1>1, <2>3, FrameGlue
<1>3. CASE Reload
  <2>1. world' = world + 1 /\ world \in Int
    BY <1>3, InvTypes DEF Reload
  <2> QED
    BY <2>1
<1>4. CASE (\E d \in Chunk : ReadOf(d)) \/ Scripts \/ UNCHANGED vars
  <2>1. UNCHANGED <<live, husks>>
    BY <1>4 DEF ReadOf, ReadEnds, Scripts, MoveFocus, SetEnabled, Keep, Drop, LoadArea, vars,
                sceneVars, scriptVars
  <2> QED
    BY <1>1, <2>1
<1> QED
  BY <1>2, <1>3, <1>4 DEF Next

\* An instance a script holds outlives the eviction of its chunk (the glue's husks).
THEOREM HeldOutlivesHolds == Spec => HeldOutlives
<1>1. Inv /\ [Next]_vars =>
          [\A c \in kept : (world' = world /\ c \in kept') => (live'[c] > 0 \/ c \in husks')]_vars
  BY HeldOutlivesStep
<1> QED
  BY <1>1, InvHolds, PTL DEF Spec, HeldOutlives

LEMMA AreaIsThereStep ==
    ASSUME Inv, [Next]_vars, NEW c \in areas, world' = world, c \notin areas'
    PROVE  live'[c] = 1
<1>1. CASE AnyFrame
  <2>1. PICK k \in 0..Len(reads), n \in 0..Cardinality(Chunk), r \in 0..MaxInFlight,
             refused \in SUBSET Chunk : Frame(k, n, r, refused)
    BY <1>1 DEF AnyFrame
  <2>2. k \in Nat /\ n \in Nat /\ r \in Nat
    BY InvTypes, FS_CardinalityType
  <2>3. AFrame(k, n, r, refused)
    BY <2>1, <2>2 DEF AFrame
  <2>4. m'.state[c] = "Resident" /\ hostWorld' = world' /\ c \in Chunk
    BY <2>1, InvTypes DEF Frame, Publish
  <2>5. ResidentIsThere'
    BY <2>3, FrameResidentIsThere
  <2>6. In(m, "Resident")' \subseteq glue' /\ live'[c] = IF c \in glue' THEN 1 ELSE 0
    BY <2>4, <2>5 DEF ResidentIsThere
  <2> QED
    BY <2>4, <2>6 DEF In
<1>2. CASE Reload
  <2>1. world' = world + 1 /\ world \in Int
    BY <1>2, InvTypes DEF Reload
  <2> QED
    BY <2>1
<1>3. CASE (\E d \in Chunk : ReadOf(d)) \/ Scripts \/ UNCHANGED vars
  <2>1. areas \subseteq areas'
    BY <1>3 DEF ReadOf, ReadEnds, Scripts, MoveFocus, SetEnabled, Keep, Drop, LoadArea, vars,
                sceneVars, scriptVars
  <2> QED
    BY <2>1
<1> QED
  BY <1>1, <1>2, <1>3 DEF Next

\* LoadAreaAsync answers only once the instances of the area are in the world.
THEOREM AreaIsThereHolds == Spec => AreaIsThere
<1>1. Inv /\ [Next]_vars =>
          [\A c \in areas : (world' = world /\ c \notin areas') => live'[c] = 1]_vars
  BY AreaIsThereStep
<1> QED
  BY <1>1, InvHolds, PTL DEF Spec, AreaIsThere
=============================================================================
