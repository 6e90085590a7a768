--------------------------- MODULE ReplicationProofs ---------------------------
(* Theorems about ReplicationSession, for any instances, values and history.  *)
EXTENDS ReplicationSession, SequenceTheorems, TLAPS

-----------------------------------------------------------------------------
(* Sequences. *)

LEMMA RemoveAtElements ==
    ASSUME NEW S, NEW s \in Seq(S), NEW i \in 1..Len(s)
    PROVE  /\ RemoveAt(s, i) \in Seq(S)
           /\ Len(RemoveAt(s, i)) = Len(s) - 1
           /\ \A j \in 1..(Len(s) - 1) : RemoveAt(s, i)[j] = s[IF j < i THEN j ELSE j + 1]
<1> DEFINE a == SubSeq(s, 1, i - 1)
           b == SubSeq(s, i + 1, Len(s))
<1>1. Len(s) \in Nat /\ i \in Nat /\ i - 1 \in 0..Len(s)
  OBVIOUS
<1>2. a \in Seq(S) /\ Len(a) = i - 1 /\ \A j \in 1..(i - 1) : a[j] = s[j]
  BY <1>1
<1>3. b \in Seq(S) /\ Len(b) = Len(s) - i /\ \A j \in 1..(Len(s) - i) : b[j] = s[i + j]
  <2>1. \A j \in (i + 1)..Len(s) : s[j] \in S
    BY <1>1
  <2> QED
    BY <1>1, <2>1, SubSeqProperties
<1> HIDE DEF a, b
<1>4. a \o b \in Seq(S) /\ Len(a \o b) = Len(s) - 1
  <2>1. a \o b \in Seq(S) /\ Len(a \o b) = Len(a) + Len(b)
    BY <1>2, <1>3, ConcatProperties
  <2> QED
    BY <1>1, <1>2, <1>3, <2>1
<1>5. \A j \in 1..(Len(s) - 1) : (a \o b)[j] = s[IF j < i THEN j ELSE j + 1]
  <2> SUFFICES ASSUME NEW j \in 1..(Len(s) - 1)
               PROVE  (a \o b)[j] = s[IF j < i THEN j ELSE j + 1]
    OBVIOUS
  <2>1. CASE j < i
    BY <1>1, <1>2, <1>3, <2>1
  <2>2. CASE ~(j < i)
    <3>1. (a \o b)[j] = b[j - (i - 1)] /\ j - (i - 1) \in 1..(Len(s) - i)
      BY <1>1, <1>2, <1>3, <2>2
    <3> QED
      BY <1>1, <1>3, <2>2, <3>1
  <2> QED
    BY <2>1, <2>2
<1> QED
  BY <1>4, <1>5 DEF RemoveAt, a, b

LEMMA AppendElements ==
    ASSUME NEW S, NEW s \in Seq(S), NEW x \in S
    PROVE  /\ Append(s, x) \in Seq(S) /\ Len(Append(s, x)) = Len(s) + 1
           /\ \A k \in 1..Len(s) : Append(s, x)[k] = s[k]
           /\ Append(s, x)[Len(s) + 1] = x
OBVIOUS

USE SessionAssumption DEF authority, network, scene, Conn

\* What a bounded history keeps when it takes one more: the last of it.
LEMMA NewestAppend ==
    ASSUME NEW S, NEW s \in Seq(S), NEW x \in S, Len(s) <= StateHistory
    PROVE  LET r == Newest(Append(s, x)) IN r \in Seq(S) /\ Len(r) \in 1..StateHistory
<1> DEFINE a == Append(s, x)
           r == Newest(a)
<1>0. Len(s) \in Nat /\ StateHistory \in Nat \ {0}
  OBVIOUS
<1>1. a \in Seq(S) /\ Len(a) = Len(s) + 1
  BY AppendElements
<1> HIDE DEF a
<1>2. CASE Len(a) <= StateHistory
  <2>1. r = a
    BY <1>2 DEF Newest
  <2> QED
    BY <1>0, <1>1, <1>2, <2>1 DEF a
<1>3. CASE ~(Len(a) <= StateHistory)
  <2>1. Len(s) = StateHistory
    BY <1>0, <1>1, <1>3
  <2>2. r = SubSeq(a, 2, Len(s) + 1)
    BY <1>0, <1>1, <1>3, <2>1 DEF Newest
  <2>3. \A k \in 2..(Len(s) + 1) : a[k] \in S
    BY <1>0, <1>1
  <2>4. r \in Seq(S) /\ Len(r) = Len(s)
    BY <1>0, <2>1, <2>2, <2>3, SubSeqProperties
  <2> HIDE DEF r
  <2>5. Len(r) \in 1..StateHistory
    BY <1>0, <2>1, <2>4
  <2> QED
    BY <2>4, <2>5 DEF r, a
<1> QED
  BY <1>2, <1>3

\* What is kept is what there was, from the end.
Shifted(r, s, x, d) ==
    /\ Len(r) = Len(s) + 1 - d
    /\ d = 1 => Len(s) = StateHistory
    /\ \A k \in 1..Len(r) : /\ k + d \in 1..(Len(s) + 1)
                            /\ r[k] = IF k + d = Len(s) + 1 THEN x ELSE s[k + d]

LEMMA NewestShift ==
    ASSUME NEW S, NEW s \in Seq(S), NEW x \in S, Len(s) <= StateHistory
    PROVE  \E d \in {0, 1} : Shifted(Newest(Append(s, x)), s, x, d)
<1> DEFINE a == Append(s, x)
           r == Newest(a)
<1>0. Len(s) \in Nat /\ StateHistory \in Nat \ {0}
  OBVIOUS
<1>1. a \in Seq(S) /\ Len(a) = Len(s) + 1
      /\ \A k \in 1..(Len(s) + 1) : a[k] = IF k = Len(s) + 1 THEN x ELSE s[k]
  BY AppendElements
<1> HIDE DEF a
<1>2. CASE Len(a) <= StateHistory
  <2>1. r = a
    BY <1>2 DEF Newest
  <2>2. Shifted(r, s, x, 0)
    BY <1>0, <1>1, <2>1 DEF Shifted
  <2> QED
    BY <2>2 DEF a
<1>3. CASE ~(Len(a) <= StateHistory)
  <2>1. Len(s) = StateHistory
    BY <1>0, <1>1, <1>3
  <2>2. r = SubSeq(a, 2, Len(s) + 1)
    BY <1>0, <1>1, <1>3, <2>1 DEF Newest
  <2>3. \A k \in 2..(Len(s) + 1) : a[k] \in S
    BY <1>0, <1>1
  <2>4. r \in Seq(S) /\ Len(r) = Len(s) /\ \A k \in 1..Len(s) : r[k] = a[k + 1]
    BY <1>0, <2>1, <2>2, <2>3, SubSeqProperties
  <2> HIDE DEF r
  <2>5. Shifted(r, s, x, 1)
    BY <1>0, <1>1, <2>1, <2>4 DEF Shifted
  <2> QED
    BY <2>5 DEF r, a
<1> QED
  BY <1>2, <1>3

LEMMA NewestLast ==
    ASSUME NEW S, NEW s \in Seq(S), NEW x \in S, Len(s) <= StateHistory
    PROVE  LET r == Newest(Append(s, x)) IN
           r \in Seq(S) /\ r # <<>> /\ Last(r) = x /\ r[Len(r)] = x /\ Len(r) \in 1..Len(r)
<1> DEFINE a == Append(s, x)
           r == Newest(a)
<1>0. Len(s) \in Nat /\ StateHistory \in Nat \ {0}
  OBVIOUS
<1>1. a \in Seq(S) /\ Len(a) = Len(s) + 1 /\ a[Len(s) + 1] = x
  BY AppendElements
<1> HIDE DEF a
<1>2. CASE Len(a) <= StateHistory
  <2>1. r = a
    BY <1>2 DEF Newest
  <2> QED
    BY <1>0, <1>1, <2>1 DEF Last, a
<1>3. CASE ~(Len(a) <= StateHistory)
  <2>1. Len(s) = StateHistory
    BY <1>0, <1>1, <1>3
  <2>2. r = SubSeq(a, 2, Len(s) + 1)
    BY <1>0, <1>1, <1>3, <2>1 DEF Newest
  <2>3. \A k \in 2..(Len(s) + 1) : a[k] \in S
    BY <1>0, <1>1
  <2>4. r \in Seq(S) /\ Len(r) = Len(s) /\ \A k \in 1..Len(s) : r[k] = a[k + 1]
    BY <1>0, <2>1, <2>2, <2>3, SubSeqProperties
  <2> HIDE DEF r
  <2>5. r[Len(r)] = x /\ Len(r) \in 1..Len(r)
    BY <1>0, <1>1, <2>1, <2>4
  <2>6. r # <<>> /\ Last(r) = x
    BY <2>4, <2>5 DEF Last
  <2> QED
    BY <2>4, <2>5, <2>6 DEF r, a
<1> QED
  BY <1>2, <1>3

-----------------------------------------------------------------------------
(* What a row of reliable messages leaves. *)

\* What the first n of the messages leave of S.
Upto(s, n, S) ==
    {e \in Ent : \/ e \in S /\ \A j \in 1..n : ~Takes(s[j], e)
                 \/ \E i \in 1..n : Brings(s[i], e) /\ \A j \in 1..n : j > i => ~Takes(s[j], e)}
Effect(msg, S) == {e \in Ent : Brings(msg, e) \/ (e \in S /\ ~Takes(msg, e))}
Silent(msg)    == \A e \in Ent : ~Brings(msg, e) /\ ~Takes(msg, e)

LEMMA AfterIsUpto ==
    ASSUME NEW M, NEW s \in Seq(M), NEW S PROVE After(s, S) = Upto(s, Len(s), S)
BY DEF After, Upto

LEMMA UptoSame ==
    ASSUME NEW s, NEW t, NEW n \in Nat, NEW S, \A j \in 1..n : s[j] = t[j]
    PROVE  Upto(s, n, S) = Upto(t, n, S)
BY DEF Upto

LEMMA UptoNext ==
    ASSUME NEW s, NEW n \in Nat, NEW S
    PROVE  Upto(s, n + 1, S) = Effect(s[n + 1], Upto(s, n, S))
<1> SUFFICES ASSUME NEW e \in Ent
             PROVE  e \in Upto(s, n + 1, S) <=>
                        Brings(s[n + 1], e) \/ (e \in Upto(s, n, S) /\ ~Takes(s[n + 1], e))
  BY DEF Upto, Effect
<1>1. \A j : j \in 1..(n + 1) <=> j \in 1..n \/ j = n + 1
  OBVIOUS
<1>2. Brings(s[n + 1], e) => ~Takes(s[n + 1], e)
  BY DEF Brings, Takes
<1> QED
  BY <1>1, <1>2 DEF Upto

LEMMA UptoNone == ASSUME NEW s, NEW S PROVE Upto(s, 0, S) = S \cap Ent
BY DEF Upto

\* The first of them that says anything arrives.
LEMMA UptoRemove ==
    ASSUME NEW M, NEW s \in Seq(M), NEW n \in 1..Len(s), NEW i \in 1..n, NEW S,
           \A j \in 1..(i - 1) : Silent(s[j])
    PROVE  Upto(RemoveAt(s, i), n - 1, Effect(s[i], S)) = Upto(s, n, S)
<1> DEFINE r == RemoveAt(s, i)
<1>0. n \in Nat /\ i \in Nat /\ Len(s) \in Nat /\ n <= Len(s) /\ i <= n
  OBVIOUS
<1>1. \A j \in 1..(Len(s) - 1) : r[j] = s[IF j < i THEN j ELSE j + 1]
  <2>1. i \in 1..Len(s)
    BY <1>0
  <2> QED
    BY <2>1, RemoveAtElements
<1> HIDE DEF r
<1> SUFFICES ASSUME NEW e \in Ent
             PROVE  e \in Upto(r, n - 1, Effect(s[i], S)) <=> e \in Upto(s, n, S)
  BY DEF Upto, r
<1>2. \A j \in i..(n - 1) : r[j] = s[j + 1]
  BY <1>0, <1>1
<1>3. \A j \in 1..(i - 1) : ~Brings(r[j], e) /\ ~Takes(r[j], e) /\ ~Brings(s[j], e) /\ ~Takes(s[j], e)
  BY <1>0, <1>1 DEF Silent
<1>4. Brings(s[i], e) => ~Takes(s[i], e)
  BY DEF Brings, Takes
<1>5. CASE \E k \in (i + 1)..n : Brings(s[k], e) /\ \A j \in 1..n : j > k => ~Takes(s[j], e)
  <2>1. PICK k \in (i + 1)..n : Brings(s[k], e) /\ \A j \in 1..n : j > k => ~Takes(s[j], e)
    BY <1>5
  <2>2. k - 1 \in 1..(n - 1) /\ r[k - 1] = s[k]
    BY <1>0, <1>2, <2>1
  <2>3. \A j \in 1..(n - 1) : j > k - 1 => ~Takes(r[j], e)
    BY <1>0, <1>2, <2>1
  <2> QED
    BY <1>0, <2>1, <2>2, <2>3 DEF Upto
<1>6. CASE ~\E k \in (i + 1)..n : Brings(s[k], e) /\ \A j \in 1..n : j > k => ~Takes(s[j], e)
  <2>1. e \in Upto(s, n, S) <=> /\ \A j \in (i + 1)..n : ~Takes(s[j], e)
                                /\ Brings(s[i], e) \/ (e \in S /\ ~Takes(s[i], e))
    BY <1>0, <1>3, <1>4, <1>6 DEF Upto
  <2>2. ~\E k \in i..(n - 1) : Brings(r[k], e) /\ \A j \in 1..(n - 1) : j > k => ~Takes(r[j], e)
    <3> SUFFICES ASSUME NEW k \in i..(n - 1), Brings(r[k], e),
                        \A j \in 1..(n - 1) : j > k => ~Takes(r[j], e)
                 PROVE  FALSE
      OBVIOUS
    <3>1. k + 1 \in (i + 1)..n /\ Brings(s[k + 1], e)
      BY <1>0, <1>2
    <3>2. \A j \in 1..n : j > k + 1 => ~Takes(s[j], e)
      <4> SUFFICES ASSUME NEW j \in 1..n, j > k + 1 PROVE ~Takes(s[j], e)
        OBVIOUS
      <4>1. j - 1 \in i..(n - 1) /\ j - 1 > k /\ (j - 1) + 1 = j /\ j - 1 \in 1..(n - 1)
        BY <1>0
      <4> QED
        BY <1>2, <4>1
    <3> QED
      BY <1>6, <3>1, <3>2
  <2>3. (\A j \in 1..(n - 1) : ~Takes(r[j], e)) <=> \A j \in (i + 1)..n : ~Takes(s[j], e)
    <3>1. \A j \in (i + 1)..n : j - 1 \in i..(n - 1) /\ (j - 1) + 1 = j /\ j - 1 \in 1..(n - 1)
      BY <1>0
    <3>2. \A j \in 1..(n - 1) : j \in 1..(i - 1) \/ (j \in i..(n - 1) /\ j + 1 \in (i + 1)..n)
      BY <1>0
    <3> QED
      BY <1>2, <1>3, <3>1, <3>2
  <2>4. \A k \in 1..(n - 1) : k \in 1..(i - 1) \/ k \in i..(n - 1)
    BY <1>0
  <2>5. e \in Upto(r, n - 1, Effect(s[i], S)) <=>
            e \in Effect(s[i], S) /\ \A j \in 1..(n - 1) : ~Takes(r[j], e)
    BY <1>3, <2>2, <2>4 DEF Upto
  <2> QED
    BY <2>1, <2>3, <2>5 DEF Effect
<1> QED
  BY <1>5, <1>6

\* One that says nothing goes, delivered or lost.
LEMMA UptoDrop ==
    ASSUME NEW M, NEW s \in Seq(M), NEW n \in 1..Len(s), NEW i \in 1..n, NEW S, Silent(s[i])
    PROVE  Upto(RemoveAt(s, i), n - 1, S) = Upto(s, n, S)
<1> DEFINE r == RemoveAt(s, i)
           f(j) == IF j < i THEN j ELSE j + 1
           g(k) == IF k < i THEN k ELSE k - 1
<1>0. n \in Nat /\ i \in Nat /\ Len(s) \in Nat /\ n <= Len(s) /\ i <= n
  OBVIOUS
<1>1. \A j \in 1..(n - 1) : f(j) \in 1..n /\ f(j) # i /\ r[j] = s[f(j)]
  <2>1. i \in 1..Len(s)
    BY <1>0
  <2>2. \A j \in 1..(Len(s) - 1) : r[j] = s[f(j)]
    BY <2>1, RemoveAtElements
  <2> QED
    BY <1>0, <2>2
<1>2. \A k \in 1..n : k # i => g(k) \in 1..(n - 1) /\ f(g(k)) = k
  BY <1>0
<1>3. \A k, j \in 1..(n - 1) : j > k <=> f(j) > f(k)
  BY <1>0
<1>4. \A k \in 1..n : k # i => r[g(k)] = s[k]
  BY <1>1, <1>2
<1> HIDE DEF r, f, g
<1> SUFFICES ASSUME NEW e \in Ent PROVE e \in Upto(r, n - 1, S) <=> e \in Upto(s, n, S)
  BY DEF Upto, r
<1>5. ~Brings(s[i], e) /\ ~Takes(s[i], e)
  BY DEF Silent
<1>6. (\A j \in 1..(n - 1) : ~Takes(r[j], e)) <=> (\A k \in 1..n : ~Takes(s[k], e))
  BY <1>1, <1>2, <1>4, <1>5
<1>7. ASSUME NEW k \in 1..n, Brings(s[k], e), \A j \in 1..n : j > k => ~Takes(s[j], e)
      PROVE  e \in Upto(r, n - 1, S)
  <2>1. k # i
    BY <1>5, <1>7
  <2>2. g(k) \in 1..(n - 1) /\ Brings(r[g(k)], e) /\ f(g(k)) = k
    BY <1>2, <1>4, <1>7, <2>1
  <2>3. ASSUME NEW j \in 1..(n - 1), j > g(k) PROVE ~Takes(r[j], e)
    <3>1. f(j) \in 1..n /\ r[j] = s[f(j)]
      BY <1>1
    <3>2. f(j) > f(g(k))
      BY <1>3, <2>2, <2>3
    <3> QED
      BY <1>7, <2>2, <3>1, <3>2
  <2> QED
    BY <2>2, <2>3 DEF Upto
<1>8. ASSUME NEW k \in 1..(n - 1), Brings(r[k], e), \A j \in 1..(n - 1) : j > k => ~Takes(r[j], e)
      PROVE  e \in Upto(s, n, S)
  <2>1. f(k) \in 1..n /\ Brings(s[f(k)], e)
    BY <1>1, <1>8
  <2>2. \A j \in 1..n : j > f(k) => ~Takes(s[j], e)
    <3> SUFFICES ASSUME NEW j \in 1..n, j > f(k), j # i PROVE ~Takes(s[j], e)
      BY <1>5
    <3>1. g(j) \in 1..(n - 1) /\ f(g(j)) = j /\ r[g(j)] = s[j]
      BY <1>2, <1>4
    <3> QED
      BY <1>3, <1>8, <3>1
  <2> QED
    BY <2>1, <2>2 DEF Upto
<1> QED
  BY <1>6, <1>7, <1>8 DEF Upto

\* A later one goes.
LEMMA UptoLater ==
    ASSUME NEW M, NEW s \in Seq(M), NEW i \in 1..Len(s), NEW n \in 0..(i - 1), NEW S
    PROVE  Upto(RemoveAt(s, i), n, S) = Upto(s, n, S)
<1>1. \A j \in 1..(Len(s) - 1) : RemoveAt(s, i)[j] = s[IF j < i THEN j ELSE j + 1]
  BY RemoveAtElements
<1>2. \A j \in 1..n : j \in 1..(Len(s) - 1) /\ j < i
  OBVIOUS
<1>3. \A j \in 1..n : RemoveAt(s, i)[j] = s[j]
  BY <1>1, <1>2
<1> QED
  BY <1>3, UptoSame

-----------------------------------------------------------------------------
(* The types. *)

Moments   == [tick : Nat, ents : States]
Interests == [tick : Nat, ids : SUBSET Ent]
PeerType  == [there : BOOLEAN, welcomed : BOOLEAN, user : Nat, acked : Nat,
              known : SUBSET Ent, interest : Seq(Interests)]
RepType   == [conn : 0..MaxConns, welcomed : BOOLEAN, lost : BOOLEAN, joined : BOOLEAN,
              token : Nat, locals : SUBSET Ent, departed : SUBSET Ent,
              states : Seq(Moments), applied : Nat, written : States]
Diffs     == UNION {[S -> [full : BOOLEAN, v : Value]] : S \in SUBSET Ent}
Welcomes  == [type : {"Welcome"}, user : Nat]
Entries   == [type : {"Spawn", "Despawn"}, ids : SUBSET Ent]
Snapshots == [type : {"Snapshot"}, tick : Nat, base : Nat, records : Diffs, checksum : States]
Messages  == Welcomes \cup Entries \cup Snapshots
Answers   == [type : {"Hello"}, token : Nat] \cup [type : {"Ack"}, tick : Nat]

IsSnapshot(i) == wire[i].type = "Snapshot"

WorldTyped   == world \in States /\ DOMAIN world \subseteq born /\ near \subseteq Ent
HistoryTyped == tick \in 0..MaxTick /\ history \in Seq(Moments) /\ Len(history) <= StateHistory
PeersTyped   == /\ peers \in [Conn -> PeerType]
                /\ \A c \in Conn : Len(peers[c].interest) <= StateHistory
                /\ users \subseteq Nat /\ nextUser \in Nat
RepTyped     == rep \in RepType /\ Len(rep.states) <= StateHistory /\ rep.applied <= tick
WireTyped    == /\ up \in BOOLEAN /\ wire \in Seq(Messages) /\ acks \in Seq(Answers)
                /\ \A i \in 1..Len(wire) : IsSnapshot(i) => wire[i].tick <= tick
                /\ calm \in Nat
                /\ up => rep.conn \in Conn
                /\ ~up => wire = <<>> /\ acks = <<>>
Typed == WorldTyped /\ HistoryTyped /\ PeersTyped /\ RepTyped /\ WireTyped

LEMMA StateIs ==
    ASSUME NEW f PROVE f \in States <=> DOMAIN f \subseteq Ent /\ f \in [DOMAIN f -> Value]
<1>1. ASSUME f \in States PROVE DOMAIN f \subseteq Ent /\ f \in [DOMAIN f -> Value]
  <2>1. PICK S \in SUBSET Ent : f \in [S -> Value]
    BY <1>1 DEF States
  <2> QED
    BY <2>1
<1>2. ASSUME DOMAIN f \subseteq Ent, f \in [DOMAIN f -> Value] PROVE f \in States
  BY <1>2 DEF States
<1> QED
  BY <1>1, <1>2

LEMMA OnlyIs ==
    ASSUME NEW f \in States, NEW S
    PROVE  /\ Only(f, S) \in States /\ DOMAIN Only(f, S) = DOMAIN f \cap S
           /\ \A e \in DOMAIN f \cap S : Only(f, S)[e] = f[e]
<1>1. DOMAIN f \subseteq Ent /\ f \in [DOMAIN f -> Value]
  BY StateIs
<1>2. DOMAIN Only(f, S) = DOMAIN f \cap S /\ \A e \in DOMAIN f \cap S : Only(f, S)[e] = f[e]
  BY DEF Only
<1>3. Only(f, S) \in [DOMAIN f \cap S -> Value]
  BY <1>1 DEF Only
<1>4. Only(f, S) \in States
  BY <1>1, <1>2, <1>3, StateIs
<1> QED
  BY <1>2, <1>4

\* Two states that hold the same are the same.
LEMMA SameState ==
    ASSUME NEW f \in States, NEW g \in States, DOMAIN f = DOMAIN g,
           \A e \in DOMAIN f : f[e] = g[e]
    PROVE  f = g
<1>1. f \in [DOMAIN f -> Value] /\ g \in [DOMAIN g -> Value]
  BY StateIs
<1> QED
  BY <1>1

LEMMA EmptyIs == Empty \in States /\ DOMAIN Empty = {}
<1>1. DOMAIN Empty = {} /\ Empty \in [{} -> Value]
  BY DEF Empty
<1> QED
  BY <1>1, StateIs

LEMMA MessageKinds ==
    ASSUME NEW m \in Messages
    PROVE  /\ m.type \in {"Welcome", "Spawn", "Despawn", "Snapshot"}
           /\ m.type = "Welcome" => m.user \in Nat
           /\ m.type \in {"Spawn", "Despawn"} => m.ids \subseteq Ent
           /\ m.type = "Snapshot" => /\ m.tick \in Nat /\ m.base \in Nat /\ m.records \in Diffs
                                     /\ m.checksum \in States
BY DEF Messages, Welcomes, Entries, Snapshots

LEMMA AnswerKinds ==
    ASSUME NEW m \in Answers
    PROVE  /\ m.type \in {"Hello", "Ack"}
           /\ m.type = "Hello" => m.token \in Nat
           /\ m.type = "Ack" => m.tick \in Nat
BY DEF Answers

LEMMA TypedImplies == Typed => TypeOK
<1> SUFFICES ASSUME Typed PROVE TypeOK
  OBVIOUS
<1>1. \A c \in Conn : peers[c].known \subseteq Ent
  BY DEF Typed, PeersTyped, PeerType
<1>2. rep.locals \subseteq Ent /\ rep.written \in States
  BY DEF Typed, RepTyped, RepType
<1> QED
  BY <1>1, <1>2 DEF TypeOK, Typed, WorldTyped, HistoryTyped, PeersTyped, RepTyped

LEMMA NobodyIs ==
    /\ Nobody \in PeerType /\ ~Nobody.there /\ ~Nobody.welcomed /\ Nobody.acked = 0
    /\ Nobody.known = {} /\ Nobody.interest = <<>>
    /\ Arrived \in PeerType /\ Arrived.there /\ ~Arrived.welcomed /\ Arrived.acked = 0
    /\ Arrived.known = {} /\ Arrived.interest = <<>>
<1> DEFINE N == Nobody
<1>1. <<>> \in Seq(Interests)
  OBVIOUS
<1>2. /\ N \in PeerType /\ ~N.there /\ ~N.welcomed /\ N.acked = 0
      /\ N.known = {} /\ N.interest = <<>>
  BY <1>1 DEF Nobody, PeerType
<1>3. Arrived = [N EXCEPT !.there = TRUE]
  BY DEF Arrived
<1> HIDE DEF N
<1>4. /\ Arrived \in PeerType /\ Arrived.there /\ ~Arrived.welcomed /\ Arrived.acked = 0
      /\ Arrived.known = {} /\ Arrived.interest = <<>>
  BY <1>2, <1>3 DEF PeerType
<1> QED
  BY <1>2, <1>4 DEF N

LEMMA TypedInit == Init => Typed
<1> SUFFICES ASSUME Init PROVE Typed
  OBVIOUS
<1>1. WorldTyped
  BY EmptyIs DEF Init, WorldTyped
<1>2. HistoryTyped
  BY DEF Init, HistoryTyped
<1>3. PeersTyped
  BY NobodyIs DEF Init, PeersTyped, Nobody
<1>4. RepTyped
  <2>1. <<>> \in Seq(Moments)
    OBVIOUS
  <2>2. rep \in RepType
    BY <2>1, EmptyIs DEF Init, RepType
  <2> QED
    BY <2>2 DEF Init, RepTyped
<1>5. WireTyped
  <2>1. wire = <<>> /\ acks = <<>> /\ up = FALSE /\ calm = 0
    BY DEF Init
  <2>2. wire \in Seq(Messages) /\ acks \in Seq(Answers) /\ 1..Len(wire) = {}
    BY <2>1
  <2> QED
    BY <2>1, <2>2 DEF WireTyped
<1> QED
  BY <1>1, <1>2, <1>3, <1>4, <1>5 DEF Typed

-----------------------------------------------------------------------------
(* What each message does to the replica. *)

LEMMA WelcomeFacts ==
    ASSUME Typed, NEW u \in Nat, Welcome(u)
    PROVE  /\ rep' \in RepType /\ rep'.joined /\ rep'.welcomed /\ rep'.token = u
           /\ rep'.conn = rep.conn /\ rep'.lost = rep.lost
           /\ rep.joined => /\ rep'.locals = {} /\ rep'.departed = {} /\ rep'.states = <<>>
                            /\ rep'.applied = 0 /\ rep'.written = Empty
           /\ ~rep.joined => /\ rep'.locals = rep.locals /\ rep'.departed = rep.departed
                             /\ rep'.states = rep.states /\ rep'.applied = rep.applied
                             /\ rep'.written = rep.written
<1> DEFINE q == IF rep.joined THEN [rep EXCEPT !.locals = {}, !.departed = {}, !.states = <<>>,
                                               !.applied = 0, !.written = Empty]
                ELSE rep
<1>1. rep \in RepType
  BY DEF Typed, RepTyped
<1>2. <<>> \in Seq(Moments)
  OBVIOUS
<1>3. /\ q \in RepType /\ q.conn = rep.conn /\ q.lost = rep.lost /\ q.joined = rep.joined
      /\ rep.joined => /\ q.locals = {} /\ q.departed = {} /\ q.states = <<>>
                       /\ q.applied = 0 /\ q.written = Empty
      /\ ~rep.joined => q = rep
  BY <1>1, <1>2, EmptyIs DEF RepType
<1>4. rep' = [q EXCEPT !.joined = TRUE, !.welcomed = TRUE, !.token = u]
  BY DEF Welcome
<1> HIDE DEF q
<1>5. /\ rep' \in RepType /\ rep'.joined /\ rep'.welcomed /\ rep'.token = u
      /\ rep'.conn = q.conn /\ rep'.lost = q.lost /\ rep'.locals = q.locals
      /\ rep'.departed = q.departed /\ rep'.states = q.states /\ rep'.applied = q.applied
      /\ rep'.written = q.written
  BY <1>3, <1>4 DEF RepType
<1> QED
  BY <1>3, <1>5

LEMMA SpawnFacts ==
    ASSUME Typed, NEW ids \in SUBSET Ent, OnSpawn(ids)
    PROVE  /\ rep' \in RepType
           /\ rep'.locals = rep.locals \cup ids
           /\ rep'.departed = rep.departed \ (ids \ rep.locals)
           /\ rep'.conn = rep.conn /\ rep'.lost = rep.lost /\ rep'.joined = rep.joined
           /\ rep'.welcomed = rep.welcomed /\ rep'.states = rep.states
           /\ rep'.applied = rep.applied /\ rep'.written = rep.written
<1>1. rep \in RepType
  BY DEF Typed, RepTyped
<1> QED
  BY <1>1 DEF OnSpawn, RepType

LEMMA ScrubbedIs ==
    ASSUME Typed, NEW ids \in SUBSET Ent
    PROVE  /\ Scrubbed(ids) \in Seq(Moments) /\ Len(Scrubbed(ids)) = Len(rep.states)
           /\ \A i \in 1..Len(rep.states) :
                 /\ Scrubbed(ids)[i].tick = rep.states[i].tick
                 /\ Scrubbed(ids)[i].ents = Only(rep.states[i].ents, Ent \ ids)
<1>1. rep.states \in Seq(Moments) /\ DOMAIN rep.states = 1..Len(rep.states)
  BY DEF Typed, RepTyped, RepType
<1>2. ASSUME NEW m \in Moments
      PROVE  LET n == [m EXCEPT !.ents = Only(@, Ent \ ids)] IN
             n \in Moments /\ n.tick = m.tick /\ n.ents = Only(m.ents, Ent \ ids)
  <2>1. Only(m.ents, Ent \ ids) \in States
    BY OnlyIs DEF Moments
  <2> QED
    BY <2>1 DEF Moments
<1>3. \A i \in 1..Len(rep.states) :
         /\ Scrubbed(ids)[i] \in Moments
         /\ Scrubbed(ids)[i].tick = rep.states[i].tick
         /\ Scrubbed(ids)[i].ents = Only(rep.states[i].ents, Ent \ ids)
  <2> SUFFICES ASSUME NEW i \in 1..Len(rep.states)
               PROVE  /\ Scrubbed(ids)[i] \in Moments
                      /\ Scrubbed(ids)[i].tick = rep.states[i].tick
                      /\ Scrubbed(ids)[i].ents = Only(rep.states[i].ents, Ent \ ids)
    OBVIOUS
  <2> DEFINE m == rep.states[i]
  <2>1. m \in Moments /\ Scrubbed(ids)[i] = [m EXCEPT !.ents = Only(@, Ent \ ids)]
    BY <1>1 DEF Scrubbed
  <2> HIDE DEF m
  <2>2. Scrubbed(ids)[i] \in Moments /\ Scrubbed(ids)[i].tick = m.tick
        /\ Scrubbed(ids)[i].ents = Only(m.ents, Ent \ ids)
    BY <1>2, <2>1
  <2> QED
    BY <2>2 DEF m
<1>4. Len(rep.states) \in Nat /\ DOMAIN Scrubbed(ids) = 1..Len(rep.states)
      /\ Scrubbed(ids) = [i \in 1..Len(rep.states) |-> Scrubbed(ids)[i]]
  BY <1>1 DEF Scrubbed
<1>5. Scrubbed(ids) \in Seq(Moments) /\ Len(Scrubbed(ids)) = Len(rep.states)
  <2>1. Scrubbed(ids) \in [1..Len(rep.states) -> Moments]
    BY <1>3, <1>4
  <2> QED
    BY <1>4, <2>1
<1> QED
  BY <1>3, <1>5

LEMMA DespawnFacts ==
    ASSUME Typed, NEW ids \in SUBSET Ent, OnDespawn(ids)
    PROVE  /\ rep' \in RepType
           /\ rep'.locals = rep.locals \ ids
           /\ rep'.departed = rep.departed \cup ids
           /\ rep'.written = Only(rep.written, Ent \ ids)
           /\ rep'.states = Scrubbed(ids)
           /\ rep'.conn = rep.conn /\ rep'.lost = rep.lost /\ rep'.joined = rep.joined
           /\ rep'.welcomed = rep.welcomed /\ rep'.applied = rep.applied
<1>1. rep \in RepType
  BY DEF Typed, RepTyped
<1>2. Only(rep.written, Ent \ ids) \in States
  BY <1>1, OnlyIs DEF RepType
<1>3. Scrubbed(ids) \in Seq(Moments)
  BY ScrubbedIs
<1>4. rep' = [rep EXCEPT !.departed = rep.departed \cup ids, !.locals = rep.locals \ ids,
                         !.written = Only(rep.written, Ent \ ids), !.states = Scrubbed(ids)]
  BY DEF OnDespawn, Scrubbed
<1> QED
  BY <1>1, <1>2, <1>3, <1>4 DEF RepType

LEMMA ShownIs ==
    ASSUME Typed, NEW ents \in States
    PROVE  /\ Shown(ents) \in States
           /\ DOMAIN Shown(ents) = DOMAIN rep.written \cup (DOMAIN ents \cap rep.locals)
           /\ \A e \in DOMAIN Shown(ents) :
                 Shown(ents)[e] = IF e \in DOMAIN ents THEN ents[e] ELSE rep.written[e]
<1>1. rep.written \in States
  BY DEF Typed, RepTyped, RepType
<1>2. /\ DOMAIN ents \subseteq Ent /\ ents \in [DOMAIN ents -> Value]
      /\ DOMAIN rep.written \subseteq Ent /\ rep.written \in [DOMAIN rep.written -> Value]
  BY <1>1, StateIs
<1>3. /\ DOMAIN Shown(ents) = DOMAIN rep.written \cup (DOMAIN ents \cap rep.locals)
      /\ \A e \in DOMAIN Shown(ents) :
            Shown(ents)[e] = IF e \in DOMAIN ents THEN ents[e] ELSE rep.written[e]
  BY DEF Shown
<1>4. \A e \in DOMAIN Shown(ents) : Shown(ents)[e] \in Value
  BY <1>2, <1>3
<1>5. Shown(ents) = [e \in DOMAIN Shown(ents) |-> Shown(ents)[e]]
  BY DEF Shown
<1>6. Shown(ents) \in [DOMAIN Shown(ents) -> Value]
  BY <1>4, <1>5
<1>7. DOMAIN Shown(ents) \subseteq Ent
  BY <1>2, <1>3
<1>8. Shown(ents) \in States
  BY <1>6, <1>7, StateIs
<1> QED
  BY <1>3, <1>8

\* The snapshot is applied.
Applied(s) ==
    /\ ~Unusable(s) /\ Described(s)
    /\ rep' = [rep EXCEPT !.states = Newest(Append(@, [tick |-> s.tick, ents |-> s.checksum])),
                          !.applied = s.tick, !.written = Shown(s.checksum)]
    /\ acks' = Append(acks, [type |-> "Ack", tick |-> s.tick])
Refused(s) == (Unusable(s) \/ ~Described(s)) /\ UNCHANGED <<rep, acks>>

LEMMA AppliedOrRefused ==
    ASSUME NEW s, OnSnapshot(s) PROVE Applied(s) \/ Refused(s)
BY DEF OnSnapshot, Applied, Refused

LEMMA AppliedFacts ==
    ASSUME Typed, NEW s \in Snapshots, Applied(s)
    PROVE  LET m == [tick |-> s.tick, ents |-> s.checksum] IN
           /\ rep' \in RepType /\ m \in Moments
           /\ rep'.states = Newest(Append(rep.states, m))
           /\ rep'.applied = s.tick /\ s.tick > rep.applied
           /\ rep'.written = Shown(s.checksum)
           /\ rep'.locals = rep.locals /\ rep'.departed = rep.departed
           /\ rep'.conn = rep.conn /\ rep'.lost = rep.lost /\ rep'.joined = rep.joined
           /\ rep'.welcomed = rep.welcomed
           /\ acks' = Append(acks, [type |-> "Ack", tick |-> s.tick])
<1> DEFINE m == [tick |-> s.tick, ents |-> s.checksum]
<1>1. rep \in RepType /\ rep.states \in Seq(Moments) /\ Len(rep.states) <= StateHistory
  BY DEF Typed, RepTyped, RepType
<1>2. m \in Moments /\ s.tick \in Nat /\ s.checksum \in States
  BY DEF Moments, Snapshots
<1>3. s.tick > rep.applied
  BY <1>1, <1>2 DEF Applied, Unusable, RepType
<1>4. Newest(Append(rep.states, m)) \in Seq(Moments)
  BY <1>1, <1>2, NewestAppend
<1>5. Shown(s.checksum) \in States
  BY <1>2, ShownIs
<1>6. rep' = [rep EXCEPT !.states = Newest(Append(rep.states, m)),
                         !.applied = s.tick, !.written = Shown(s.checksum)]
  BY DEF Applied
<1> HIDE DEF m
<1>7. /\ rep' \in RepType /\ rep'.states = Newest(Append(rep.states, m))
      /\ rep'.applied = s.tick /\ rep'.written = Shown(s.checksum)
      /\ rep'.locals = rep.locals /\ rep'.departed = rep.departed
      /\ rep'.conn = rep.conn /\ rep'.lost = rep.lost /\ rep'.joined = rep.joined
      /\ rep'.welcomed = rep.welcomed
  BY <1>1, <1>2, <1>4, <1>5, <1>6 DEF RepType
<1> QED
  BY <1>2, <1>3, <1>7 DEF Applied, m

-----------------------------------------------------------------------------
(* What a send puts on the wire. *)

LEMMA AtIs ==
    ASSUME NEW M, NEW s \in Seq(M), NEW t, Holds(s, t)
    PROVE  \E i \in 1..Len(s) : At(s, t) = s[i] /\ s[i].tick = t
<1> DEFINE i == CHOOSE i \in DOMAIN s : s[i].tick = t
<1>1. i \in DOMAIN s /\ s[i].tick = t
  BY DEF Holds
<1>2. At(s, t) = s[i] /\ DOMAIN s = 1..Len(s)
  BY DEF At
<1> QED
  BY <1>1, <1>2

LEMMA BaselineIs ==
    ASSUME NEW p \in PeerType, NEW hist \in Seq(Moments), NEW interest \in Seq(Interests)
    PROVE  LET b == Baseline(p, hist, interest)
               held == p.acked # 0 /\ Holds(hist, p.acked) /\ Holds(interest, p.acked) IN
           /\ b.tick \in Nat /\ b.ents \in States
           /\ held => /\ b.tick = p.acked
                      /\ b.ents = Only(At(hist, p.acked).ents, At(interest, p.acked).ids)
           /\ ~held => b.tick = 0 /\ b.ents = Empty
<1>1. p.acked \in Nat
  BY DEF PeerType
<1>2. CASE p.acked # 0 /\ Holds(hist, p.acked) /\ Holds(interest, p.acked)
  <2>1. At(hist, p.acked) \in Moments
    BY <1>2, AtIs
  <2>2. Only(At(hist, p.acked).ents, At(interest, p.acked).ids) \in States
    BY <2>1, OnlyIs DEF Moments
  <2> QED
    BY <1>1, <1>2, <2>2 DEF Baseline
<1>3. CASE ~(p.acked # 0 /\ Holds(hist, p.acked) /\ Holds(interest, p.acked))
  BY <1>3, EmptyIs DEF Baseline
<1> QED
  BY <1>2, <1>3

LEMMA RecordsIs ==
    ASSUME NEW base \in States, NEW now \in States, NEW entering
    PROVE  /\ Records(base, now, entering) \in Diffs
           /\ \A e \in Ent : e \in DOMAIN Records(base, now, entering) <=>
                 /\ e \in DOMAIN now
                 /\ e \in entering \/ e \notin DOMAIN base \/ base[e] # now[e]
           /\ \A e \in DOMAIN Records(base, now, entering) :
                 /\ Records(base, now, entering)[e].full <=> e \in entering \/ e \notin DOMAIN base
                 /\ Records(base, now, entering)[e].v = now[e]
<1> DEFINE whole == {e \in DOMAIN now : e \in entering \/ e \notin DOMAIN base}
           D == {x \in DOMAIN now : x \in whole \/ base[x] # now[x]}
           r == Records(base, now, entering)
<1>1. DOMAIN now \subseteq Ent /\ \A e \in DOMAIN now : now[e] \in Value
  BY StateIs
<1>2. r = [e \in D |-> [full |-> e \in whole, v |-> now[e]]]
  BY DEF Records
<1>3. \A e \in D : [full |-> e \in whole, v |-> now[e]] \in [full : BOOLEAN, v : Value]
  BY <1>1
<1>4. r \in [D -> [full : BOOLEAN, v : Value]] /\ D \in SUBSET Ent /\ DOMAIN r = D
  BY <1>1, <1>2, <1>3
<1>5. r \in Diffs
  BY <1>4 DEF Diffs
<1>6. \A e \in DOMAIN r : (r[e].full <=> e \in whole) /\ r[e].v = now[e]
  <2> SUFFICES ASSUME NEW e \in DOMAIN r PROVE (r[e].full <=> e \in whole) /\ r[e].v = now[e]
    OBVIOUS
  <2>1. r[e] = [full |-> e \in whole, v |-> now[e]]
    BY <1>2, <1>4
  <2> HIDE DEF r, whole
  <2>2. r[e].full <=> e \in whole
    <3> DEFINE b == e \in whole
    <3>1. b \in BOOLEAN /\ r[e] = [full |-> b, v |-> now[e]]
      BY <2>1
    <3> HIDE DEF b
    <3>2. r[e].full = b
      BY <3>1
    <3> QED
      BY <3>1, <3>2 DEF b
  <2>3. r[e].v = now[e]
    BY <2>1
  <2> QED
    BY <2>2, <2>3
<1> QED
  BY <1>1, <1>4, <1>5, <1>6

\* The three parts of it.
Leaves(p, now)  == p.known \ DOMAIN now
Enters(p, now)  == DOMAIN now \ p.known
SnapshotFor(p, t, now, hist) ==
    LET base == Baseline(p, hist, Told(p, t, now).interest)
    IN  [type |-> "Snapshot", tick |-> t, base |-> base.tick,
         records |-> Records(base.ents, now, Enters(p, now)), checksum |-> now]
Despawns(p, now) == IF Leaves(p, now) = {} THEN <<>>
                    ELSE <<[type |-> "Despawn", ids |-> Leaves(p, now)]>>
Spawns(p, now)   == IF Enters(p, now) = {} THEN <<>>
                    ELSE <<[type |-> "Spawn", ids |-> Enters(p, now)]>>

LEMMA ToldIs ==
    ASSUME NEW p \in PeerType, Len(p.interest) <= StateHistory, NEW t \in Nat, NEW now \in States
    PROVE  /\ Told(p, t, now) \in PeerType
           /\ Told(p, t, now).known = DOMAIN now
           /\ Told(p, t, now).interest = Newest(Append(p.interest, [tick |-> t, ids |-> DOMAIN now]))
           /\ Told(p, t, now).interest \in Seq(Interests)
           /\ Len(Told(p, t, now).interest) <= StateHistory
           /\ Told(p, t, now).there = p.there /\ Told(p, t, now).welcomed = p.welcomed
           /\ Told(p, t, now).user = p.user /\ Told(p, t, now).acked = p.acked
<1> DEFINE x == [tick |-> t, ids |-> DOMAIN now]
           q == Told(p, t, now)
<1>1. DOMAIN now \subseteq Ent
  BY StateIs
<1>2. x \in Interests /\ p.interest \in Seq(Interests)
  BY <1>1 DEF Interests, PeerType
<1>3. q = [p EXCEPT !.known = DOMAIN now, !.interest = Newest(Append(p.interest, x))]
  BY DEF Told
<1> HIDE DEF x
<1>4. Newest(Append(p.interest, x)) \in Seq(Interests)
      /\ Len(Newest(Append(p.interest, x))) <= StateHistory
  <2> DEFINE r == Newest(Append(p.interest, x))
  <2>1. r \in Seq(Interests) /\ Len(r) \in 1..StateHistory
    BY <1>2, NewestAppend
  <2> HIDE DEF r
  <2>2. r \in Seq(Interests) /\ Len(r) <= StateHistory
    BY <2>1
  <2> QED
    BY <2>2 DEF r
<1> HIDE DEF q
<1>5. /\ q \in PeerType /\ q.known = DOMAIN now /\ q.interest = Newest(Append(p.interest, x))
      /\ q.there = p.there /\ q.welcomed = p.welcomed /\ q.user = p.user /\ q.acked = p.acked
  BY <1>1, <1>3, <1>4 DEF PeerType
<1> QED
  BY <1>4, <1>5 DEF q, x

LEMMA SnapshotForIs ==
    ASSUME NEW p \in PeerType, Len(p.interest) <= StateHistory, NEW t \in Nat,
           NEW now \in States, NEW hist \in Seq(Moments)
    PROVE  SnapshotFor(p, t, now, hist) \in Snapshots
<1> DEFINE b == Baseline(p, hist, Told(p, t, now).interest)
<1>1. Told(p, t, now).interest \in Seq(Interests)
  BY ToldIs
<1>2. b.tick \in Nat /\ b.ents \in States
  BY <1>1, BaselineIs
<1>3. Records(b.ents, now, Enters(p, now)) \in Diffs
  BY <1>2, RecordsIs
<1>4. SnapshotFor(p, t, now, hist) =
         [type |-> "Snapshot", tick |-> t, base |-> b.tick,
          records |-> Records(b.ents, now, Enters(p, now)), checksum |-> now]
  BY DEF SnapshotFor
<1> HIDE DEF b
<1> QED
  BY <1>2, <1>3, <1>4 DEF Snapshots

LEMMA SentToIs ==
    ASSUME NEW p \in PeerType, Len(p.interest) <= StateHistory, NEW t \in Nat,
           NEW now \in States, NEW hist \in Seq(Moments)
    PROVE  /\ Despawns(p, now) \in Seq(Messages) /\ Spawns(p, now) \in Seq(Messages)
           /\ SnapshotFor(p, t, now, hist) \in Messages
           /\ SentTo(p, t, now, hist) =
                 (Despawns(p, now) \o Spawns(p, now)) \o <<SnapshotFor(p, t, now, hist)>>
<1>1. DOMAIN now \subseteq Ent /\ p.known \subseteq Ent
  BY StateIs DEF PeerType
<1>2. ASSUME NEW ids \in SUBSET Ent, NEW ty \in {"Spawn", "Despawn"}
      PROVE  [type |-> ty, ids |-> ids] \in Messages
  BY DEF Messages, Entries
<1>3. Leaves(p, now) \subseteq Ent /\ Enters(p, now) \subseteq Ent
  BY <1>1 DEF Leaves, Enters
<1>4. Despawns(p, now) \in Seq(Messages)
  <2> DEFINE m == [type |-> "Despawn", ids |-> Leaves(p, now)]
  <2>1. m \in Messages /\ Despawns(p, now) \in {<<>>, <<m>>}
    BY <1>2, <1>3 DEF Despawns
  <2> HIDE DEF m
  <2>2. <<>> \in Seq(Messages) /\ <<m>> \in Seq(Messages)
    BY <2>1
  <2> QED
    BY <2>1, <2>2
<1>5. Spawns(p, now) \in Seq(Messages)
  <2> DEFINE m == [type |-> "Spawn", ids |-> Enters(p, now)]
  <2>1. m \in Messages /\ Spawns(p, now) \in {<<>>, <<m>>}
    BY <1>2, <1>3 DEF Spawns
  <2> HIDE DEF m
  <2>2. <<>> \in Seq(Messages) /\ <<m>> \in Seq(Messages)
    BY <2>1
  <2> QED
    BY <2>1, <2>2
<1>6. SnapshotFor(p, t, now, hist) \in Messages
  BY SnapshotForIs DEF Messages
<1>7. SentTo(p, t, now, hist) =
         (Despawns(p, now) \o Spawns(p, now)) \o <<SnapshotFor(p, t, now, hist)>>
  BY DEF SentTo, Despawns, Spawns, SnapshotFor, Leaves, Enters
<1> QED
  BY <1>4, <1>5, <1>6, <1>7

-----------------------------------------------------------------------------
(* Every step keeps the types. *)

LEMMA WorldSteps ==
    ASSUME Typed, NEW e \in Ent, (\E v \in Value : Write(e, v)) \/ Destroy(e) \/ Approach(e)
    PROVE  WorldTyped' /\ calm' = 0 /\ UNCHANGED <<authority, rep, network>>
<1>1. /\ world \in States /\ DOMAIN world \subseteq Ent /\ world \in [DOMAIN world -> Value]
      /\ DOMAIN world \subseteq born /\ near \subseteq Ent
  BY StateIs DEF Typed, WorldTyped
<1>2. CASE \E v \in Value : Write(e, v)
  <2>1. PICK v \in Value : Write(e, v)
    BY <1>2
  <2>2. world' = [x \in DOMAIN world \cup {e} |-> IF x = e THEN v ELSE world[x]]
        /\ born' = born \cup {e} /\ near' = near
    BY <2>1 DEF Write, Beside
  <2>3. DOMAIN world' = DOMAIN world \cup {e} /\ world' \in [DOMAIN world' -> Value]
    BY <1>1, <2>2
  <2>4. world' \in States
    BY <1>1, <2>3, StateIs
  <2> QED
    BY <1>1, <2>1, <2>2, <2>3, <2>4 DEF WorldTyped, Write, Changed, Beside
<1>3. CASE Destroy(e)
  <2>1. world' = Only(world, DOMAIN world \ {e}) /\ UNCHANGED <<born, near>>
    BY <1>3 DEF Destroy, Beside
  <2>2. world' \in States /\ DOMAIN world' \subseteq DOMAIN world
    BY <1>1, <2>1, OnlyIs
  <2> QED
    BY <1>1, <1>3, <2>1, <2>2 DEF WorldTyped, Destroy, Changed, Beside
<1>4. CASE Approach(e)
  BY <1>1, <1>4 DEF Approach, WorldTyped, Changed, Beside
<1> QED
  BY <1>2, <1>3, <1>4

LEMMA ReceiveFacts ==
    ASSUME Typed, NEW i \in DOMAIN wire, ReplicaReceive(i)
    PROVE  /\ up /\ Deliverable(i) /\ wire' = RemoveAt(wire, i)
           /\ UNCHANGED <<authority, scene, up, changes, calm>>
           /\ i \in 1..Len(wire) /\ wire[i] \in Messages /\ wire \in Seq(Messages)
           /\ \/ wire[i].type = "Welcome" /\ Welcome(wire[i].user) /\ UNCHANGED acks
              \/ wire[i].type = "Spawn" /\ OnSpawn(wire[i].ids) /\ UNCHANGED acks
              \/ wire[i].type = "Despawn" /\ OnDespawn(wire[i].ids) /\ UNCHANGED acks
              \/ IsSnapshot(i) /\ wire[i] \in Snapshots /\ (Applied(wire[i]) \/ Refused(wire[i]))
<1>1. wire \in Seq(Messages) /\ DOMAIN wire = 1..Len(wire)
  BY DEF Typed, WireTyped
<1>2. wire[i] \in Messages
  BY <1>1
<1>3. wire[i].type = "Snapshot" => wire[i] \in Snapshots
  BY <1>2 DEF Messages, Welcomes, Entries
<1> QED
  BY <1>1, <1>2, <1>3, AppliedOrRefused DEF ReplicaReceive, IsSnapshot

\* What is left on the wire was on the wire.
LEMMA Removed ==
    ASSUME Typed, NEW i \in DOMAIN wire, wire' = RemoveAt(wire, i)
    PROVE  /\ wire' \in Seq(Messages) /\ Len(wire') = Len(wire) - 1 /\ Len(wire) \in Nat \ {0}
           /\ i \in 1..Len(wire)
           /\ \A j \in 1..Len(wire') : /\ wire'[j] = wire[IF j < i THEN j ELSE j + 1]
                                       /\ (IF j < i THEN j ELSE j + 1) \in 1..Len(wire)
                                       /\ (IF j < i THEN j ELSE j + 1) # i
<1>1. wire \in Seq(Messages) /\ i \in 1..Len(wire)
  BY DEF Typed, WireTyped
<1>2. /\ wire' \in Seq(Messages) /\ Len(wire') = Len(wire) - 1
      /\ \A j \in 1..(Len(wire) - 1) : wire'[j] = wire[IF j < i THEN j ELSE j + 1]
  BY <1>1, RemoveAtElements
<1> QED
  BY <1>1, <1>2

LEMMA TypedReceive == ASSUME Typed, NEW i \in DOMAIN wire, ReplicaReceive(i) PROVE Typed'
<1>1. /\ up /\ wire' = RemoveAt(wire, i)
      /\ UNCHANGED <<authority, scene, up, changes, calm>>
      /\ i \in 1..Len(wire) /\ wire[i] \in Messages /\ wire \in Seq(Messages)
  BY ReceiveFacts
<1>2. WorldTyped' /\ HistoryTyped' /\ PeersTyped'
  BY <1>1 DEF Typed, WorldTyped, HistoryTyped, PeersTyped
<1>3. rep' \in RepType /\ Len(rep'.states) <= StateHistory /\ rep'.applied <= tick
      /\ rep'.conn = rep.conn /\ acks' \in Seq(Answers)
  <2>0. /\ rep \in RepType /\ Len(rep.states) <= StateHistory /\ rep.applied <= tick
        /\ acks \in Seq(Answers) /\ tick \in Nat /\ StateHistory \in Nat
    BY DEF Typed, RepTyped, WireTyped, HistoryTyped
  <2>1. CASE wire[i].type = "Welcome" /\ Welcome(wire[i].user) /\ UNCHANGED acks
    <3>1. wire[i].user \in Nat
      BY <1>1, <2>1, MessageKinds
    <3> QED
      BY <2>0, <2>1, <3>1, WelcomeFacts
  <2>2. CASE wire[i].type = "Spawn" /\ OnSpawn(wire[i].ids) /\ UNCHANGED acks
    <3>1. wire[i].ids \in SUBSET Ent
      BY <1>1, <2>2, MessageKinds
    <3> QED
      BY <2>0, <2>2, <3>1, SpawnFacts
  <2>3. CASE wire[i].type = "Despawn" /\ OnDespawn(wire[i].ids) /\ UNCHANGED acks
    <3> DEFINE ids == wire[i].ids
    <3>1. ids \in SUBSET Ent /\ OnDespawn(ids) /\ acks' = acks
      BY <1>1, <2>3, MessageKinds
    <3> HIDE DEF ids
    <3>2. /\ rep' \in RepType /\ rep'.states = Scrubbed(ids) /\ rep'.applied = rep.applied
          /\ rep'.conn = rep.conn
      BY <3>1, DespawnFacts
    <3>3. Len(Scrubbed(ids)) = Len(rep.states)
      BY <3>1, ScrubbedIs
    <3> QED
      BY <2>0, <3>1, <3>2, <3>3
  <2>4. CASE wire[i] \in Snapshots /\ Applied(wire[i]) /\ IsSnapshot(i)
    <3> DEFINE s == wire[i]
               m == [tick |-> s.tick, ents |-> s.checksum]
    <3>1. /\ rep' \in RepType /\ m \in Moments
          /\ rep'.states = Newest(Append(rep.states, m))
          /\ rep'.applied = s.tick /\ rep'.conn = rep.conn
          /\ acks' = Append(acks, [type |-> "Ack", tick |-> s.tick])
      BY <2>4, AppliedFacts
    <3>2. s.tick \in Nat /\ s.tick <= tick
      BY <1>1, <2>4 DEF Snapshots, Typed, WireTyped
    <3>3. [type |-> "Ack", tick |-> s.tick] \in Answers
      BY <3>2 DEF Answers
    <3>4. rep.states \in Seq(Moments)
      BY <2>0 DEF RepType
    <3> HIDE DEF m
    <3>5. Len(rep'.states) \in 1..StateHistory
      BY <2>0, <3>1, <3>4, NewestAppend
    <3>6. acks' \in Seq(Answers)
      BY <2>0, <3>1, <3>3, AppendElements
    <3> QED
      BY <2>0, <3>1, <3>2, <3>5, <3>6
  <2>5. CASE Refused(wire[i])
    BY <2>0, <2>5 DEF Refused
  <2> QED
    BY <2>1, <2>2, <2>3, <2>4, <2>5, ReceiveFacts
<1>4. RepTyped'
  BY <1>1, <1>3 DEF RepTyped
<1>5. WireTyped'
  <2>1. \A j \in 1..Len(wire') : IsSnapshot(j)' => wire'[j].tick <= tick
    <3> SUFFICES ASSUME NEW j \in 1..Len(wire'), wire'[j].type = "Snapshot"
                 PROVE  wire'[j].tick <= tick
      BY DEF IsSnapshot
    <3> DEFINE k == IF j < i THEN j ELSE j + 1
    <3>1. k \in 1..Len(wire) /\ wire'[j] = wire[k]
      BY <1>1, Removed
    <3> HIDE DEF k
    <3> QED
      BY <3>1 DEF IsSnapshot, Typed, WireTyped
  <2> QED
    BY <1>1, <1>3, <2>1, Removed DEF Typed, WireTyped
<1> QED
  BY <1>2, <1>4, <1>5 DEF Typed

\* Nothing it receives moves a replica to another connection.
LEMMA ReceiveConn ==
    ASSUME Typed, NEW i \in DOMAIN wire, ReplicaReceive(i)
    PROVE  rep'.conn = rep.conn /\ rep'.lost = rep.lost /\ (rep.welcomed => rep'.welcomed)
<1>1. wire[i] \in Messages
  BY ReceiveFacts
<1>2. CASE wire[i].type = "Welcome" /\ Welcome(wire[i].user)
  <2>1. wire[i].user \in Nat
    BY <1>1, <1>2, MessageKinds
  <2> QED
    BY <1>2, <2>1, WelcomeFacts
<1>3. CASE wire[i].type \in {"Spawn", "Despawn"} /\ (OnSpawn(wire[i].ids) \/ OnDespawn(wire[i].ids))
  <2> DEFINE ids == wire[i].ids
  <2>1. ids \in SUBSET Ent /\ (OnSpawn(ids) \/ OnDespawn(ids))
    BY <1>1, <1>3, MessageKinds
  <2> HIDE DEF ids
  <2> QED
    BY <2>1, SpawnFacts, DespawnFacts
<1>4. CASE wire[i] \in Snapshots /\ (Applied(wire[i]) \/ Refused(wire[i]))
  BY <1>4, AppliedFacts DEF Refused
<1> QED
  BY <1>2, <1>3, <1>4, ReceiveFacts

LEMMA TypedDial == ASSUME Typed, Dial PROVE Typed'
<1> DEFINE c == rep.conn + 1
<1>0. rep \in RepType /\ rep.conn \in Nat /\ rep.token \in Nat /\ c \in Conn /\ c \in 0..MaxConns
  BY DEF Typed, RepTyped, RepType, Dial
<1>1. WorldTyped' /\ HistoryTyped'
  BY DEF Dial, Quiet, Typed, WorldTyped, HistoryTyped
<1>2. PeersTyped'
  <2>1. peers' = [peers EXCEPT ![c] = Arrived] /\ UNCHANGED <<users, nextUser>>
    BY DEF Dial
  <2>2. peers \in [Conn -> PeerType] /\ Len(<<>>) = 0
    BY DEF Typed, PeersTyped
  <2>3. Arrived \in PeerType /\ Arrived.interest = <<>>
    BY NobodyIs
  <2>4. peers' \in [Conn -> PeerType]
    BY <1>0, <2>1, <2>2, <2>3
  <2>5. \A d \in Conn : peers'[d] = IF d = c THEN Arrived ELSE peers[d]
    BY <1>0, <2>1, <2>2
  <2> QED
    BY <2>1, <2>2, <2>3, <2>4, <2>5 DEF Typed, PeersTyped
<1>3. rep' = [rep EXCEPT !.conn = c, !.lost = FALSE, !.welcomed = FALSE]
  BY DEF Dial
<1> HIDE DEF c
<1>4. rep' \in RepType /\ rep'.conn = c /\ rep'.states = rep.states /\ rep'.applied = rep.applied
  BY <1>0, <1>3 DEF RepType
<1>5. RepTyped'
  BY <1>4 DEF RepTyped, Typed, Dial
<1>6. WireTyped'
  <2> DEFINE m == [type |-> "Hello", token |-> rep.token]
  <2>1. wire' = <<>> /\ acks' = <<m>> /\ up' = TRUE /\ calm' = 0
    BY DEF Dial
  <2>2. m \in Answers
    BY <1>0 DEF Answers
  <2> HIDE DEF m
  <2>3. wire' \in Seq(Messages) /\ acks' \in Seq(Answers) /\ 1..Len(wire') = {}
    BY <2>1, <2>2
  <2> QED
    BY <1>0, <1>4, <2>1, <2>3 DEF WireTyped
<1> QED
  BY <1>1, <1>2, <1>5, <1>6 DEF Typed

LEMMA TypedBreak == ASSUME Typed, Break PROVE Typed'
<1>0. rep \in RepType
  BY DEF Typed, RepTyped
<1>1. WorldTyped' /\ HistoryTyped' /\ PeersTyped'
  BY DEF Break, Quiet, Typed, WorldTyped, HistoryTyped, PeersTyped
<1>2. rep' = [rep EXCEPT !.lost = TRUE, !.welcomed = FALSE]
  BY DEF Break
<1>3. rep' \in RepType /\ rep'.states = rep.states /\ rep'.applied = rep.applied
  BY <1>0, <1>2 DEF RepType
<1>4. RepTyped'
  BY <1>3 DEF RepTyped, Typed, Break
<1>5. WireTyped'
  <2>1. wire' = <<>> /\ acks' = <<>> /\ up' = FALSE /\ calm' = 0
    BY DEF Break
  <2>2. wire' \in Seq(Messages) /\ acks' \in Seq(Answers) /\ 1..Len(wire') = {}
    BY <2>1
  <2> QED
    BY <2>1, <2>2 DEF WireTyped
<1> QED
  BY <1>1, <1>4, <1>5 DEF Typed

LEMMA HearsFacts ==
    ASSUME Typed, NEW c \in Conn, AuthorityHears(c)
    PROVE  /\ ~(up /\ c = rep.conn) /\ UNCHANGED <<tick, history, users, nextUser, rep, network, calm>>
           /\ UNCHANGED scene
           /\ peers' \in [Conn -> PeerType] /\ peers \in [Conn -> PeerType]
           /\ \A d \in Conn : peers'[d] = IF d = c THEN Nobody ELSE peers[d]
BY NobodyIs DEF AuthorityHears, Quiet, Typed, PeersTyped

LEMMA TypedHears == ASSUME Typed, NEW c \in Conn, AuthorityHears(c) PROVE Typed'
<1>1. /\ UNCHANGED <<tick, history, users, nextUser, rep, network, calm, scene>>
      /\ peers' \in [Conn -> PeerType]
      /\ \A d \in Conn : peers'[d] = IF d = c THEN Nobody ELSE peers[d]
  BY HearsFacts
<1>2. PeersTyped'
  <2>1. Nobody.interest = <<>> /\ Len(<<>>) = 0
    BY NobodyIs
  <2> QED
    BY <1>1, <2>1 DEF PeersTyped, Typed
<1>3. WorldTyped' /\ HistoryTyped' /\ RepTyped' /\ WireTyped'
  BY <1>1 DEF Typed, WorldTyped, HistoryTyped, RepTyped, WireTyped, IsSnapshot
<1> QED
  BY <1>2, <1>3 DEF Typed

LEMMA TypedLose == ASSUME Typed, NEW i \in DOMAIN wire, Lose(i) PROVE Typed'
<1>1. wire' = RemoveAt(wire, i) /\ calm' = 0 /\ UNCHANGED <<authority, rep, up, acks, scene>>
  BY DEF Lose, Quiet
<1>2. WorldTyped' /\ HistoryTyped' /\ PeersTyped' /\ RepTyped'
  BY <1>1 DEF Typed, WorldTyped, HistoryTyped, PeersTyped, RepTyped
<1>3. WireTyped'
  <2>1. \A j \in 1..Len(wire') : IsSnapshot(j)' => wire'[j].tick <= tick
    <3> SUFFICES ASSUME NEW j \in 1..Len(wire'), wire'[j].type = "Snapshot"
                 PROVE  wire'[j].tick <= tick
      BY DEF IsSnapshot
    <3> DEFINE k == IF j < i THEN j ELSE j + 1
    <3>1. k \in 1..Len(wire) /\ wire'[j] = wire[k]
      BY <1>1, Removed
    <3> HIDE DEF k
    <3> QED
      BY <3>1 DEF IsSnapshot, Typed, WireTyped
  <2>2. up
    <3>1. Len(wire) # 0
      BY <1>1, Removed
    <3> QED
      BY <3>1 DEF Typed, WireTyped
  <2> QED
    BY <1>1, <2>1, <2>2, Removed DEF Typed, WireTyped
<1> QED
  BY <1>2, <1>3 DEF Typed

LEMMA AuthorityReceiveFacts ==
    ASSUME Typed, AuthorityReceive
    PROVE  /\ UNCHANGED <<tick, history, rep, up, calm, scene>>
           /\ up /\ rep.conn \in Conn /\ peers[rep.conn].there
           /\ acks # <<>> /\ acks \in Seq(Answers) /\ acks' = Tail(acks) /\ acks' \in Seq(Answers)
           /\ Len(acks) \in Nat \ {0} /\ Len(acks') = Len(acks) - 1
           /\ \A j \in 1..Len(acks') : acks'[j] = acks[j + 1]
           /\ Head(acks) = acks[1] /\ acks[1] \in Answers
           /\ \/ acks[1].type = "Hello" /\ ~peers[rep.conn].welcomed /\ Hello(acks[1].token)
                 /\ acks[1].token \in Nat
              \/ acks[1].type = "Ack" /\ Acked(acks[1].tick) /\ acks[1].tick \in Nat
<1>1. /\ UNCHANGED <<tick, history, rep, up, calm, scene>>
      /\ peers[rep.conn].there /\ acks # <<>> /\ acks' = Tail(acks)
      /\ \/ Head(acks).type = "Hello" /\ ~peers[rep.conn].welcomed /\ Hello(Head(acks).token)
         \/ Head(acks).type = "Ack" /\ Acked(Head(acks).tick)
  BY DEF AuthorityReceive, Quiet
<1>2. acks \in Seq(Answers) /\ up /\ rep.conn \in Conn
  BY <1>1 DEF Typed, WireTyped
<1>3. /\ acks' \in Seq(Answers) /\ Len(acks) \in Nat \ {0} /\ Len(acks') = Len(acks) - 1
      /\ \A j \in 1..Len(acks') : acks'[j] = acks[j + 1]
      /\ Head(acks) = acks[1] /\ acks[1] \in Answers
  BY <1>1, <1>2
<1> QED
  BY <1>1, <1>2, <1>3, AnswerKinds

LEMMA HelloFacts ==
    ASSUME Typed, NEW token \in Nat, Hello(token), rep.conn \in Conn
    PROVE  LET c == rep.conn
               user == IF token \in users THEN token ELSE nextUser IN
           /\ user \in Nat /\ users' = users \cup {user}
           /\ nextUser' = (IF token \in users THEN nextUser ELSE nextUser + 1)
           /\ wire' = Append(wire, [type |-> "Welcome", user |-> user])
           /\ [type |-> "Welcome", user |-> user] \in Messages
           /\ peers \in [Conn -> PeerType] /\ peers' \in [Conn -> PeerType]
           /\ \A d \in Conn :
                 IF d \in Stale(c, user) THEN peers'[d] = Nobody
                 ELSE /\ d = c => /\ peers'[d].there = peers[d].there
                                  /\ peers'[d].welcomed /\ peers'[d].user = user
                                  /\ peers'[d].acked = peers[d].acked
                                  /\ peers'[d].known = peers[d].known
                                  /\ peers'[d].interest = peers[d].interest
                      /\ d # c => peers'[d] = peers[d]
           /\ c \notin Stale(c, user)
<1> DEFINE c == rep.conn
           user == IF token \in users THEN token ELSE nextUser
           new == [peers[c] EXCEPT !.welcomed = TRUE, !.user = user]
<1>1. user \in Nat /\ peers \in [Conn -> PeerType] /\ peers[c] \in PeerType
  BY DEF Typed, PeersTyped
<1>2. /\ peers' = [d \in Conn |-> IF d \in Stale(c, user) THEN Nobody
                                  ELSE IF d = c THEN [peers[d] EXCEPT !.welcomed = TRUE, !.user = user]
                                  ELSE peers[d]]
      /\ users' = users \cup {user}
      /\ nextUser' = (IF token \in users THEN nextUser ELSE nextUser + 1)
      /\ wire' = Append(wire, [type |-> "Welcome", user |-> user])
  BY DEF Hello
<1>3. [type |-> "Welcome", user |-> user] \in Messages
  BY <1>1 DEF Messages, Welcomes
<1>4. c \notin Stale(c, user)
  BY DEF Stale
<1> HIDE DEF user
<1>5. /\ new \in PeerType /\ new.there = peers[c].there /\ new.welcomed /\ new.user = user
      /\ new.acked = peers[c].acked /\ new.known = peers[c].known
      /\ new.interest = peers[c].interest
  BY <1>1 DEF PeerType
<1>6. \A d \in Conn : peers'[d] = IF d \in Stale(c, user) THEN Nobody
                                  ELSE IF d = c THEN new ELSE peers[d]
  BY <1>2
<1> HIDE DEF new
<1>7. \A d \in Conn : peers'[d] \in PeerType
  BY <1>1, <1>5, <1>6, NobodyIs
<1>8. peers' \in [Conn -> PeerType]
  BY <1>2, <1>7
<1>9. \A d \in Conn :
         IF d \in Stale(c, user) THEN peers'[d] = Nobody
         ELSE /\ d = c => /\ peers'[d].there = peers[d].there
                          /\ peers'[d].welcomed /\ peers'[d].user = user
                          /\ peers'[d].acked = peers[d].acked
                          /\ peers'[d].known = peers[d].known
                          /\ peers'[d].interest = peers[d].interest
              /\ d # c => peers'[d] = peers[d]
  BY <1>5, <1>6
<1> QED
  BY <1>1, <1>2, <1>3, <1>4, <1>8, <1>9 DEF user

LEMMA AckedFacts ==
    ASSUME Typed, NEW t \in Nat, Acked(t), rep.conn \in Conn
    PROVE  /\ UNCHANGED <<users, nextUser, wire>>
           /\ peers \in [Conn -> PeerType] /\ peers' \in [Conn -> PeerType]
           /\ \A d \in Conn : d # rep.conn => peers'[d] = peers[d]
           /\ LET c == rep.conn IN
              /\ peers'[c].there = peers[c].there /\ peers'[c].welcomed = peers[c].welcomed
              /\ peers'[c].user = peers[c].user /\ peers'[c].known = peers[c].known
              /\ peers'[c].interest = peers[c].interest
              /\ peers'[c].acked = (IF t > peers[c].acked THEN t ELSE peers[c].acked)
<1> DEFINE c == rep.conn
           new == [peers[c] EXCEPT !.acked = IF t > peers[c].acked THEN t ELSE peers[c].acked]
<1>1. peers \in [Conn -> PeerType] /\ peers[c] \in PeerType
  BY DEF Typed, PeersTyped
<1>2. peers' = [peers EXCEPT ![c] = new] /\ UNCHANGED <<users, nextUser, wire>>
  BY <1>1 DEF Acked
<1>3. /\ new \in PeerType /\ new.there = peers[c].there /\ new.welcomed = peers[c].welcomed
      /\ new.user = peers[c].user /\ new.known = peers[c].known
      /\ new.interest = peers[c].interest
      /\ new.acked = (IF t > peers[c].acked THEN t ELSE peers[c].acked)
  BY <1>1 DEF PeerType
<1> HIDE DEF new
<1>4. \A d \in Conn : peers'[d] = IF d = c THEN new ELSE peers[d]
  BY <1>1, <1>2
<1>5. peers' \in [Conn -> PeerType]
  BY <1>1, <1>2, <1>3
<1> QED
  BY <1>1, <1>2, <1>3, <1>4, <1>5

LEMMA TypedAuthorityReceive == ASSUME Typed, AuthorityReceive PROVE Typed'
<1>1. /\ UNCHANGED <<tick, history, rep, up, calm, scene>>
      /\ up /\ rep.conn \in Conn /\ acks' \in Seq(Answers)
      /\ \/ acks[1].type = "Hello" /\ ~peers[rep.conn].welcomed /\ Hello(acks[1].token)
            /\ acks[1].token \in Nat
         \/ acks[1].type = "Ack" /\ Acked(acks[1].tick) /\ acks[1].tick \in Nat
  BY AuthorityReceiveFacts
<1>2. WorldTyped' /\ HistoryTyped' /\ RepTyped'
  BY <1>1 DEF Typed, WorldTyped, HistoryTyped, RepTyped
<1>3. wire \in Seq(Messages) /\ users \subseteq Nat /\ nextUser \in Nat
      /\ \A d \in Conn : Len(peers[d].interest) <= StateHistory
  BY DEF Typed, WireTyped, PeersTyped
<1>4. PeersTyped' /\ wire' \in Seq(Messages)
      /\ \A i \in 1..Len(wire') : wire'[i].type = "Snapshot" => wire'[i].tick <= tick
  <2>1. CASE acks[1].type = "Hello" /\ Hello(acks[1].token) /\ acks[1].token \in Nat
    <3> DEFINE token == acks[1].token
               user == IF token \in users THEN token ELSE nextUser
               m == [type |-> "Welcome", user |-> user]
    <3>1. /\ user \in Nat /\ users' = users \cup {user} /\ wire' = Append(wire, m)
          /\ m \in Messages /\ peers' \in [Conn -> PeerType] /\ nextUser' \in Nat
      BY <1>1, <1>3, <2>1, HelloFacts
    <3>2. \A d \in Conn : peers'[d] = Nobody \/ peers'[d].interest = peers[d].interest
      BY <1>1, <2>1, HelloFacts
    <3>3. Len(Nobody.interest) = 0
      BY NobodyIs
    <3>4. PeersTyped'
      <4>1. \A d \in Conn : Len(peers'[d].interest) <= StateHistory
        BY <1>3, <3>2, <3>3
      <4>2. users' \subseteq Nat
        BY <1>3, <3>1
      <4> QED
        BY <3>1, <4>1, <4>2 DEF PeersTyped
    <3>5. m.type # "Snapshot"
      OBVIOUS
    <3> HIDE DEF m
    <3>6. /\ wire' \in Seq(Messages) /\ Len(wire') = Len(wire) + 1 /\ wire'[Len(wire) + 1] = m
          /\ \A i \in 1..Len(wire) : wire'[i] = wire[i]
      BY <1>3, <3>1, AppendElements
    <3>7. \A i \in 1..Len(wire') : i \in 1..Len(wire) \/ i = Len(wire) + 1
      BY <1>3, <3>6
    <3> QED
      BY <3>4, <3>5, <3>6, <3>7 DEF Typed, WireTyped, IsSnapshot
  <2>2. CASE Acked(acks[1].tick) /\ acks[1].tick \in Nat
    <3>1. /\ UNCHANGED <<users, nextUser, wire>> /\ peers' \in [Conn -> PeerType]
          /\ \A d \in Conn : peers'[d].interest = peers[d].interest
      BY <1>1, <2>2, AckedFacts
    <3> QED
      BY <1>3, <3>1 DEF PeersTyped, Typed, WireTyped, IsSnapshot
  <2> QED
    BY <1>1, <2>1, <2>2
<1>5. WireTyped'
  BY <1>1, <1>4 DEF Typed, WireTyped, IsSnapshot
<1> QED
  BY <1>2, <1>4, <1>5 DEF Typed

\* One row of messages after another.
LEMMA UptoConcat ==
    ASSUME NEW M, NEW s \in Seq(M), NEW r \in Seq(M), NEW k \in 0..Len(r), NEW S
    PROVE  Upto(s \o r, Len(s) + k, S) = Upto(r, k, Upto(s, Len(s), S))
<1> DEFINE n == Len(s)
           t == s \o r
<1>0. n \in Nat /\ k \in Nat
  OBVIOUS
<1>1. (\A j \in 1..n : t[j] = s[j]) /\ (\A j \in 1..k : t[n + j] = r[j])
  <2>1. /\ Len(t) = n + Len(r)
        /\ \A j \in 1..Len(t) : t[j] = IF j <= n THEN s[j] ELSE r[j - n]
    BY ConcatProperties
  <2> HIDE DEF t
  <2> QED
    BY <2>1
<1> HIDE DEF n, t
<1>2. ASSUME NEW e \in Ent PROVE e \in Upto(t, n + k, S) <=> e \in Upto(r, k, Upto(s, n, S))
  <2> DEFINE A(j) == Takes(s[j], e)
             B(j) == Takes(r[j], e)
  <2>1. (\A j \in 1..(n + k) : ~Takes(t[j], e)) <=>
            (\A j \in 1..n : ~A(j)) /\ (\A j \in 1..k : ~B(j))
    <3>1. ASSUME \A j \in 1..(n + k) : ~Takes(t[j], e)
          PROVE  (\A j \in 1..n : ~A(j)) /\ (\A j \in 1..k : ~B(j))
      <4>1. \A j \in 1..n : j \in 1..(n + k)
        BY <1>0
      <4>2. \A j \in 1..k : n + j \in 1..(n + k)
        BY <1>0
      <4> QED
        BY <1>1, <3>1, <4>1, <4>2
    <3>2. ASSUME \A j \in 1..n : ~A(j), \A j \in 1..k : ~B(j), NEW j \in 1..(n + k)
          PROVE  ~Takes(t[j], e)
      <4>1. CASE j \in 1..n
        BY <1>1, <3>2, <4>1
      <4>2. CASE j \notin 1..n
        <5>1. j - n \in 1..k /\ n + (j - n) = j
          BY <1>0, <4>2
        <5> QED
          BY <1>1, <3>2, <5>1
      <4> QED
        BY <4>1, <4>2
    <3> QED
      BY <3>1, <3>2
  <2>2. ASSUME NEW i \in 1..n
        PROVE  (\A j \in 1..(n + k) : j > i => ~Takes(t[j], e)) <=>
                   (\A j \in 1..n : j > i => ~A(j)) /\ (\A j \in 1..k : ~B(j))
    <3>1. ASSUME \A j \in 1..(n + k) : j > i => ~Takes(t[j], e)
          PROVE  (\A j \in 1..n : j > i => ~A(j)) /\ (\A j \in 1..k : ~B(j))
      <4>1. \A j \in 1..n : j \in 1..(n + k)
        BY <1>0
      <4>2. \A j \in 1..k : n + j \in 1..(n + k) /\ n + j > i
        BY <1>0
      <4> QED
        BY <1>1, <3>1, <4>1, <4>2
    <3>2. ASSUME \A j \in 1..n : j > i => ~A(j), \A j \in 1..k : ~B(j),
                 NEW j \in 1..(n + k), j > i
          PROVE  ~Takes(t[j], e)
      <4>1. CASE j \in 1..n
        BY <1>1, <3>2, <4>1
      <4>2. CASE j \notin 1..n
        <5>1. j - n \in 1..k /\ n + (j - n) = j
          BY <1>0, <4>2
        <5> QED
          BY <1>1, <3>2, <5>1
      <4> QED
        BY <4>1, <4>2
    <3> QED
      BY <3>1, <3>2
  <2>3. ASSUME NEW i \in 1..k
        PROVE  (\A j \in 1..(n + k) : j > n + i => ~Takes(t[j], e)) <=>
                   (\A j \in 1..k : j > i => ~B(j))
    <3>1. ASSUME \A j \in 1..(n + k) : j > n + i => ~Takes(t[j], e), NEW j \in 1..k, j > i
          PROVE  ~B(j)
      <4>1. n + j \in 1..(n + k) /\ n + j > n + i
        BY <1>0, <3>1
      <4> QED
        BY <1>1, <3>1, <4>1
    <3>2. ASSUME \A j \in 1..k : j > i => ~B(j), NEW j \in 1..(n + k), j > n + i
          PROVE  ~Takes(t[j], e)
      <4>1. j - n \in 1..k /\ n + (j - n) = j /\ j - n > i
        BY <1>0, <3>2
      <4> QED
        BY <1>1, <3>2, <4>1
    <3> QED
      BY <3>1, <3>2
  <2>4. (\E i \in 1..(n + k) : Brings(t[i], e) /\ \A j \in 1..(n + k) : j > i => ~Takes(t[j], e))
        <=> \/ \E i \in 1..n : /\ Brings(s[i], e) /\ \A j \in 1..n : j > i => ~A(j)
                               /\ \A j \in 1..k : ~B(j)
            \/ \E i \in 1..k : Brings(r[i], e) /\ \A j \in 1..k : j > i => ~B(j)
    <3>1. ASSUME NEW i \in 1..(n + k), Brings(t[i], e),
                 \A j \in 1..(n + k) : j > i => ~Takes(t[j], e)
          PROVE  \/ \E h \in 1..n : /\ Brings(s[h], e) /\ \A j \in 1..n : j > h => ~A(j)
                                    /\ \A j \in 1..k : ~B(j)
                 \/ \E h \in 1..k : Brings(r[h], e) /\ \A j \in 1..k : j > h => ~B(j)
      <4>1. CASE i \in 1..n
        BY <1>1, <2>2, <3>1, <4>1
      <4>2. CASE i \notin 1..n
        <5>1. i - n \in 1..k /\ n + (i - n) = i
          BY <1>0, <4>2
        <5>2. Brings(r[i - n], e)
          BY <1>1, <3>1, <5>1
        <5>3. \A j \in 1..(n + k) : j > n + (i - n) => ~Takes(t[j], e)
          BY <3>1, <5>1
        <5>4. \A j \in 1..k : j > i - n => ~B(j)
          BY <2>3, <5>1, <5>3
        <5> QED
          BY <5>1, <5>2, <5>4
      <4> QED
        BY <4>1, <4>2
    <3>2. ASSUME NEW i \in 1..n, Brings(s[i], e), \A j \in 1..n : j > i => ~A(j),
                 \A j \in 1..k : ~B(j)
          PROVE  \E h \in 1..(n + k) : /\ Brings(t[h], e)
                                       /\ \A j \in 1..(n + k) : j > h => ~Takes(t[j], e)
      <4>1. i \in 1..(n + k) /\ Brings(t[i], e)
        BY <1>0, <1>1, <3>2
      <4>2. \A j \in 1..(n + k) : j > i => ~Takes(t[j], e)
        BY <2>2, <3>2
      <4> QED
        BY <4>1, <4>2
    <3>3. ASSUME NEW i \in 1..k, Brings(r[i], e), \A j \in 1..k : j > i => ~B(j)
          PROVE  \E h \in 1..(n + k) : /\ Brings(t[h], e)
                                       /\ \A j \in 1..(n + k) : j > h => ~Takes(t[j], e)
      <4>1. n + i \in 1..(n + k) /\ Brings(t[n + i], e)
        BY <1>0, <1>1, <3>3
      <4>2. \A j \in 1..(n + k) : j > n + i => ~Takes(t[j], e)
        BY <2>3, <3>3
      <4> QED
        BY <4>1, <4>2
    <3> QED
      BY <3>1, <3>2, <3>3
  <2>5. e \in Upto(s, n, S) <=>
            \/ e \in S /\ \A j \in 1..n : ~A(j)
            \/ \E i \in 1..n : Brings(s[i], e) /\ \A j \in 1..n : j > i => ~A(j)
    BY DEF Upto
  <2>6. e \in Upto(r, k, Upto(s, n, S)) <=>
            \/ e \in Upto(s, n, S) /\ \A j \in 1..k : ~B(j)
            \/ \E i \in 1..k : Brings(r[i], e) /\ \A j \in 1..k : j > i => ~B(j)
    BY DEF Upto
  <2>7. e \in Upto(t, n + k, S) <=>
            \/ e \in S /\ \A j \in 1..(n + k) : ~Takes(t[j], e)
            \/ \E i \in 1..(n + k) : /\ Brings(t[i], e)
                                     /\ \A j \in 1..(n + k) : j > i => ~Takes(t[j], e)
    BY DEF Upto
  <2> HIDE DEF A, B
  <2> QED
    BY <2>1, <2>4, <2>5, <2>6, <2>7
<1>3. Upto(t, n + k, S) = Upto(r, k, Upto(s, n, S))
  BY <1>2 DEF Upto
<1> QED
  BY <1>3 DEF n, t

LEMMA SilentEffect ==
    ASSUME NEW msg, NEW S \in SUBSET Ent, Silent(msg) PROVE Effect(msg, S) = S
BY DEF Effect, Silent

LEMMA SnapshotIsSilent ==
    ASSUME NEW msg, msg.type = "Snapshot" PROVE Silent(msg)
BY DEF Silent, Brings, Takes

LEMMA UptoIsSet == ASSUME NEW s, NEW n, NEW S PROVE Upto(s, n, S) \in SUBSET Ent
BY DEF Upto

\* Rows of at most three.
LEMMA Rows ==
    ASSUME NEW M, NEW d \in M, NEW e \in M, NEW m \in M
    PROVE  /\ (<<>> \o <<>>) \o <<m>> = <<m>>
           /\ (<<d>> \o <<>>) \o <<m>> = <<d, m>>
           /\ (<<>> \o <<e>>) \o <<m>> = <<e, m>>
           /\ (<<d>> \o <<e>>) \o <<m>> = <<d, e, m>>
<1>1. <<>> \in Seq(M) /\ <<d>> \in Seq(M) /\ <<e>> \in Seq(M) /\ <<m>> \in Seq(M)
      /\ <<d, e>> \in Seq(M)
  OBVIOUS
<1>2. <<>> \o <<>> = <<>> /\ <<d>> \o <<>> = <<d>> /\ <<>> \o <<e>> = <<e>>
  BY <1>1, ConcatEmptySeq
<1>3. <<>> \o <<m>> = <<m>>
  BY <1>1, ConcatEmptySeq
<1>4. <<d>> \o <<e>> = <<d, e>> /\ <<d>> \o <<m>> = <<d, m>> /\ <<e>> \o <<m>> = <<e, m>>
  <2>1. ASSUME NEW a \in M, NEW b \in M PROVE <<a>> \o <<b>> = <<a, b>>
    <3> DEFINE s == <<a>> \o <<b>>
               u == <<a, b>>
    <3>0. <<a>> \in Seq(M) /\ <<b>> \in Seq(M) /\ Len(<<a>>) = 1 /\ Len(<<b>>) = 1
          /\ <<a>>[1] = a /\ <<b>>[1] = b
      OBVIOUS
    <3>1. u \in Seq(M) /\ Len(u) = 2 /\ u[1] = a /\ u[2] = b
      OBVIOUS
    <3>2. s \in Seq(M) /\ Len(s) = 2 /\ s[1] = a /\ s[2] = b
      BY <3>0, ConcatProperties
    <3> HIDE DEF s, u
    <3>3. \A i \in 1..2 : s[i] = u[i]
      BY <3>1, <3>2
    <3>4. s = u
      BY <3>1, <3>2, <3>3, SeqEqual
    <3> QED
      BY <3>4 DEF s, u
  <2> QED
    BY <2>1
<1>5. <<d, e>> \o <<m>> = <<d, e, m>>
  <2> DEFINE s == <<d, e>> \o <<m>>
             u == <<d, e, m>>
  <2>0. Len(<<d, e>>) = 2 /\ Len(<<m>>) = 1 /\ <<d, e>>[1] = d /\ <<d, e>>[2] = e /\ <<m>>[1] = m
    OBVIOUS
  <2>1. u \in Seq(M) /\ Len(u) = 3 /\ u[1] = d /\ u[2] = e /\ u[3] = m
    OBVIOUS
  <2>2. s \in Seq(M) /\ Len(s) = 3 /\ s[1] = d /\ s[2] = e /\ s[3] = m
    BY <1>1, <2>0, ConcatProperties
  <2> HIDE DEF s, u
  <2>3. \A i \in 1..3 : s[i] = u[i]
    BY <2>1, <2>2
  <2>4. s = u
    BY <2>1, <2>2, <2>3, SeqEqual
  <2> QED
    BY <2>4 DEF s, u
<1> QED
  BY <1>2, <1>3, <1>4, <1>5

\* Where they are, and what they come to: what the peer is now taken to know.
LEMMA SentElements ==
    ASSUME NEW p \in PeerType, Len(p.interest) <= StateHistory, NEW t \in Nat,
           NEW now \in States, NEW hist \in Seq(Moments)
    PROVE  LET r == SentTo(p, t, now, hist)
               n == Len(r) IN
           /\ r \in Seq(Messages) /\ n \in 1..3 /\ n - 1 \in 0..n
           /\ r[n] = SnapshotFor(p, t, now, hist)
           /\ \A k \in 1..n : k # n =>
                 \/ r[k].type = "Despawn" /\ r[k].ids = Leaves(p, now)
                 \/ r[k].type = "Spawn" /\ r[k].ids = Enters(p, now)
           /\ Leaves(p, now) = {} /\ Enters(p, now) = {} => n = 1
           /\ Upto(r, n - 1, p.known) = DOMAIN now
           /\ Upto(r, n, p.known) = DOMAIN now
<1> DEFINE d == [type |-> "Despawn", ids |-> Leaves(p, now)]
           e == [type |-> "Spawn", ids |-> Enters(p, now)]
           m == SnapshotFor(p, t, now, hist)
           r == SentTo(p, t, now, hist)
           K == p.known
           D == DOMAIN now
           G(n) == /\ r \in Seq(Messages) /\ Len(r) = n /\ n \in 1..3 /\ n - 1 \in 0..n
                   /\ r[n] = m
                   /\ \A k \in 1..n : k # n =>
                         \/ r[k].type = "Despawn" /\ r[k].ids = Leaves(p, now)
                         \/ r[k].type = "Spawn" /\ r[k].ids = Enters(p, now)
                   /\ Leaves(p, now) = {} /\ Enters(p, now) = {} => n = 1
                   /\ Upto(r, n - 1, K) = D
                   /\ Upto(r, n, K) = D
<1>1. m \in Messages /\ m.type = "Snapshot"
  BY SentToIs DEF SnapshotFor
<1>2. r = (Despawns(p, now) \o Spawns(p, now)) \o <<m>>
  BY SentToIs
<1>3. K \in SUBSET Ent /\ D \in SUBSET Ent
  BY StateIs DEF PeerType
<1>4. Leaves(p, now) = K \ D /\ Enters(p, now) = D \ K
  BY DEF Leaves, Enters
<1>5. d \in Messages /\ e \in Messages
  BY <1>3, <1>4 DEF Messages, Entries
<1>6. \A S \in SUBSET Ent : /\ Effect(d, S) = S \ (K \ D) /\ Effect(e, S) = S \cup (D \ K)
                            /\ Effect(m, S) = S
  <2>1. \A x : /\ Brings(e, x) <=> x \in D \ K
               /\ Takes(d, x) <=> x \in K \ D
               /\ ~Takes(e, x) /\ ~Brings(d, x)
    BY <1>4 DEF Brings, Takes
  <2>2. \A S \in SUBSET Ent : Effect(m, S) = S
    BY <1>1, SnapshotIsSilent, SilentEffect
  <2> QED
    BY <1>3, <2>1, <2>2 DEF Effect
<1>7. /\ d.type = "Despawn" /\ d.ids = Leaves(p, now)
      /\ e.type = "Spawn" /\ e.ids = Enters(p, now)
  OBVIOUS
<1>8. Despawns(p, now) = (IF Leaves(p, now) = {} THEN <<>> ELSE <<d>>)
      /\ Spawns(p, now) = (IF Enters(p, now) = {} THEN <<>> ELSE <<e>>)
  BY DEF Despawns, Spawns
<1>9. Upto(r, 0, K) = K
  BY <1>3, UptoNone
<1>10. /\ Upto(r, 1, K) = Effect(r[1], Upto(r, 0, K))
       /\ Upto(r, 2, K) = Effect(r[2], Upto(r, 1, K))
       /\ Upto(r, 3, K) = Effect(r[3], Upto(r, 2, K))
  <2>1. \A n \in Nat : Upto(r, n + 1, K) = Effect(r[n + 1], Upto(r, n, K))
    BY UptoNext
  <2> HIDE DEF r
  <2>2. /\ Upto(r, 0 + 1, K) = Effect(r[0 + 1], Upto(r, 0, K))
        /\ Upto(r, 1 + 1, K) = Effect(r[1 + 1], Upto(r, 1, K))
        /\ Upto(r, 2 + 1, K) = Effect(r[2 + 1], Upto(r, 2, K))
    BY <2>1
  <2> QED
    BY <2>2
<1>15. /\ (<<>> \o <<>>) \o <<m>> = <<m>> /\ (<<d>> \o <<>>) \o <<m>> = <<d, m>>
       /\ (<<>> \o <<e>>) \o <<m>> = <<e, m>> /\ (<<d>> \o <<e>>) \o <<m>> = <<d, e, m>>
  BY <1>1, <1>5, Rows
<1> HIDE DEF d, e, m, r, K, D
<1>11. CASE Leaves(p, now) = {} /\ Enters(p, now) = {}
  <2>1. r = <<m>>
    BY <1>2, <1>8, <1>15, <1>11
  <2>2. r \in Seq(Messages) /\ Len(r) = 1 /\ r[1] = m
    BY <1>1, <2>1
  <2>3. K = D
    BY <1>4, <1>11
  <2>4. Upto(r, 1, K) = D
    BY <1>3, <1>6, <1>9, <1>10, <2>2, <2>3
  <2>5. G(1)
    BY <1>9, <2>2, <2>3, <2>4
  <2> QED
    BY <2>5 DEF r, m, K, D
<1>12. CASE Leaves(p, now) # {} /\ Enters(p, now) = {}
  <2>1. r = <<d, m>>
    BY <1>2, <1>8, <1>15, <1>12
  <2>2. r \in Seq(Messages) /\ Len(r) = 2 /\ r[1] = d /\ r[2] = m
    BY <1>1, <1>5, <2>1
  <2>3. Upto(r, 1, K) = D
    <3>1. Upto(r, 1, K) = Effect(d, K)
      BY <1>9, <1>10, <2>2
    <3> QED
      BY <1>3, <1>4, <1>6, <1>12, <3>1
  <2>4. Upto(r, 2, K) = D
    BY <1>3, <1>6, <1>10, <2>2, <2>3
  <2>5. G(2)
    BY <1>7, <1>12, <2>2, <2>3, <2>4
  <2> QED
    BY <2>5 DEF r, m, K, D
<1>13. CASE Leaves(p, now) = {} /\ Enters(p, now) # {}
  <2>1. r = <<e, m>>
    BY <1>2, <1>8, <1>15, <1>13
  <2>2. r \in Seq(Messages) /\ Len(r) = 2 /\ r[1] = e /\ r[2] = m
    BY <1>1, <1>5, <2>1
  <2>3. Upto(r, 1, K) = D
    <3>1. Upto(r, 1, K) = Effect(e, K)
      BY <1>9, <1>10, <2>2
    <3> QED
      BY <1>3, <1>4, <1>6, <1>13, <3>1
  <2>4. Upto(r, 2, K) = D
    BY <1>3, <1>6, <1>10, <2>2, <2>3
  <2>5. G(2)
    BY <1>7, <1>13, <2>2, <2>3, <2>4
  <2> QED
    BY <2>5 DEF r, m, K, D
<1>14. CASE Leaves(p, now) # {} /\ Enters(p, now) # {}
  <2>1. r = <<d, e, m>>
    BY <1>2, <1>8, <1>15, <1>14
  <2>2. r \in Seq(Messages) /\ Len(r) = 3 /\ r[1] = d /\ r[2] = e /\ r[3] = m
    BY <1>1, <1>5, <2>1
  <2>3. Upto(r, 1, K) = K \ (K \ D)
    BY <1>3, <1>6, <1>9, <1>10, <2>2
  <2>4. Upto(r, 2, K) = D
    <3>1. K \ (K \ D) \in SUBSET Ent /\ (K \ (K \ D)) \cup (D \ K) = D
      BY <1>3
    <3>2. Upto(r, 2, K) = Effect(e, K \ (K \ D))
      BY <1>10, <2>2, <2>3
    <3> QED
      BY <1>6, <3>1, <3>2
  <2>5. Upto(r, 3, K) = D
    BY <1>3, <1>6, <1>10, <2>2, <2>4
  <2>6. \A k \in 1..3 : k # 3 => k = 1 \/ k = 2
    OBVIOUS
  <2>7. G(3)
    BY <1>7, <1>14, <2>2, <2>4, <2>5, <2>6
  <2> QED
    BY <2>7 DEF r, m, K, D
<1> QED
  BY <1>11, <1>12, <1>13, <1>14

Now  == Only(world, near)
Me   == peers[rep.conn]
Hist == Newest(Append(history, [tick |-> tick + 1, ents |-> world]))

LEMMA NowIs == ASSUME Typed PROVE Now \in States /\ DOMAIN Now \subseteq Ent
BY OnlyIs, StateIs DEF Now, Typed, WorldTyped

LEMMA SendFacts ==
    ASSUME Typed, Send
    PROVE  /\ tick' = tick + 1 /\ tick + 1 \in 0..MaxTick /\ tick \in Nat
           /\ UNCHANGED <<users, nextUser, rep, up, acks, scene>>
           /\ history' = Hist /\ history' \in Seq(Moments) /\ Len(history') <= StateHistory
           /\ peers \in [Conn -> PeerType] /\ peers' \in [Conn -> PeerType]
           /\ \A d \in Conn : /\ peers[d].welcomed => peers'[d] = Told(peers[d], tick + 1, Now)
                              /\ ~peers[d].welcomed => peers'[d] = peers[d]
           /\ up /\ Me.welcomed =>
                 /\ Me \in PeerType /\ Len(Me.interest) <= StateHistory
                 /\ wire' = wire \o SentTo(Me, tick + 1, Now, Hist)
           /\ ~(up /\ Me.welcomed) => wire' = wire
           /\ calm' = (IF up /\ rep.welcomed /\ wire = <<>> /\ acks = <<>>
                       THEN calm + (IF calm < StateHistory THEN 1 ELSE 0) ELSE 0)
           /\ calm' \in Nat
<1> DEFINE m == [tick |-> tick + 1, ents |-> world]
<1>1. /\ tick \in Nat /\ tick < MaxTick /\ history \in Seq(Moments) /\ Len(history) <= StateHistory
      /\ m \in Moments /\ tick + 1 \in 0..MaxTick
  BY DEF Send, Typed, HistoryTyped, WorldTyped, Moments
<1>2. Hist = Newest(Append(history, m))
  BY DEF Hist
<1>3. history' = Hist
  BY <1>2 DEF Send
<1> HIDE DEF m
<1>4. Hist \in Seq(Moments) /\ Len(Hist) \in 1..StateHistory
  BY <1>1, <1>2, NewestAppend
<1>5. Len(Hist) <= StateHistory
  BY <1>4
<1>6. peers \in [Conn -> PeerType] /\ \A d \in Conn : Len(peers[d].interest) <= StateHistory
  BY DEF Typed, PeersTyped
<1>7. peers' = [d \in Conn |-> IF peers[d].welcomed THEN Told(peers[d], tick + 1, Now) ELSE peers[d]]
  BY DEF Send, Now
<1>8. tick + 1 \in Nat /\ Now \in States
  BY <1>1, NowIs
<1>9. \A d \in Conn : Told(peers[d], tick + 1, Now) \in PeerType
  BY <1>6, <1>8, ToldIs
<1>10. peers' \in [Conn -> PeerType]
  BY <1>6, <1>7, <1>9
<1>11. up => rep.conn \in Conn
  BY DEF Typed, WireTyped
<1>12. wire' = IF up /\ Me.welcomed THEN wire \o SentTo(Me, tick + 1, Now, Hist) ELSE wire
  BY <1>3 DEF Send, Now, Hist, Me
<1>13. calm' = IF up /\ rep.welcomed /\ wire = <<>> /\ acks = <<>>
               THEN calm + (IF calm < StateHistory THEN 1 ELSE 0) ELSE 0
  BY DEF Send
<1>14. calm' \in Nat
  BY <1>13 DEF Typed, WireTyped
<1>15. tick' = tick + 1 /\ UNCHANGED <<users, nextUser, rep, up, acks, scene>>
  BY DEF Send, Quiet
<1>16. up => Me \in PeerType /\ Len(Me.interest) <= StateHistory
  BY <1>6, <1>11 DEF Me
<1> QED
  BY <1>1, <1>3, <1>4, <1>5, <1>6, <1>7, <1>10, <1>12, <1>13, <1>14, <1>15, <1>16

\* What is on the wire after a send.
LEMMA SendWire ==
    ASSUME Typed, Send, up, Me.welcomed
    PROVE  LET r == SentTo(Me, tick + 1, Now, Hist)
               n == Len(wire) IN
           /\ wire \in Seq(Messages) /\ r \in Seq(Messages) /\ wire' = wire \o r
           /\ wire' \in Seq(Messages)
           /\ n \in Nat /\ Len(r) \in 1..3 /\ Len(wire') = n + Len(r)
           /\ \A j \in 1..n : wire'[j] = wire[j]
           /\ \A k \in 1..Len(r) : wire'[n + k] = r[k]
           /\ \A j \in 1..Len(wire') : j \in 1..n \/ (j - n \in 1..Len(r) /\ n + (j - n) = j)
<1> DEFINE r == SentTo(Me, tick + 1, Now, Hist)
           n == Len(wire)
<1>1. wire \in Seq(Messages)
  BY DEF Typed, WireTyped
<1>2. Me \in PeerType /\ Len(Me.interest) <= StateHistory /\ wire' = wire \o r
      /\ tick + 1 \in Nat /\ Hist \in Seq(Moments)
  BY SendFacts
<1>3. r \in Seq(Messages) /\ Len(r) \in 1..3
  BY <1>2, NowIs, SentElements
<1> HIDE DEF r
<1>4. /\ wire' \in Seq(Messages) /\ Len(wire') = n + Len(r)
      /\ \A j \in 1..(n + Len(r)) : wire'[j] = IF j <= n THEN wire[j] ELSE r[j - n]
  BY <1>1, <1>2, <1>3, ConcatProperties
<1>5. n \in Nat /\ Len(r) \in Nat
  BY <1>1, <1>3
<1>6. \A j \in 1..n : wire'[j] = wire[j]
  BY <1>4, <1>5
<1>7. \A k \in 1..Len(r) : wire'[n + k] = r[k]
  <2> SUFFICES ASSUME NEW k \in 1..Len(r) PROVE wire'[n + k] = r[k]
    OBVIOUS
  <2>1. n + k \in 1..(n + Len(r)) /\ ~(n + k <= n) /\ (n + k) - n = k
    BY <1>5
  <2> QED
    BY <1>4, <2>1
<1>8. \A j \in 1..Len(wire') : j \in 1..n \/ (j - n \in 1..Len(r) /\ n + (j - n) = j)
  BY <1>4, <1>5
<1> QED
  BY <1>1, <1>2, <1>3, <1>4, <1>5, <1>6, <1>7, <1>8 DEF r

LEMMA SentToMe ==
    ASSUME Typed, Send, up, Me.welcomed
    PROVE  LET r == SentTo(Me, tick + 1, Now, Hist)
               n == Len(r) IN
           /\ r \in Seq(Messages) /\ n \in 1..3 /\ n - 1 \in 0..n
           /\ r[n] = SnapshotFor(Me, tick + 1, Now, Hist)
           /\ \A k \in 1..n : k # n =>
                 \/ r[k].type = "Despawn" /\ r[k].ids = Leaves(Me, Now)
                 \/ r[k].type = "Spawn" /\ r[k].ids = Enters(Me, Now)
           /\ Leaves(Me, Now) = {} /\ Enters(Me, Now) = {} => n = 1
           /\ Upto(r, n - 1, Me.known) = DOMAIN Now
           /\ Upto(r, n, Me.known) = DOMAIN Now
<1> DEFINE p == Me
           t == tick + 1
           now == Now
           hist == Hist
<1>1. p \in PeerType /\ Len(p.interest) <= StateHistory /\ t \in Nat /\ hist \in Seq(Moments)
  BY SendFacts
<1>2. now \in States
  BY NowIs
<1> HIDE DEF p, t, now, hist
<1> DEFINE r == SentTo(p, t, now, hist)
<1>3. r \in Seq(Messages) /\ Len(r) \in 1..3 /\ Len(r) - 1 \in 0..Len(r)
  BY <1>1, <1>2, SentElements
<1>4. r[Len(r)] = SnapshotFor(p, t, now, hist)
  BY <1>1, <1>2, SentElements
<1>5. \A k \in 1..Len(r) : k # Len(r) =>
         \/ r[k].type = "Despawn" /\ r[k].ids = Leaves(p, now)
         \/ r[k].type = "Spawn" /\ r[k].ids = Enters(p, now)
  BY <1>1, <1>2, SentElements
<1>6. Leaves(p, now) = {} /\ Enters(p, now) = {} => Len(r) = 1
  BY <1>1, <1>2, SentElements
<1>7. Upto(r, Len(r) - 1, p.known) = DOMAIN now
  BY <1>1, <1>2, SentElements
<1>8. Upto(r, Len(r), p.known) = DOMAIN now
  BY <1>1, <1>2, SentElements
<1> QED
  BY <1>3, <1>4, <1>5, <1>6, <1>7, <1>8 DEF p, t, now, hist

LEMMA TypedSend == ASSUME Typed, Send PROVE Typed'
<1>1. /\ tick' = tick + 1 /\ tick + 1 \in 0..MaxTick /\ tick \in Nat
      /\ UNCHANGED <<users, nextUser, rep, up, acks, scene>>
      /\ history' \in Seq(Moments) /\ Len(history') <= StateHistory
      /\ peers' \in [Conn -> PeerType]
      /\ \A d \in Conn : /\ peers[d].welcomed => peers'[d] = Told(peers[d], tick + 1, Now)
                         /\ ~peers[d].welcomed => peers'[d] = peers[d]
      /\ ~(up /\ Me.welcomed) => wire' = wire
      /\ calm' \in Nat
  BY SendFacts
<1>2. WorldTyped' /\ HistoryTyped'
  BY <1>1 DEF Typed, WorldTyped, HistoryTyped
<1>3. RepTyped'
  <2>1. rep \in RepType /\ rep.applied \in Nat /\ rep.applied <= tick
        /\ Len(rep.states) <= StateHistory
    BY DEF Typed, RepTyped, RepType
  <2> QED
    BY <1>1, <2>1 DEF RepTyped
<1>4. PeersTyped'
  <2>1. \A d \in Conn : Len(peers'[d].interest) <= StateHistory
    <3> SUFFICES ASSUME NEW d \in Conn PROVE Len(peers'[d].interest) <= StateHistory
      OBVIOUS
    <3>1. peers[d] \in PeerType /\ Len(peers[d].interest) <= StateHistory
      BY DEF Typed, PeersTyped
    <3>2. tick + 1 \in Nat /\ Now \in States
      BY <1>1, NowIs
    <3>3. Len(Told(peers[d], tick + 1, Now).interest) <= StateHistory
      BY <3>1, <3>2, ToldIs
    <3> QED
      BY <1>1, <3>1, <3>3
  <2> QED
    BY <1>1, <2>1 DEF Typed, PeersTyped
<1>5. wire' \in Seq(Messages) /\ (~up => wire' = <<>>)
      /\ \A j \in 1..Len(wire') : wire'[j].type = "Snapshot" => wire'[j].tick <= tick + 1
  <2>0. /\ wire \in Seq(Messages)
        /\ ~up => wire = <<>>
        /\ \A j \in 1..Len(wire) : wire[j].type = "Snapshot" => wire[j].tick <= tick
        /\ \A j \in 1..Len(wire) : wire[j].type = "Snapshot" => wire[j].tick \in Nat
    BY MessageKinds DEF Typed, WireTyped, IsSnapshot
  <2>1. CASE ~(up /\ Me.welcomed)
    <3>1. wire' = wire
      BY <1>1, <2>1
    <3>2. \A j \in 1..Len(wire) : wire[j].type = "Snapshot" => wire[j].tick <= tick + 1
      BY <1>1, <2>0
    <3> QED
      BY <2>0, <3>1, <3>2
  <2>2. CASE up /\ Me.welcomed
    <3> DEFINE r == SentTo(Me, tick + 1, Now, Hist)
               n == Len(wire)
    <3>1. /\ wire' \in Seq(Messages) /\ Len(r) \in Nat
          /\ \A j \in 1..n : wire'[j] = wire[j]
          /\ \A k \in 1..Len(r) : wire'[n + k] = r[k]
          /\ \A j \in 1..Len(wire') : j \in 1..n \/ (j - n \in 1..Len(r) /\ n + (j - n) = j)
      BY <2>2, SendWire
    <3>2. \A k \in 1..Len(r) : r[k].type = "Snapshot" => r[k].tick = tick + 1
      <4>2. /\ r[Len(r)] = SnapshotFor(Me, tick + 1, Now, Hist)
            /\ \A k \in 1..Len(r) : k # Len(r) =>
                  \/ r[k].type = "Despawn" /\ r[k].ids = Leaves(Me, Now)
                  \/ r[k].type = "Spawn" /\ r[k].ids = Enters(Me, Now)
        BY <2>2, SentToMe
      <4>3. SnapshotFor(Me, tick + 1, Now, Hist).tick = tick + 1
        BY DEF SnapshotFor
      <4> QED
        BY <4>2, <4>3
    <3> HIDE DEF r
    <3>3. ASSUME NEW j \in 1..Len(wire'), wire'[j].type = "Snapshot" PROVE wire'[j].tick <= tick + 1
      <4>1. CASE j \in 1..n
        <5>1. wire'[j] = wire[j] /\ wire[j].type = "Snapshot"
          BY <3>1, <3>3, <4>1
        <5>2. wire[j].tick <= tick /\ wire[j].tick \in Nat
          BY <2>0, <4>1, <5>1
        <5> QED
          BY <1>1, <5>1, <5>2
      <4>2. CASE j - n \in 1..Len(r) /\ n + (j - n) = j
        <5> DEFINE k == j - n
        <5>1. k \in 1..Len(r) /\ n + k = j
          BY <4>2
        <5> HIDE DEF k
        <5>2. wire'[j] = r[k]
          BY <3>1, <5>1
        <5>3. wire'[j].tick = tick + 1
          BY <3>2, <3>3, <5>1, <5>2
        <5> QED
          BY <1>1, <5>3
      <4> QED
        BY <3>1, <4>1, <4>2
    <3> QED
      BY <2>2, <3>1, <3>3
  <2> QED
    BY <2>1, <2>2
<1>6. WireTyped'
  BY <1>1, <1>5 DEF Typed, WireTyped, IsSnapshot
<1> QED
  BY <1>2, <1>3, <1>4, <1>6 DEF Typed

LEMMA TypedStep == ASSUME Typed, [Next]_vars PROVE Typed'
<1>1. ASSUME NEW e \in Ent, (\E v \in Value : Write(e, v)) \/ Destroy(e) \/ Approach(e) PROVE Typed'
  <2>1. WorldTyped' /\ calm' = 0 /\ UNCHANGED <<authority, rep, network>>
    BY <1>1, WorldSteps
  <2>2. HistoryTyped' /\ PeersTyped' /\ RepTyped'
    BY <2>1 DEF Typed, HistoryTyped, PeersTyped, RepTyped
  <2>3. WireTyped'
    BY <2>1 DEF Typed, WireTyped, IsSnapshot
  <2> QED
    BY <2>1, <2>2, <2>3 DEF Typed
<1>2. CASE UNCHANGED vars
  BY <1>2 DEF vars, Typed, WorldTyped, HistoryTyped, PeersTyped, RepTyped, WireTyped, IsSnapshot
<1> QED
  BY <1>1, <1>2, TypedDial, TypedBreak, TypedHears, TypedLose, TypedReceive,
     TypedAuthorityReceive, TypedSend DEF Next

-----------------------------------------------------------------------------
(* The two ends of a connection: what each takes the other to be is what it  *)
(* is, or on its way.                                                        *)

Linked ==
    /\ up <=> ~rep.lost
    /\ up => Me.there
    /\ rep.welcomed => up /\ Me.welcomed /\ rep.joined
    /\ up /\ ~Me.welcomed => /\ wire = <<>> /\ Len(acks) <= 1
                             /\ \A i \in 1..Len(acks) : acks[i].type = "Hello"
    /\ up /\ Me.welcomed => \A i \in 1..Len(acks) : acks[i].type = "Ack" /\ acks[i].tick <= tick
    /\ up /\ Me.welcomed /\ ~rep.welcomed => wire # <<>> /\ wire[1].type = "Welcome"
    /\ \A i \in 1..Len(wire) : wire[i].type = "Welcome" => i = 1 /\ ~rep.welcomed
    /\ ~rep.joined => rep.locals = {} /\ DOMAIN rep.written = {}

LEMMA LinkedInit == Init => Linked
<1> SUFFICES ASSUME Init PROVE Linked
  OBVIOUS
<1>1. up = FALSE /\ rep.lost = TRUE /\ rep.welcomed = FALSE /\ wire = <<>> /\ rep.locals = {}
      /\ rep.written = Empty
  BY DEF Init
<1>2. 1..Len(wire) = {} /\ DOMAIN rep.written = {}
  BY <1>1, EmptyIs
<1> QED
  BY <1>1, <1>2 DEF Linked

LEMMA DialFacts ==
    ASSUME Typed, Dial
    PROVE  /\ ~up /\ up' = TRUE /\ wire' = <<>> /\ calm' = 0
           /\ acks' = <<[type |-> "Hello", token |-> rep.token]>>
           /\ rep' \in RepType /\ rep'.conn = rep.conn + 1 /\ rep'.conn \in Conn
           /\ ~rep'.lost /\ ~rep'.welcomed /\ rep'.joined = rep.joined
           /\ rep'.locals = rep.locals /\ rep'.departed = rep.departed
           /\ rep'.states = rep.states /\ rep'.applied = rep.applied
           /\ rep'.written = rep.written
           /\ peers \in [Conn -> PeerType]
           /\ \A d \in Conn : peers'[d] = IF d = rep.conn + 1 THEN Arrived ELSE peers[d]
           /\ UNCHANGED <<tick, history, users, nextUser, scene>>
<1> DEFINE c == rep.conn + 1
<1>0. rep \in RepType /\ c \in Conn /\ c \in 0..MaxConns
  BY DEF Typed, RepTyped, RepType, Dial
<1>1. rep' = [rep EXCEPT !.conn = c, !.lost = FALSE, !.welcomed = FALSE]
  BY DEF Dial
<1>2. peers' = [peers EXCEPT ![c] = Arrived] /\ peers \in [Conn -> PeerType]
  BY DEF Dial, Typed, PeersTyped
<1> HIDE DEF c
<1>3. /\ rep' \in RepType /\ rep'.conn = c /\ ~rep'.lost /\ ~rep'.welcomed
      /\ rep'.joined = rep.joined /\ rep'.locals = rep.locals /\ rep'.departed = rep.departed
      /\ rep'.states = rep.states /\ rep'.applied = rep.applied /\ rep'.written = rep.written
  BY <1>0, <1>1 DEF RepType
<1>4. \A d \in Conn : peers'[d] = IF d = c THEN Arrived ELSE peers[d]
  BY <1>0, <1>2
<1>5. /\ ~up /\ up' = TRUE /\ wire' = <<>> /\ calm' = 0
      /\ acks' = <<[type |-> "Hello", token |-> rep.token]>>
      /\ UNCHANGED <<tick, history, users, nextUser, scene>>
  BY DEF Dial, Quiet
<1> QED
  BY <1>0, <1>2, <1>3, <1>4, <1>5 DEF c

LEMMA BreakFacts ==
    ASSUME Typed, Break
    PROVE  /\ up' = FALSE /\ wire' = <<>> /\ acks' = <<>> /\ calm' = 0
           /\ rep' \in RepType /\ rep'.lost /\ ~rep'.welcomed /\ rep'.conn = rep.conn
           /\ rep'.joined = rep.joined
           /\ rep'.locals = rep.locals /\ rep'.departed = rep.departed
           /\ rep'.states = rep.states /\ rep'.applied = rep.applied
           /\ rep'.written = rep.written
           /\ UNCHANGED <<authority, scene>>
<1>1. rep \in RepType /\ rep' = [rep EXCEPT !.lost = TRUE, !.welcomed = FALSE]
  BY DEF Break, Typed, RepTyped
<1>2. /\ rep' \in RepType /\ rep'.lost /\ ~rep'.welcomed /\ rep'.conn = rep.conn
      /\ rep'.joined = rep.joined
      /\ rep'.locals = rep.locals /\ rep'.departed = rep.departed
      /\ rep'.states = rep.states /\ rep'.applied = rep.applied /\ rep'.written = rep.written
  BY <1>1 DEF RepType
<1> QED
  BY <1>2 DEF Break, Quiet

\* What is reliable comes before what was sent after it.
LEMMA ReliableFirst ==
    ASSUME Typed, NEW i \in DOMAIN wire, Deliverable(i), wire[i].type # "Snapshot"
    PROVE  \A j \in 1..(i - 1) : IsSnapshot(j)
<1>1. i \in 1..Len(wire)
  BY DEF Typed, WireTyped
<1>2. CASE Ordered
  <2>1. i = 1
    BY <1>2 DEF Deliverable
  <2>2. 1..(i - 1) = {}
    BY <2>1
  <2> QED
    BY <2>2
<1>3. CASE ~Ordered
  BY <1>3 DEF Deliverable, Reliable, IsSnapshot
<1> QED
  BY <1>2, <1>3

LEMMA KeepsWelcome ==
    ASSUME Typed, Linked, NEW i \in DOMAIN wire, wire' = RemoveAt(wire, i),
           wire[i].type # "Welcome"
    PROVE  /\ \A j \in 1..Len(wire') : wire'[j].type = "Welcome" => j = 1 /\ ~rep.welcomed
           /\ wire[1].type = "Welcome" => wire' # <<>> /\ wire'[1].type = "Welcome"
<1>1. /\ wire' \in Seq(Messages) /\ Len(wire') = Len(wire) - 1 /\ Len(wire) \in Nat \ {0}
      /\ i \in 1..Len(wire)
      /\ \A j \in 1..Len(wire') : /\ wire'[j] = wire[IF j < i THEN j ELSE j + 1]
                                  /\ (IF j < i THEN j ELSE j + 1) \in 1..Len(wire)
                                  /\ (IF j < i THEN j ELSE j + 1) # i
  BY Removed
<1>2. ASSUME NEW j \in 1..Len(wire'), wire'[j].type = "Welcome" PROVE j = 1 /\ ~rep.welcomed
  <2> DEFINE k == IF j < i THEN j ELSE j + 1
  <2>1. k \in 1..Len(wire) /\ wire[k].type = "Welcome"
    BY <1>1, <1>2
  <2>2. k = 1 /\ ~rep.welcomed
    BY <2>1 DEF Linked
  <2> QED
    BY <1>1, <2>2
<1>3. ASSUME wire[1].type = "Welcome" PROVE wire' # <<>> /\ wire'[1].type = "Welcome"
  <2>1. i > 1 /\ Len(wire') >= 1
    BY <1>1, <1>3
  <2>2. 1 \in 1..Len(wire') /\ 1 < i
    BY <1>1, <2>1
  <2>3. wire'[1] = wire[1]
    BY <1>1, <2>2
  <2> QED
    BY <1>3, <2>1, <2>3
<1> QED
  BY <1>2, <1>3

\* A replica that has a message to receive is one the authority welcomed.
LEMMA WireIsWelcomed ==
    ASSUME Typed, Linked, NEW i \in DOMAIN wire
    PROVE  up /\ Me.welcomed /\ rep.conn \in Conn
<1>1. i \in 1..Len(wire)
  BY DEF Typed, WireTyped
<1>2. wire # <<>>
  BY <1>1
<1> QED
  BY <1>2 DEF Typed, WireTyped, Linked

LEMMA LinkedReceive ==
    ASSUME Typed, Linked, NEW i \in DOMAIN wire, ReplicaReceive(i) PROVE Linked'
<1>0. /\ up /\ Deliverable(i) /\ wire' = RemoveAt(wire, i)
      /\ UNCHANGED <<authority, scene, up, changes, calm>>
      /\ i \in 1..Len(wire) /\ wire[i] \in Messages /\ wire \in Seq(Messages)
      /\ up /\ Me.welcomed /\ rep.conn \in Conn
  BY ReceiveFacts, WireIsWelcomed
<1>1. rep \in RepType /\ acks \in Seq(Answers)
  BY DEF Typed, RepTyped, WireTyped
<1>2. wire[1].type = "Welcome" /\ wire[i].type # "Snapshot" => i = 1
  <2> SUFFICES ASSUME wire[1].type = "Welcome", wire[i].type # "Snapshot", i # 1 PROVE FALSE
    OBVIOUS
  <2>1. 1 \in 1..(i - 1)
    BY <1>0
  <2>2. IsSnapshot(1)
    BY <1>0, <2>1, ReliableFirst
  <2> QED
    BY <2>2 DEF IsSnapshot
<1>3. CASE wire[i].type = "Welcome" /\ Welcome(wire[i].user) /\ UNCHANGED acks
  <2>1. i = 1
    BY <1>0, <1>3 DEF Linked
  <2>2. wire[i].user \in Nat
    BY <1>0, <1>3, MessageKinds
  <2>3. rep'.joined /\ rep'.welcomed /\ rep'.conn = rep.conn /\ rep'.lost = rep.lost
    BY <1>3, <2>2, WelcomeFacts
  <2>4. \A j \in 1..Len(wire') : wire'[j].type # "Welcome"
    <3> SUFFICES ASSUME NEW j \in 1..Len(wire') PROVE wire'[j].type # "Welcome"
      OBVIOUS
    <3> DEFINE k == IF j < i THEN j ELSE j + 1
    <3>1. k \in 1..Len(wire) /\ k # i /\ wire'[j] = wire[k]
      BY <1>0, Removed
    <3> QED
      BY <2>1, <3>1 DEF Linked
  <2> QED
    BY <1>0, <1>3, <2>3, <2>4 DEF Linked, Me
<1>4. CASE wire[i].type \in {"Spawn", "Despawn"} /\ UNCHANGED acks
           /\ (OnSpawn(wire[i].ids) \/ OnDespawn(wire[i].ids))
  <2>1. wire[1].type # "Welcome"
    BY <1>2, <1>4
  <2>2. rep.welcomed /\ rep.joined
    BY <1>0, <2>1 DEF Linked
  <2> DEFINE ids == wire[i].ids
  <2>3. ids \in SUBSET Ent /\ (OnSpawn(ids) \/ OnDespawn(ids))
    BY <1>0, <1>4, MessageKinds
  <2> HIDE DEF ids
  <2>4. rep'.joined = rep.joined /\ rep'.welcomed = rep.welcomed /\ rep'.conn = rep.conn
        /\ rep'.lost = rep.lost
    BY <2>3, SpawnFacts, DespawnFacts
  <2>5. \A j \in 1..Len(wire') : wire'[j].type = "Welcome" => j = 1 /\ ~rep.welcomed
    BY <1>0, <1>4, KeepsWelcome
  <2> QED
    BY <1>0, <1>4, <2>2, <2>4, <2>5 DEF Linked, Me
<1>5. CASE IsSnapshot(i) /\ wire[i] \in Snapshots /\ (Applied(wire[i]) \/ Refused(wire[i]))
  <2>1. /\ \A j \in 1..Len(wire') : wire'[j].type = "Welcome" => j = 1 /\ ~rep.welcomed
        /\ wire[1].type = "Welcome" => wire' # <<>> /\ wire'[1].type = "Welcome"
    BY <1>0, <1>5, KeepsWelcome DEF IsSnapshot
  <2>2. /\ rep'.joined = rep.joined /\ rep'.welcomed = rep.welcomed /\ rep'.conn = rep.conn
        /\ rep'.lost = rep.lost /\ rep'.locals = rep.locals
    BY <1>5, AppliedFacts DEF Refused
  <2>3. ~rep.joined => DOMAIN rep'.written = {}
    <3> SUFFICES ASSUME ~rep.joined PROVE DOMAIN rep'.written = {}
      OBVIOUS
    <3>1. rep.locals = {} /\ DOMAIN rep.written = {}
      BY DEF Linked
    <3>2. CASE Applied(wire[i])
      <4>1. rep'.written = Shown(wire[i].checksum) /\ wire[i].checksum \in States
        BY <1>5, <3>2, AppliedFacts DEF Snapshots
      <4>2. DOMAIN rep'.written = DOMAIN rep.written \cup (DOMAIN wire[i].checksum \cap rep.locals)
        BY <4>1, ShownIs
      <4> QED
        BY <3>1, <4>2
    <3>3. CASE Refused(wire[i])
      BY <3>1, <3>3 DEF Refused
    <3> QED
      BY <1>5, <3>2, <3>3
  <2>4. \A j \in 1..Len(acks') : acks'[j].type = "Ack" /\ acks'[j].tick <= tick
    <3>1. \A j \in 1..Len(acks) : acks[j].type = "Ack" /\ acks[j].tick <= tick
      BY <1>0 DEF Linked
    <3>2. CASE Applied(wire[i])
      <4> DEFINE a == [type |-> "Ack", tick |-> wire[i].tick]
      <4>1. a.type = "Ack" /\ a.tick <= tick /\ a \in Answers /\ acks' = Append(acks, a)
        BY <1>0, <1>5, <3>2, AppliedFacts DEF Typed, WireTyped, Snapshots, Answers
      <4> HIDE DEF a
      <4>2. /\ Len(acks') = Len(acks) + 1 /\ acks'[Len(acks) + 1] = a
            /\ \A j \in 1..Len(acks) : acks'[j] = acks[j]
        BY <1>1, <4>1, AppendElements
      <4>3. \A j \in 1..Len(acks') : j \in 1..Len(acks) \/ j = Len(acks) + 1
        BY <1>1, <4>2
      <4> QED
        BY <3>1, <4>1, <4>2, <4>3
    <3>3. CASE Refused(wire[i])
      BY <3>1, <3>3 DEF Refused
    <3> QED
      BY <1>5, <3>2, <3>3
  <2>5. wire # <<>>
    BY <1>0
  <2> QED
    BY <1>0, <2>1, <2>2, <2>3, <2>4, <2>5 DEF Linked, Me
<1> QED
  BY <1>3, <1>4, <1>5, ReceiveFacts

LEMMA LinkedAuthorityReceive ==
    ASSUME Typed, Linked, AuthorityReceive PROVE Linked'
<1>0. /\ UNCHANGED <<tick, history, rep, up, calm, scene>>
      /\ up /\ rep.conn \in Conn /\ peers[rep.conn].there
      /\ Len(acks) \in Nat \ {0} /\ Len(acks') = Len(acks) - 1
      /\ \A j \in 1..Len(acks') : acks'[j] = acks[j + 1]
      /\ \/ acks[1].type = "Hello" /\ ~peers[rep.conn].welcomed /\ Hello(acks[1].token)
            /\ acks[1].token \in Nat
         \/ acks[1].type = "Ack" /\ Acked(acks[1].tick) /\ acks[1].tick \in Nat
  BY AuthorityReceiveFacts
<1>1. CASE acks[1].type = "Hello" /\ ~peers[rep.conn].welcomed /\ Hello(acks[1].token)
           /\ acks[1].token \in Nat
  <2>1. wire = <<>> /\ Len(acks') = 0 /\ ~rep.welcomed
    BY <1>0, <1>1 DEF Linked, Me
  <2> DEFINE token == acks[1].token
             user == IF token \in users THEN token ELSE nextUser
             m == [type |-> "Welcome", user |-> user]
  <2>2. /\ wire' = Append(wire, m) /\ peers'[rep.conn].welcomed
        /\ peers'[rep.conn].there = peers[rep.conn].there
    <3> HIDE DEF token
    <3>1. Hello(token) /\ token \in Nat
      BY <1>1 DEF token
    <3> QED
      BY <1>0, <3>1, HelloFacts
  <2>3. m.type = "Welcome"
    OBVIOUS
  <2> HIDE DEF m
  <2>4. wire' = <<m>>
    BY <2>1, <2>2
  <2>5. wire' # <<>> /\ wire'[1].type = "Welcome" /\ 1..Len(wire') = {1} /\ 1..Len(acks') = {}
    BY <2>1, <2>3, <2>4
  <2> QED
    BY <1>0, <2>1, <2>2, <2>5 DEF Linked, Me
<1>2. CASE acks[1].type = "Ack" /\ Acked(acks[1].tick) /\ acks[1].tick \in Nat
  <2>1. 1 \in 1..Len(acks)
    BY <1>0
  <2>2. Me.welcomed
    BY <1>0, <1>2, <2>1 DEF Linked
  <2>3. /\ peers'[rep.conn].there = peers[rep.conn].there
        /\ peers'[rep.conn].welcomed = peers[rep.conn].welcomed /\ wire' = wire
    BY <1>0, <1>2, AckedFacts
  <2>4. \A j \in 1..Len(acks') : acks'[j].type = "Ack" /\ acks'[j].tick <= tick
    <3>1. \A j \in 1..Len(acks') : j + 1 \in 1..Len(acks)
      BY <1>0
    <3> QED
      BY <1>0, <2>2, <3>1 DEF Linked
  <2> QED
    BY <1>0, <2>2, <2>3, <2>4 DEF Linked, Me
<1> QED
  BY <1>0, <1>1, <1>2

LEMMA LinkedSend == ASSUME Typed, Linked, Send PROVE Linked'
<1>0. /\ tick' = tick + 1 /\ tick \in Nat
      /\ UNCHANGED <<users, nextUser, rep, up, acks, scene>>
      /\ peers \in [Conn -> PeerType]
      /\ \A d \in Conn : /\ peers[d].welcomed => peers'[d] = Told(peers[d], tick + 1, Now)
                         /\ ~peers[d].welcomed => peers'[d] = peers[d]
      /\ ~(up /\ Me.welcomed) => wire' = wire
  BY SendFacts
<1>1. up => Me'.there = Me.there /\ Me'.welcomed = Me.welcomed
  <2> SUFFICES ASSUME up PROVE Me'.there = Me.there /\ Me'.welcomed = Me.welcomed
    OBVIOUS
  <2>1. rep.conn \in Conn /\ Me \in PeerType /\ Len(Me.interest) <= StateHistory
    BY DEF Typed, WireTyped, PeersTyped, Me
  <2> DEFINE t == tick + 1
  <2>2. t \in Nat /\ Now \in States
    BY <1>0, NowIs
  <2>3. Me' = peers'[rep.conn]
    BY <1>0 DEF Me
  <2> HIDE DEF t
  <2>4. Told(Me, t, Now).there = Me.there /\ Told(Me, t, Now).welcomed = Me.welcomed
    BY <2>1, <2>2, ToldIs
  <2> QED
    BY <1>0, <2>1, <2>3, <2>4 DEF Me, t
<1>2. /\ \A j \in 1..Len(wire') : wire'[j].type = "Welcome" => j = 1 /\ ~rep.welcomed
      /\ up /\ Me.welcomed /\ ~rep.welcomed => wire' # <<>> /\ wire'[1].type = "Welcome"
      /\ up /\ ~Me.welcomed => wire' = <<>>
  <2>1. CASE ~(up /\ Me.welcomed)
    <3>1. wire' = wire
      BY <1>0, <2>1
    <3> QED
      BY <2>1, <3>1 DEF Linked
  <2>2. CASE up /\ Me.welcomed
    <3> DEFINE r == SentTo(Me, tick + 1, Now, Hist)
               n == Len(wire)
    <3>1. /\ wire \in Seq(Messages)
          /\ n \in Nat /\ Len(r) \in 1..3 /\ Len(wire') = n + Len(r)
          /\ \A j \in 1..n : wire'[j] = wire[j]
          /\ \A k \in 1..Len(r) : wire'[n + k] = r[k]
          /\ \A j \in 1..Len(wire') : j \in 1..n \/ (j - n \in 1..Len(r) /\ n + (j - n) = j)
      BY <2>2, SendWire
    <3>2. /\ r[Len(r)] = SnapshotFor(Me, tick + 1, Now, Hist)
          /\ \A k \in 1..Len(r) : k # Len(r) =>
                \/ r[k].type = "Despawn" /\ r[k].ids = Leaves(Me, Now)
                \/ r[k].type = "Spawn" /\ r[k].ids = Enters(Me, Now)
      BY <2>2, SentToMe
    <3>3. SnapshotFor(Me, tick + 1, Now, Hist).type = "Snapshot"
      BY DEF SnapshotFor
    <3> HIDE DEF r
    <3>4. \A k \in 1..Len(r) : r[k].type # "Welcome"
      BY <3>2, <3>3
    <3>5. ASSUME NEW j \in 1..Len(wire'), wire'[j].type = "Welcome"
          PROVE  j \in 1..n /\ wire[j].type = "Welcome"
      <4>1. CASE j \in 1..n
        BY <3>1, <3>5, <4>1
      <4>2. CASE j - n \in 1..Len(r) /\ n + (j - n) = j
        <5> DEFINE k == j - n
        <5>1. k \in 1..Len(r) /\ n + k = j
          BY <4>2
        <5> HIDE DEF k
        <5> QED
          BY <3>1, <3>4, <3>5, <5>1
      <4> QED
        BY <3>1, <4>1, <4>2
    <3>6. wire # <<>> => 1 \in 1..n
      BY <3>1
    <3> QED
      BY <2>2, <3>1, <3>5, <3>6 DEF Linked
  <2> QED
    BY <2>1, <2>2
<1>3. \A i \in 1..Len(acks) : acks[i].type = "Ack" /\ acks[i].tick <= tick => acks[i].tick <= tick + 1
  BY <1>0, AnswerKinds DEF Typed, WireTyped
<1>4. Linked
  OBVIOUS
<1> QED
  BY <1>0, <1>1, <1>2, <1>3 DEF Linked

LEMMA LinkedStep == ASSUME Typed, Linked, [Next]_vars PROVE Linked'
<1>1. ASSUME NEW e \in Ent, (\E v \in Value : Write(e, v)) \/ Destroy(e) \/ Approach(e) PROVE Linked'
  <2>1. UNCHANGED <<authority, rep, network>>
    BY <1>1, WorldSteps
  <2> QED
    BY <2>1 DEF Linked, Me
<1>2. CASE Dial
  <2>1. /\ up' = TRUE /\ wire' = <<>>
        /\ acks' = <<[type |-> "Hello", token |-> rep.token]>>
        /\ rep'.conn = rep.conn + 1 /\ rep'.conn \in Conn
        /\ ~rep'.lost /\ ~rep'.welcomed /\ rep'.joined = rep.joined
        /\ rep'.locals = rep.locals /\ rep'.written = rep.written
        /\ peers'[rep.conn + 1] = Arrived
    BY <1>2, DialFacts
  <2>2. Me' = Arrived /\ Arrived.there /\ ~Arrived.welcomed
    BY <2>1, NobodyIs DEF Me
  <2>3. Len(acks') = 1 /\ (\A i \in 1..Len(acks') : acks'[i].type = "Hello") /\ 1..Len(wire') = {}
    BY <2>1
  <2> QED
    BY <2>1, <2>2, <2>3 DEF Linked
<1>3. CASE Break
  <2>1. /\ up' = FALSE /\ wire' = <<>> /\ rep'.lost /\ ~rep'.welcomed /\ rep'.joined = rep.joined
        /\ rep'.locals = rep.locals /\ rep'.written = rep.written
    BY <1>3, BreakFacts
  <2>2. 1..Len(wire') = {}
    BY <2>1
  <2> QED
    BY <2>1, <2>2 DEF Linked
<1>4. ASSUME NEW c \in Conn, AuthorityHears(c) PROVE Linked'
  <2>1. /\ ~(up /\ c = rep.conn) /\ UNCHANGED <<tick, rep, network>>
        /\ \A d \in Conn : peers'[d] = IF d = c THEN Nobody ELSE peers[d]
    BY <1>4, HearsFacts
  <2>2. up => Me' = Me
    BY <2>1 DEF Me, Typed, WireTyped
  <2> QED
    BY <2>1, <2>2 DEF Linked
<1>5. ASSUME NEW i \in DOMAIN wire, Lose(i) PROVE Linked'
  <2>1. wire' = RemoveAt(wire, i) /\ wire[i].type = "Snapshot" /\ UNCHANGED <<authority, rep, up, acks>>
    BY <1>5 DEF Lose, Reliable
  <2>2. /\ \A j \in 1..Len(wire') : wire'[j].type = "Welcome" => j = 1 /\ ~rep.welcomed
        /\ wire[1].type = "Welcome" => wire' # <<>> /\ wire'[1].type = "Welcome"
    BY <2>1, KeepsWelcome
  <2>3. up /\ Me.welcomed
    BY WireIsWelcomed
  <2> QED
    BY <2>1, <2>2, <2>3 DEF Linked, Me
<1>6. CASE UNCHANGED vars
  BY <1>6 DEF vars, Linked, Me
<1> QED
  BY <1>1, <1>2, <1>3, <1>4, <1>5, <1>6, LinkedReceive, LinkedAuthorityReceive, LinkedSend
     DEF Next

-----------------------------------------------------------------------------
(* What a peer is taken to know. *)

ToldOf == up /\ Me.welcomed => Upto(wire, Len(wire), rep.locals) = Me.known

\* A message received does to the replica's instances what it was to do.
LEMMA ReceiveEffect ==
    ASSUME Typed, Linked, NEW i \in DOMAIN wire, ReplicaReceive(i)
    PROVE  rep'.locals = Effect(wire[i], rep.locals) /\ rep.locals \in SUBSET Ent
<1>0. rep.locals \in SUBSET Ent
  BY DEF Typed, RepTyped, RepType
<1>1. wire[i] \in Messages
  BY ReceiveFacts
<1>2. CASE wire[i].type = "Welcome" /\ Welcome(wire[i].user)
  <2>1. wire[i].user \in Nat
    BY <1>1, <1>2, MessageKinds
  <2>2. rep'.locals = {}
    BY <1>2, <2>1, WelcomeFacts DEF Linked
  <2> QED
    BY <1>0, <1>2, <2>2 DEF Effect, Brings, Takes
<1>3. CASE wire[i].type = "Spawn" /\ OnSpawn(wire[i].ids)
  <2> DEFINE ids == wire[i].ids
  <2>1. ids \in SUBSET Ent /\ OnSpawn(ids)
    BY <1>1, <1>3, MessageKinds
  <2> HIDE DEF ids
  <2>2. rep'.locals = rep.locals \cup ids
    BY <2>1, SpawnFacts
  <2> QED
    BY <1>0, <1>3, <2>1, <2>2 DEF Effect, Brings, Takes, ids
<1>4. CASE wire[i].type = "Despawn" /\ OnDespawn(wire[i].ids)
  <2> DEFINE ids == wire[i].ids
  <2>1. ids \in SUBSET Ent /\ OnDespawn(ids)
    BY <1>1, <1>4, MessageKinds
  <2> HIDE DEF ids
  <2>2. rep'.locals = rep.locals \ ids
    BY <2>1, DespawnFacts
  <2> QED
    BY <1>0, <1>4, <2>1, <2>2 DEF Effect, Brings, Takes, ids
<1>5. CASE IsSnapshot(i) /\ wire[i] \in Snapshots /\ (Applied(wire[i]) \/ Refused(wire[i]))
  <2>1. rep'.locals = rep.locals
    BY <1>5, AppliedFacts DEF Refused
  <2>2. Effect(wire[i], rep.locals) = rep.locals
    BY <1>0, <1>5, SnapshotIsSilent, SilentEffect DEF IsSnapshot
  <2> QED
    BY <1>0, <2>1, <2>2
<1> QED
  BY <1>0, <1>2, <1>3, <1>4, <1>5, ReceiveFacts

\* What is on its way comes to what it came to.
LEMMA ReceiveUpto ==
    ASSUME Typed, Linked, NEW i \in DOMAIN wire, ReplicaReceive(i), NEW n \in i..Len(wire)
    PROVE  Upto(wire', n - 1, rep'.locals) = Upto(wire, n, rep.locals)
<1>1. /\ Deliverable(i) /\ wire' = RemoveAt(wire, i) /\ i \in 1..Len(wire) /\ wire \in Seq(Messages)
  BY ReceiveFacts
<1>2. n \in 1..Len(wire) /\ i \in 1..n
  BY <1>1
<1>3. rep'.locals = Effect(wire[i], rep.locals) /\ rep.locals \in SUBSET Ent
  BY ReceiveEffect
<1>4. CASE wire[i].type = "Snapshot"
  <2>1. Silent(wire[i]) /\ rep'.locals = rep.locals
    BY <1>3, <1>4, SnapshotIsSilent, SilentEffect
  <2> QED
    BY <1>1, <1>2, <2>1, UptoDrop
<1>5. CASE wire[i].type # "Snapshot"
  <2>1. \A j \in 1..(i - 1) : Silent(wire[j])
    BY <1>1, <1>5, ReliableFirst, SnapshotIsSilent DEF IsSnapshot
  <2>2. Upto(RemoveAt(wire, i), n - 1, Effect(wire[i], rep.locals)) = Upto(wire, n, rep.locals)
    BY <1>1, <1>2, <2>1, UptoRemove
  <2> QED
    BY <1>1, <1>3, <2>2
<1> QED
  BY <1>4, <1>5

\* A send adds what makes it the new state.
LEMMA SendUpto ==
    ASSUME Typed, ToldOf, Send, up, Me.welcomed
    PROVE  LET r == SentTo(Me, tick + 1, Now, Hist)
               n == Len(wire) IN
           /\ \A k \in 0..n : Upto(wire', k, rep.locals) = Upto(wire, k, rep.locals)
           /\ Upto(wire', n + (Len(r) - 1), rep.locals) = DOMAIN Now
           /\ Upto(wire', n + Len(r), rep.locals) = DOMAIN Now
<1> DEFINE r == SentTo(Me, tick + 1, Now, Hist)
           n == Len(wire)
<1>1. /\ wire \in Seq(Messages) /\ r \in Seq(Messages) /\ wire' = wire \o r
      /\ n \in Nat /\ Len(r) \in 1..3
      /\ \A j \in 1..n : wire'[j] = wire[j]
  BY SendWire
<1>2. Upto(r, Len(r) - 1, Me.known) = DOMAIN Now
  BY SentToMe
<1>3. Upto(r, Len(r), Me.known) = DOMAIN Now
  BY SentToMe
<1>4. Upto(wire, n, rep.locals) = Me.known
  BY DEF ToldOf
<1> HIDE DEF r
<1>5. Len(r) \in 0..Len(r) /\ Len(r) - 1 \in 0..Len(r)
  <2> DEFINE h == Len(r)
  <2>1. h \in 1..3
    BY <1>1
  <2> HIDE DEF h
  <2>2. h \in 0..h /\ h - 1 \in 0..h
    BY <2>1
  <2> QED
    BY <2>2 DEF h
<1>6. \A k \in 0..n : Upto(wire', k, rep.locals) = Upto(wire, k, rep.locals)
  <2> SUFFICES ASSUME NEW k \in 0..n PROVE Upto(wire', k, rep.locals) = Upto(wire, k, rep.locals)
    OBVIOUS
  <2>1. k \in Nat /\ \A j \in 1..k : wire'[j] = wire[j]
    BY <1>1
  <2> QED
    BY <2>1 DEF Upto
<1>7. \A k \in 0..Len(r) : Upto(wire', n + k, rep.locals) = Upto(r, k, Me.known)
  BY <1>1, <1>4, UptoConcat
<1>8. Upto(wire', n + (Len(r) - 1), rep.locals) = DOMAIN Now
  BY <1>2, <1>5, <1>7
<1>9. Upto(wire', n + Len(r), rep.locals) = DOMAIN Now
  BY <1>3, <1>5, <1>7
<1> QED
  BY <1>6, <1>8, <1>9 DEF r

\* After a send, the peer is taken to know what it has been sent.
LEMMA SendMe ==
    ASSUME Typed, Send, up, Me.welcomed
    PROVE  /\ Me' = Told(Me, tick + 1, Now) /\ Me'.known = DOMAIN Now
           /\ Me'.acked = Me.acked /\ Me'.welcomed = Me.welcomed
           /\ Me'.interest = Newest(Append(Me.interest, [tick |-> tick + 1, ids |-> DOMAIN Now]))
<1> DEFINE t == tick + 1
<1>1. /\ UNCHANGED rep /\ tick \in Nat
      /\ \A d \in Conn : peers[d].welcomed => peers'[d] = Told(peers[d], t, Now)
  BY SendFacts
<1>2. rep.conn \in Conn /\ Me \in PeerType /\ Len(Me.interest) <= StateHistory
  BY DEF Typed, WireTyped, PeersTyped, Me
<1>3. Me' = Told(Me, t, Now)
  BY <1>1, <1>2 DEF Me
<1>4. t \in Nat /\ Now \in States
  BY <1>1, NowIs
<1> HIDE DEF t
<1> DEFINE p == Me
           now == Now
<1>5. p \in PeerType /\ Len(p.interest) <= StateHistory /\ t \in Nat /\ now \in States
  BY <1>2, <1>4
<1> HIDE DEF p, now
<1>6. Told(p, t, now).known = DOMAIN now
  BY <1>5, ToldIs
<1>7. Told(p, t, now).acked = p.acked
  BY <1>5, ToldIs
<1>9. Told(p, t, now).welcomed = p.welcomed
  BY <1>5, ToldIs
<1>8. Told(p, t, now).interest = Newest(Append(p.interest, [tick |-> t, ids |-> DOMAIN now]))
  BY <1>5, ToldIs
<1> QED
  BY <1>3, <1>6, <1>7, <1>8, <1>9 DEF t, p, now

LEMMA ToldInit == Init => ToldOf
BY DEF Init, ToldOf

LEMMA ToldStep ==
    ASSUME Typed, Linked, ToldOf, [Next]_vars,
           \A c \in Conn : ~peers[c].welcomed => peers[c].known = {}
    PROVE  ToldOf'
<1>1. ASSUME NEW e \in Ent, (\E v \in Value : Write(e, v)) \/ Destroy(e) \/ Approach(e) PROVE ToldOf'
  <2>1. UNCHANGED <<authority, rep, network>>
    BY <1>1, WorldSteps
  <2> QED
    BY <2>1 DEF ToldOf, Me
<1>2. CASE Dial
  <2>1. rep'.conn = rep.conn + 1 /\ rep'.conn \in Conn /\ peers'[rep.conn + 1] = Arrived
    BY <1>2, DialFacts
  <2> QED
    BY <2>1, NobodyIs DEF ToldOf, Me
<1>3. CASE Break
  BY <1>3 DEF Break, ToldOf
<1>4. ASSUME NEW c \in Conn, AuthorityHears(c) PROVE ToldOf'
  <2>1. /\ ~(up /\ c = rep.conn) /\ UNCHANGED <<rep, network>>
        /\ \A d \in Conn : peers'[d] = IF d = c THEN Nobody ELSE peers[d]
    BY <1>4, HearsFacts
  <2>2. up => Me' = Me
    BY <2>1 DEF Me, Typed, WireTyped
  <2> QED
    BY <2>1, <2>2 DEF ToldOf
<1>5. ASSUME NEW i \in DOMAIN wire, Lose(i) PROVE ToldOf'
  <2>1. wire' = RemoveAt(wire, i) /\ wire[i].type = "Snapshot" /\ UNCHANGED <<authority, rep, up>>
    BY <1>5 DEF Lose, Reliable
  <2>2. wire \in Seq(Messages) /\ i \in 1..Len(wire) /\ Len(wire) \in 1..Len(wire)
        /\ Len(wire') = Len(wire) - 1
    BY <2>1, Removed DEF Typed, WireTyped
  <2>3. Silent(wire[i])
    BY <2>1, SnapshotIsSilent
  <2>4. Upto(RemoveAt(wire, i), Len(wire) - 1, rep.locals) = Upto(wire, Len(wire), rep.locals)
    BY <2>2, <2>3, UptoDrop
  <2> QED
    BY <2>1, <2>2, <2>4 DEF ToldOf, Me
<1>6. ASSUME NEW i \in DOMAIN wire, ReplicaReceive(i) PROVE ToldOf'
  <2>1. /\ wire' = RemoveAt(wire, i) /\ UNCHANGED <<authority, up>> /\ i \in 1..Len(wire)
    BY <1>6, ReceiveFacts
  <2>2. Len(wire') = Len(wire) - 1 /\ Len(wire) \in i..Len(wire)
    BY <2>1, Removed
  <2>3. rep'.conn = rep.conn
    BY <1>6, ReceiveConn
  <2>4. Upto(wire', Len(wire) - 1, rep'.locals) = Upto(wire, Len(wire), rep.locals)
    BY <1>6, <2>2, ReceiveUpto
  <2> QED
    BY <2>1, <2>2, <2>3, <2>4 DEF ToldOf, Me
<1>7. CASE AuthorityReceive
  <2>0. /\ UNCHANGED <<rep, up>> /\ up /\ rep.conn \in Conn /\ Len(acks) \in Nat \ {0}
        /\ \/ acks[1].type = "Hello" /\ ~peers[rep.conn].welcomed /\ Hello(acks[1].token)
              /\ acks[1].token \in Nat
           \/ acks[1].type = "Ack" /\ Acked(acks[1].tick) /\ acks[1].tick \in Nat
    BY <1>7, AuthorityReceiveFacts
  <2>1. CASE acks[1].type = "Hello" /\ ~Me.welcomed /\ Hello(acks[1].token)
             /\ acks[1].token \in Nat
    <3> DEFINE token == acks[1].token
               user == IF token \in users THEN token ELSE nextUser
               m == [type |-> "Welcome", user |-> user]
    <3>1. wire = <<>> /\ Me.known = {}
      BY <2>0, <2>1 DEF Linked, Me
    <3>2. wire' = Append(wire, m) /\ Me'.known = Me.known
      <4> HIDE DEF token
      <4>1. Hello(token) /\ token \in Nat
        BY <2>1 DEF token
      <4> QED
        BY <2>0, <4>1, HelloFacts DEF Me
    <3>3. \A S \in SUBSET Ent : Effect(m, S) = {}
      BY DEF Effect, Brings, Takes
    <3> HIDE DEF m
    <3>4. Len(wire') = 0 + 1 /\ wire'[0 + 1] = m
      BY <3>1, <3>2
    <3>5. Upto(wire', 0 + 1, rep.locals) = Effect(m, Upto(wire', 0, rep.locals))
      BY <3>4, UptoNext
    <3>6. Upto(wire', 0 + 1, rep.locals) = {}
      BY <3>3, <3>5, UptoIsSet
    <3> QED
      BY <2>0, <3>1, <3>2, <3>4, <3>6 DEF ToldOf
  <2>2. CASE Acked(acks[1].tick) /\ acks[1].tick \in Nat
    BY <2>0, <2>2, AckedFacts DEF ToldOf, Me
  <2> QED
    BY <2>0, <2>1, <2>2 DEF Me
<1>8. CASE Send
  <2>0. UNCHANGED <<rep, up>> /\ (~(up /\ Me.welcomed) => wire' = wire)
    BY <1>8, SendFacts
  <2>1. CASE up /\ Me.welcomed
    <3> DEFINE r == SentTo(Me, tick + 1, Now, Hist)
    <3>1. Upto(wire', Len(wire) + Len(r), rep.locals) = DOMAIN Now
      BY <1>8, <2>1, SendUpto
    <3>2. Len(wire') = Len(wire) + Len(r)
      BY <1>8, <2>1, SendWire
    <3>3. Me'.known = DOMAIN Now
      BY <1>8, <2>1, SendMe
    <3> QED
      BY <2>0, <3>1, <3>2, <3>3 DEF ToldOf
  <2>2. CASE up /\ ~Me.welcomed
    <3>1. rep.conn \in Conn /\ ~peers[rep.conn].welcomed
      BY <2>2 DEF Typed, WireTyped, Me
    <3>2. peers'[rep.conn] = peers[rep.conn]
      BY <1>8, <3>1, SendFacts
    <3> QED
      BY <2>0, <2>2, <3>2 DEF ToldOf, Me
  <2>3. CASE ~up
    BY <2>0, <2>3 DEF ToldOf
  <2> QED
    BY <2>1, <2>2, <2>3
<1>9. CASE UNCHANGED vars
  BY <1>9 DEF vars, ToldOf, Me
<1> QED
  BY <1>1, <1>2, <1>3, <1>4, <1>5, <1>6, <1>7, <1>8, <1>9 DEF Next

-----------------------------------------------------------------------------
(* The peers and the players. *)

Listed ==
    /\ \A c \in Conn : ~peers[c].welcomed => /\ peers[c].known = {} /\ peers[c].acked = 0
                                             /\ peers[c].interest = <<>>
    /\ \A u \in users : u < nextUser
    /\ \A c \in Conn : peers[c].welcomed => peers[c].user \in users
    /\ OneConnectionEach

LEMMA ListedInit == Init => Listed
<1> SUFFICES ASSUME Init PROVE Listed
  OBVIOUS
<1>1. users = {} /\ \A c \in Conn : peers[c] = Nobody
  BY DEF Init
<1> QED
  BY <1>1, NobodyIs DEF Listed, OneConnectionEach

LEMMA ListedHello ==
    ASSUME Typed, Linked, Listed, NEW token \in Nat, Hello(token), rep.conn \in Conn,
           ~peers[rep.conn].welcomed
    PROVE  Listed'
<1> DEFINE c == rep.conn
           user == IF token \in users THEN token ELSE nextUser
<1>1. /\ user \in Nat /\ users' = users \cup {user}
      /\ nextUser' = (IF token \in users THEN nextUser ELSE nextUser + 1)
      /\ \A d \in Conn :
            IF d \in Stale(c, user) THEN peers'[d] = Nobody
            ELSE /\ d = c => /\ peers'[d].there = peers[d].there
                             /\ peers'[d].welcomed /\ peers'[d].user = user
                             /\ peers'[d].acked = peers[d].acked
                             /\ peers'[d].known = peers[d].known
                             /\ peers'[d].interest = peers[d].interest
                 /\ d # c => peers'[d] = peers[d]
      /\ c \notin Stale(c, user)
  BY HelloFacts
<1>2. nextUser \in Nat /\ users \subseteq Nat
  BY DEF Typed, PeersTyped
<1>3. \A u \in users' : u < nextUser'
  <2> SUFFICES ASSUME NEW u \in users' PROVE u < nextUser'
    OBVIOUS
  <2>1. CASE token \in users
    <3>1. u \in users /\ nextUser' = nextUser
      BY <1>1, <2>1
    <3> QED
      BY <3>1 DEF Listed
  <2>2. CASE token \notin users
    <3>1. nextUser' = nextUser + 1 /\ (u \in users \/ u = nextUser)
      BY <1>1, <2>2
    <3>2. u \in users => u < nextUser /\ u \in Nat
      BY <1>2 DEF Listed
    <3> QED
      BY <1>2, <3>1, <3>2
  <2> QED
    BY <2>1, <2>2
<1> HIDE DEF user
<1>4. \A d \in Conn : \/ peers'[d] = Nobody
                      \/ /\ d = c /\ peers'[d].welcomed /\ peers'[d].user = user
                      \/ /\ d # c /\ peers'[d] = peers[d]
                         /\ peers[d].welcomed => peers[d].user # user
  BY <1>1 DEF Stale
<1>5. \A d \in Conn : ~peers'[d].welcomed => /\ peers'[d].known = {} /\ peers'[d].acked = 0
                                             /\ peers'[d].interest = <<>>
  BY <1>4, NobodyIs DEF Listed
<1>6. \A d \in Conn : peers'[d].welcomed => peers'[d].user \in users'
  BY <1>1, <1>4, NobodyIs DEF Listed
<1>7. OneConnectionEach'
  <2> SUFFICES ASSUME NEW d \in Conn, NEW e \in Conn, peers'[d].welcomed, peers'[e].welcomed,
                      peers'[d].user = peers'[e].user
               PROVE  d = e
    BY DEF OneConnectionEach
  <2>1. peers'[d] # Nobody /\ peers'[e] # Nobody
    BY NobodyIs
  <2> QED
    BY <1>4, <2>1 DEF Listed, OneConnectionEach
<1> QED
  BY <1>3, <1>5, <1>6, <1>7 DEF Listed

LEMMA ListedStep == ASSUME Typed, Linked, Listed, [Next]_vars PROVE Listed'
<1>0. peers \in [Conn -> PeerType]
  BY DEF Typed, PeersTyped
<1>1. ASSUME UNCHANGED authority PROVE Listed'
  BY <1>1 DEF Listed, OneConnectionEach
\* A connection that comes or goes is nobody's.
<1>2. ASSUME NEW c \in Conn, NEW new, new = Nobody \/ new = Arrived,
             \A d \in Conn : peers'[d] = IF d = c THEN new ELSE peers[d],
             UNCHANGED <<users, nextUser>>
      PROVE  Listed'
  <2>1. ~new.welcomed /\ new.known = {} /\ new.acked = 0 /\ new.interest = <<>>
    BY <1>2, NobodyIs
  <2>2. \A d \in Conn : peers'[d] = new \/ peers'[d] = peers[d]
    BY <1>2
  <2>3. \A d \in Conn : peers'[d].welcomed => peers'[d] = peers[d]
    BY <2>1, <2>2
  <2>4. OneConnectionEach'
    BY <2>3 DEF Listed, OneConnectionEach
  <2> QED
    BY <1>2, <2>1, <2>2, <2>3, <2>4 DEF Listed
\* Nor does a step make a player of anyone who only is sent to, or answers.
<1>3. ASSUME UNCHANGED <<users, nextUser>>,
             \A d \in Conn : /\ peers'[d].welcomed = peers[d].welcomed
                             /\ peers'[d].user = peers[d].user
                             /\ ~peers[d].welcomed => peers'[d] = peers[d]
      PROVE  Listed'
  <2>1. OneConnectionEach'
    BY <1>3 DEF Listed, OneConnectionEach
  <2> QED
    BY <1>3, <2>1 DEF Listed
<1>4. ASSUME NEW e \in Ent, (\E v \in Value : Write(e, v)) \/ Destroy(e) \/ Approach(e) PROVE Listed'
  BY <1>1, <1>4, WorldSteps
<1>5. CASE Dial
  <2> DEFINE c == rep.conn + 1
  <2>1. c \in Conn /\ UNCHANGED <<users, nextUser>>
        /\ \A d \in Conn : peers'[d] = IF d = c THEN Arrived ELSE peers[d]
    BY <1>5, DialFacts
  <2> HIDE DEF c
  <2> QED
    BY <1>2, <2>1
<1>6. CASE Break
  BY <1>1, <1>6, BreakFacts
<1>7. ASSUME NEW c \in Conn, AuthorityHears(c) PROVE Listed'
  <2>1. UNCHANGED <<users, nextUser>>
        /\ \A d \in Conn : peers'[d] = IF d = c THEN Nobody ELSE peers[d]
    BY <1>7, HearsFacts
  <2> QED
    BY <1>2, <2>1
<1>8. ASSUME NEW i \in DOMAIN wire, Lose(i) \/ ReplicaReceive(i) PROVE Listed'
  <2>1. UNCHANGED authority
    BY <1>8, ReceiveFacts DEF Lose
  <2> QED
    BY <1>1, <2>1
<1>9. CASE AuthorityReceive
  <2>0. /\ up /\ rep.conn \in Conn /\ Len(acks) \in Nat \ {0}
        /\ \/ acks[1].type = "Hello" /\ ~peers[rep.conn].welcomed /\ Hello(acks[1].token)
              /\ acks[1].token \in Nat
           \/ acks[1].type = "Ack" /\ Acked(acks[1].tick) /\ acks[1].tick \in Nat
    BY <1>9, AuthorityReceiveFacts
  <2>1. CASE ~peers[rep.conn].welcomed /\ Hello(acks[1].token) /\ acks[1].token \in Nat
    BY <2>0, <2>1, ListedHello
  <2>2. CASE acks[1].type = "Ack" /\ Acked(acks[1].tick) /\ acks[1].tick \in Nat
    <3> DEFINE c == rep.conn
    <3>1. 1 \in 1..Len(acks)
      BY <2>0
    <3>2. peers[c].welcomed
      BY <2>0, <2>2, <3>1 DEF Linked, Me
    <3>3. /\ UNCHANGED <<users, nextUser>>
          /\ \A d \in Conn : d # c => peers'[d] = peers[d]
          /\ peers'[c].welcomed = peers[c].welcomed /\ peers'[c].user = peers[c].user
      BY <2>0, <2>2, AckedFacts
    <3> HIDE DEF c
    <3> QED
      BY <1>3, <3>2, <3>3
  <2> QED
    BY <2>0, <2>1, <2>2
<1>10. CASE Send
  <2> DEFINE t == tick + 1
  <2>1. /\ UNCHANGED <<users, nextUser>> /\ t \in Nat
        /\ \A d \in Conn : /\ peers[d].welcomed => peers'[d] = Told(peers[d], t, Now)
                           /\ ~peers[d].welcomed => peers'[d] = peers[d]
    BY <1>10, SendFacts
  <2>2. \A d \in Conn : peers[d] \in PeerType /\ Len(peers[d].interest) <= StateHistory
    BY DEF Typed, PeersTyped
  <2> HIDE DEF t
  <2>3. ASSUME NEW d \in Conn
        PROVE  /\ Told(peers[d], t, Now).welcomed = peers[d].welcomed
               /\ Told(peers[d], t, Now).user = peers[d].user
    <3> DEFINE p == peers[d]
               now == Now
    <3>1. p \in PeerType /\ Len(p.interest) <= StateHistory /\ now \in States /\ t \in Nat
      BY <2>1, <2>2, NowIs
    <3> HIDE DEF p, now
    <3>2. Told(p, t, now).welcomed = p.welcomed /\ Told(p, t, now).user = p.user
      BY <3>1, ToldIs
    <3> QED
      BY <3>2 DEF p, now
  <2> QED
    BY <1>3, <2>1, <2>3
<1>11. CASE UNCHANGED vars
  BY <1>1, <1>11 DEF vars
<1> QED
  BY <1>4, <1>5, <1>6, <1>7, <1>8, <1>9, <1>10, <1>11 DEF Next

-----------------------------------------------------------------------------
(* What the replica shows. *)

Fits ==
    /\ DOMAIN rep.written \subseteq rep.locals
    /\ rep.states # <<>> => LET last == Last(rep.states).ents IN
           \A e \in DOMAIN rep.written \cap DOMAIN last : rep.written[e] = last[e]

InOrder == Ordered =>
    /\ rep.states # <<>> => DOMAIN rep.written \subseteq DOMAIN Last(rep.states).ents
    /\ \A i \in 1..Len(wire) : IsSnapshot(i) =>
           Upto(wire, i - 1, rep.locals) = DOMAIN wire[i].checksum

LEMMA LastIs ==
    ASSUME Typed PROVE rep.states # <<>> => /\ Len(rep.states) \in 1..Len(rep.states)
                                            /\ Last(rep.states) = rep.states[Len(rep.states)]
                                            /\ Last(rep.states) \in Moments
<1>1. rep.states \in Seq(Moments)
  BY DEF Typed, RepTyped, RepType
<1> QED
  BY <1>1 DEF Last

\* What the last state becomes.
LEMMA LastScrubbed ==
    ASSUME Typed, NEW ids \in SUBSET Ent, rep.states # <<>>
    PROVE  /\ Scrubbed(ids) # <<>>
           /\ Last(Scrubbed(ids)).tick = Last(rep.states).tick
           /\ Last(Scrubbed(ids)).ents = Only(Last(rep.states).ents, Ent \ ids)
<1> DEFINE n == Len(rep.states)
           s == Scrubbed(ids)
<1>1. n \in 1..n /\ Last(rep.states) = rep.states[n]
  BY LastIs
<1>2. s \in Seq(Moments) /\ Len(s) = n /\ s[n].tick = rep.states[n].tick
      /\ s[n].ents = Only(rep.states[n].ents, Ent \ ids)
  BY <1>1, ScrubbedIs
<1>3. Last(s) = s[n] /\ s # <<>>
  BY <1>1, <1>2 DEF Last
<1> QED
  BY <1>1, <1>2, <1>3

LEMMA LastApplied ==
    ASSUME Typed, NEW s \in Snapshots, Applied(s)
    PROVE  rep'.states # <<>> /\ Last(rep'.states) = [tick |-> s.tick, ents |-> s.checksum]
<1> DEFINE m == [tick |-> s.tick, ents |-> s.checksum]
<1>1. m \in Moments /\ rep'.states = Newest(Append(rep.states, m))
  BY AppliedFacts
<1>2. rep.states \in Seq(Moments) /\ Len(rep.states) <= StateHistory
  BY DEF Typed, RepTyped, RepType
<1> DEFINE r == Newest(Append(rep.states, m))
<1> HIDE DEF m
<1>4. r # <<>> /\ Last(r) = m
  BY <1>1, <1>2, NewestLast
<1> QED
  BY <1>1, <1>4 DEF r, m

LEMMA FitsReceive ==
    ASSUME Typed, Linked, Fits, NEW i \in DOMAIN wire, ReplicaReceive(i) PROVE Fits'
<1>0. wire[i] \in Messages
  BY ReceiveFacts
<1>1. CASE wire[i].type = "Welcome" /\ Welcome(wire[i].user)
  <2>1. wire[i].user \in Nat
    BY <1>0, <1>1, MessageKinds
  <2>2. CASE rep.joined
    BY <1>1, <2>1, <2>2, WelcomeFacts, EmptyIs DEF Fits
  <2>3. CASE ~rep.joined
    BY <1>1, <2>1, <2>3, WelcomeFacts DEF Fits
  <2> QED
    BY <2>2, <2>3
<1>2. CASE wire[i].type = "Spawn" /\ OnSpawn(wire[i].ids)
  <2> DEFINE ids == wire[i].ids
  <2>1. ids \in SUBSET Ent /\ OnSpawn(ids)
    BY <1>0, <1>2, MessageKinds
  <2> HIDE DEF ids
  <2>2. rep'.locals = rep.locals \cup ids /\ rep'.written = rep.written /\ rep'.states = rep.states
    BY <2>1, SpawnFacts
  <2> QED
    BY <2>2 DEF Fits
<1>3. CASE wire[i].type = "Despawn" /\ OnDespawn(wire[i].ids)
  <2> DEFINE ids == wire[i].ids
  <2>1. ids \in SUBSET Ent /\ OnDespawn(ids)
    BY <1>0, <1>3, MessageKinds
  <2> HIDE DEF ids
  <2>2. /\ rep'.locals = rep.locals \ ids /\ rep'.written = Only(rep.written, Ent \ ids)
        /\ rep'.states = Scrubbed(ids)
    BY <2>1, DespawnFacts
  <2>3. rep.written \in States /\ DOMAIN rep.written \subseteq Ent
    BY StateIs DEF Typed, RepTyped, RepType
  <2>4. /\ DOMAIN rep'.written = DOMAIN rep.written \cap (Ent \ ids)
        /\ \A e \in DOMAIN rep.written \cap (Ent \ ids) : rep'.written[e] = rep.written[e]
    BY <2>2 DEF Only
  <2>5. DOMAIN rep'.written \subseteq rep'.locals
    BY <2>2, <2>3, <2>4 DEF Fits
  <2>6. ASSUME rep'.states # <<>>, NEW e \in DOMAIN rep'.written \cap DOMAIN Last(rep'.states).ents
        PROVE  rep'.written[e] = Last(rep'.states).ents[e]
    <3>1. rep.states # <<>>
      <4>1. Scrubbed(ids) \in Seq(Moments) /\ Len(Scrubbed(ids)) = Len(rep.states)
        BY <2>1, ScrubbedIs
      <4>2. Len(rep'.states) # 0
        BY <2>2, <2>6, <4>1
      <4> QED
        BY <2>2, <4>1, <4>2
    <3> DEFINE last == Last(rep.states).ents
    <3>2. last \in States
      BY <3>1, LastIs DEF Moments
    <3>3. Last(rep'.states).ents = Only(last, Ent \ ids)
      BY <2>1, <2>2, <3>1, LastScrubbed
    <3>4. e \in DOMAIN last \cap (Ent \ ids) /\ Last(rep'.states).ents[e] = last[e]
        BY <2>6, <3>3 DEF Only
    <3> QED
      BY <2>4, <2>6, <3>1, <3>4 DEF Fits
  <2> QED
    BY <2>5, <2>6 DEF Fits
<1>4. CASE wire[i] \in Snapshots /\ Applied(wire[i])
  <2> DEFINE s == wire[i]
  <2>1. /\ rep'.written = Shown(s.checksum) /\ rep'.locals = rep.locals
        /\ s.checksum \in States
    BY <1>4, AppliedFacts DEF Snapshots
  <2>2. rep'.states # <<>> /\ Last(rep'.states) = [tick |-> s.tick, ents |-> s.checksum]
    BY <1>4, LastApplied
  <2>3. Last(rep'.states).ents = s.checksum
    BY <2>2
  <2>4. /\ DOMAIN rep'.written = DOMAIN rep.written \cup (DOMAIN s.checksum \cap rep.locals)
        /\ \A e \in DOMAIN rep'.written :
              rep'.written[e] = IF e \in DOMAIN s.checksum THEN s.checksum[e] ELSE rep.written[e]
    BY <2>1 DEF Shown
  <2> HIDE DEF s
  <2> QED
    BY <2>1, <2>3, <2>4 DEF Fits
<1>5. CASE Refused(wire[i])
  BY <1>5 DEF Refused, Fits
<1> QED
  BY <1>1, <1>2, <1>3, <1>4, <1>5, ReceiveFacts

\* No other step changes what the replica has.
LEMMA OtherSteps ==
    ASSUME Typed, [Next]_vars, \A i \in DOMAIN wire : ~ReplicaReceive(i)
    PROVE  /\ rep'.locals = rep.locals /\ rep'.written = rep.written /\ rep'.states = rep.states
           /\ rep'.applied = rep.applied /\ rep'.departed = rep.departed
           /\ rep'.joined = rep.joined
<1>1. ASSUME UNCHANGED rep
      PROVE  /\ rep'.locals = rep.locals /\ rep'.written = rep.written /\ rep'.states = rep.states
             /\ rep'.applied = rep.applied /\ rep'.departed = rep.departed
             /\ rep'.joined = rep.joined
  BY <1>1
<1>2. ASSUME NEW e \in Ent, (\E v \in Value : Write(e, v)) \/ Destroy(e) \/ Approach(e)
      PROVE  UNCHANGED rep
  BY <1>2, WorldSteps
<1>3. ASSUME NEW c \in Conn, AuthorityHears(c) PROVE UNCHANGED rep
  BY <1>3, HearsFacts
<1>4. ASSUME NEW i \in DOMAIN wire, Lose(i) PROVE UNCHANGED rep
  BY <1>4 DEF Lose
<1>5. ASSUME AuthorityReceive \/ Send \/ UNCHANGED vars PROVE UNCHANGED rep
  BY <1>5 DEF AuthorityReceive, Send, vars
<1> QED
  BY <1>1, <1>2, <1>3, <1>4, <1>5, DialFacts, BreakFacts DEF Next

LEMMA FitsStep == ASSUME Typed, Linked, Fits, [Next]_vars PROVE Fits'
<1>1. CASE \A i \in DOMAIN wire : ~ReplicaReceive(i)
  BY <1>1, OtherSteps DEF Fits
<1> QED
  BY <1>1, FitsReceive

LEMMA InOrderReceive ==
    ASSUME Typed, Linked, Fits, InOrder, NEW i \in DOMAIN wire, ReplicaReceive(i) PROVE InOrder'
<1> SUFFICES ASSUME Ordered PROVE InOrder'
  BY DEF InOrder
<1>0. /\ Deliverable(i) /\ wire' = RemoveAt(wire, i) /\ wire \in Seq(Messages)
      /\ wire[i] \in Messages /\ i \in 1..Len(wire)
  BY ReceiveFacts
<1>1. i = 1
  BY <1>0 DEF Deliverable
<1>2. ASSUME NEW j \in 1..Len(wire'), wire'[j].type = "Snapshot"
      PROVE  Upto(wire', j - 1, rep'.locals) = DOMAIN wire'[j].checksum
  <2>1. Len(wire') = Len(wire) - 1 /\ Len(wire) \in Nat
    BY <1>0, Removed
  <2> DEFINE k == IF j < i THEN j ELSE j + 1
  <2>2. wire'[j] = wire[k]
    BY <1>0, Removed
  <2>3. k = j + 1
    BY <1>1
  <2>4. j + 1 \in i..Len(wire) /\ j + 1 \in 1..Len(wire) /\ (j + 1) - 1 = j
    BY <1>1, <2>1
  <2> HIDE DEF k
  <2>5. Upto(wire', (j + 1) - 1, rep'.locals) = Upto(wire, j + 1, rep.locals)
    BY <2>4, ReceiveUpto
  <2>6. wire[j + 1].type = "Snapshot" /\ wire'[j] = wire[j + 1]
    BY <1>2, <2>2, <2>3
  <2>7. Upto(wire, j, rep.locals) = DOMAIN wire[j + 1].checksum
    BY <2>4, <2>6 DEF InOrder, IsSnapshot
  <2>8. Upto(wire', j - 1, rep'.locals) = Upto(wire, j, rep.locals)
    <3>1. j \in 1..Len(wire)
      BY <2>1
    <3>2. j \in i..Len(wire)
      BY <1>1, <3>1
    <3> QED
      BY <3>2, ReceiveUpto
  <2> QED
    BY <2>6, <2>7, <2>8
<1>3. ASSUME rep'.states # <<>> PROVE DOMAIN rep'.written \subseteq DOMAIN Last(rep'.states).ents
  <2>1. CASE wire[i].type = "Welcome" /\ Welcome(wire[i].user)
    <3>1. wire[i].user \in Nat
      BY <1>0, <2>1, MessageKinds
    <3>2. ~rep.joined /\ rep'.written = rep.written
      BY <1>3, <2>1, <3>1, WelcomeFacts
    <3>3. DOMAIN rep.written = {}
      BY <3>2 DEF Linked
    <3> QED
      BY <3>2, <3>3
  <2>2. CASE wire[i].type = "Spawn" /\ OnSpawn(wire[i].ids)
    <3> DEFINE ids == wire[i].ids
    <3>1. ids \in SUBSET Ent /\ OnSpawn(ids)
      BY <1>0, <2>2, MessageKinds
    <3> HIDE DEF ids
    <3>2. rep'.written = rep.written /\ rep'.states = rep.states
      BY <3>1, SpawnFacts
    <3> QED
      BY <1>3, <3>2 DEF InOrder
  <2>3. CASE wire[i].type = "Despawn" /\ OnDespawn(wire[i].ids)
    <3> DEFINE ids == wire[i].ids
    <3>1. ids \in SUBSET Ent /\ OnDespawn(ids)
      BY <1>0, <2>3, MessageKinds
    <3> HIDE DEF ids
    <3>2. rep'.written = Only(rep.written, Ent \ ids) /\ rep'.states = Scrubbed(ids)
      BY <3>1, DespawnFacts
    <3>3. rep.states # <<>>
      <4>1. Scrubbed(ids) \in Seq(Moments) /\ Len(Scrubbed(ids)) = Len(rep.states)
        BY <3>1, ScrubbedIs
      <4>2. Len(rep'.states) # 0
        BY <1>3, <3>2, <4>1
      <4> QED
        BY <3>2, <4>1, <4>2
    <3>4. Last(rep'.states).ents = Only(Last(rep.states).ents, Ent \ ids)
      BY <3>1, <3>2, <3>3, LastScrubbed
    <3>5. DOMAIN rep.written \subseteq DOMAIN Last(rep.states).ents
      BY <3>3 DEF InOrder
    <3> QED
      BY <3>2, <3>4, <3>5 DEF Only
  <2>4. CASE IsSnapshot(i) /\ wire[i] \in Snapshots /\ Applied(wire[i])
    <3> DEFINE s == wire[i]
    <3>1. rep'.written = Shown(s.checksum)
      BY <2>4, AppliedFacts
    <3>2. Last(rep'.states) = [tick |-> s.tick, ents |-> s.checksum]
      BY <2>4, LastApplied
    <3>3. Upto(wire, 0, rep.locals) = DOMAIN s.checksum
      <4>1. Upto(wire, i - 1, rep.locals) = DOMAIN wire[i].checksum
        BY <1>0, <2>4 DEF InOrder
      <4> QED
        BY <1>1, <4>1
    <3>4. rep.locals = DOMAIN s.checksum
      <4>1. rep.locals \subseteq Ent
        BY DEF Typed, RepTyped, RepType
      <4>2. Upto(wire, 0, rep.locals) = rep.locals \cap Ent
        BY UptoNone
      <4> QED
        BY <3>3, <4>1, <4>2
    <3>5. DOMAIN rep'.written = DOMAIN rep.written \cup (DOMAIN s.checksum \cap rep.locals)
      BY <3>1 DEF Shown
    <3>6. Last(rep'.states).ents = s.checksum
      BY <3>2
    <3> HIDE DEF s
    <3> QED
      BY <3>4, <3>5, <3>6 DEF Fits
  <2>5. CASE Refused(wire[i])
    BY <1>3, <2>5 DEF Refused, InOrder
  <2> QED
    BY <2>1, <2>2, <2>3, <2>4, <2>5, ReceiveFacts
<1> QED
  BY <1>2, <1>3 DEF InOrder, IsSnapshot

LEMMA InOrderStep ==
    ASSUME Typed, Linked, ToldOf, Fits, InOrder, [Next]_vars PROVE InOrder'
<1> SUFFICES ASSUME Ordered, \A i \in DOMAIN wire : ~ReplicaReceive(i) PROVE InOrder'
  BY InOrderReceive DEF InOrder
<1>0. /\ rep'.locals = rep.locals /\ rep'.written = rep.written /\ rep'.states = rep.states
  BY OtherSteps
<1>1. ASSUME \A j \in 1..Len(wire') : wire'[j].type = "Snapshot" =>
                 Upto(wire', j - 1, rep.locals) = DOMAIN wire'[j].checksum
      PROVE  InOrder'
  BY <1>0, <1>1 DEF InOrder, IsSnapshot
<1>2. ASSUME wire' = wire \/ wire' = <<>> PROVE InOrder'
  <2>1. CASE wire' = wire
    BY <1>1, <2>1 DEF InOrder, IsSnapshot
  <2>2. CASE wire' = <<>>
    <3>1. 1..Len(wire') = {}
      BY <2>2
    <3> QED
      BY <1>1, <3>1
  <2> QED
    BY <1>2, <2>1, <2>2
<1>3. ASSUME NEW i \in DOMAIN wire, Lose(i) PROVE InOrder'
  <2>1. wire' = RemoveAt(wire, i) /\ wire[i].type = "Snapshot"
    BY <1>3 DEF Lose, Reliable
  <2>2. wire \in Seq(Messages) /\ i \in 1..Len(wire) /\ Len(wire) \in Nat
        /\ Len(wire') = Len(wire) - 1 /\ Silent(wire[i])
    BY <2>1, Removed, SnapshotIsSilent DEF Typed, WireTyped
  <2>3. ASSUME NEW j \in 1..Len(wire'), wire'[j].type = "Snapshot"
        PROVE  Upto(wire', j - 1, rep.locals) = DOMAIN wire'[j].checksum
    <3>0. wire'[j] = wire[IF j < i THEN j ELSE j + 1]
      BY <2>1, Removed
    <3>1. CASE j < i
      <4>1. wire'[j] = wire[j] /\ j \in 1..Len(wire) /\ j - 1 \in 0..(i - 1)
        BY <2>2, <3>0, <3>1
      <4>2. Upto(RemoveAt(wire, i), j - 1, rep.locals) = Upto(wire, j - 1, rep.locals)
        BY <2>2, <4>1, UptoLater
      <4> QED
        BY <2>1, <2>3, <4>1, <4>2 DEF InOrder, IsSnapshot
    <3>2. CASE ~(j < i)
      <4>1. wire'[j] = wire[j + 1] /\ j + 1 \in 1..Len(wire) /\ j \in 1..Len(wire) /\ i \in 1..j
            /\ (j + 1) - 1 = j
        BY <2>2, <3>0, <3>2
      <4>2. Upto(RemoveAt(wire, i), j - 1, rep.locals) = Upto(wire, j, rep.locals)
        BY <2>2, <4>1, UptoDrop
      <4>3. Upto(wire, (j + 1) - 1, rep.locals) = DOMAIN wire[j + 1].checksum
        BY <2>3, <4>1 DEF InOrder, IsSnapshot
      <4> QED
        BY <2>1, <4>1, <4>2, <4>3
    <3> QED
      BY <3>1, <3>2
  <2> QED
    BY <1>1, <2>3
<1>4. CASE AuthorityReceive
  <2>0. /\ up /\ rep.conn \in Conn
        /\ \/ acks[1].type = "Hello" /\ ~peers[rep.conn].welcomed /\ Hello(acks[1].token)
              /\ acks[1].token \in Nat
           \/ acks[1].type = "Ack" /\ Acked(acks[1].tick) /\ acks[1].tick \in Nat
    BY <1>4, AuthorityReceiveFacts
  <2>1. CASE ~peers[rep.conn].welcomed /\ Hello(acks[1].token)
    <3>1. wire = <<>>
      BY <2>0, <2>1 DEF Linked, Me
    <3>2. PICK u : wire' = Append(wire, [type |-> "Welcome", user |-> u])
      BY <2>1 DEF Hello
    <3> DEFINE m == [type |-> "Welcome", user |-> u]
    <3>3. m.type = "Welcome" /\ wire' = Append(<<>>, m)
      BY <3>1, <3>2
    <3> HIDE DEF m
    <3>4. \A j \in 1..Len(wire') : wire'[j].type = "Welcome"
      BY <3>3
    <3> QED
      BY <1>1, <3>4
  <2>2. CASE Acked(acks[1].tick)
    BY <1>2, <2>2 DEF Acked
  <2> QED
    BY <2>0, <2>1, <2>2
<1>5. CASE Send
  <2>1. CASE ~(up /\ Me.welcomed)
    BY <1>2, <1>5, <2>1, SendFacts
  <2>2. CASE up /\ Me.welcomed
    <3> DEFINE r == SentTo(Me, tick + 1, Now, Hist)
               n == Len(wire)
               q == SnapshotFor(Me, tick + 1, Now, Hist)
    <3>1. /\ wire \in Seq(Messages) /\ n \in Nat /\ Len(r) \in 1..3
          /\ \A j \in 1..n : wire'[j] = wire[j]
          /\ \A k \in 1..Len(r) : wire'[n + k] = r[k]
          /\ \A j \in 1..Len(wire') : j \in 1..n \/ (j - n \in 1..Len(r) /\ n + (j - n) = j)
      BY <1>5, <2>2, SendWire
    <3>2. /\ r[Len(r)] = q
          /\ \A k \in 1..Len(r) : k # Len(r) =>
                \/ r[k].type = "Despawn" /\ r[k].ids = Leaves(Me, Now)
                \/ r[k].type = "Spawn" /\ r[k].ids = Enters(Me, Now)
      BY <1>5, <2>2, SentToMe
    <3>3. q.checksum = Now
      BY DEF SnapshotFor
    <3>4. \A k \in 0..n : Upto(wire', k, rep.locals) = Upto(wire, k, rep.locals)
      BY <1>5, <2>2, SendUpto
    <3>5. Upto(wire', n + (Len(r) - 1), rep.locals) = DOMAIN Now
      BY <1>5, <2>2, SendUpto
    <3> HIDE DEF r, q
    <3>6. ASSUME NEW j \in 1..Len(wire'), wire'[j].type = "Snapshot"
          PROVE  Upto(wire', j - 1, rep.locals) = DOMAIN wire'[j].checksum
      <4>1. CASE j \in 1..n
        <5>1. j - 1 \in 0..n /\ wire'[j] = wire[j]
          BY <3>1, <4>1
        <5>2. Upto(wire', j - 1, rep.locals) = Upto(wire, j - 1, rep.locals)
          BY <3>4, <5>1
        <5> QED
          BY <3>6, <4>1, <5>1, <5>2 DEF InOrder, IsSnapshot
      <4>2. CASE j - n \in 1..Len(r) /\ n + (j - n) = j
        <5>1. wire'[j] = r[j - n]
          BY <3>1, <4>2
        <5>2. j - n = Len(r)
          BY <3>2, <3>6, <4>2, <5>1
        <5>3. wire'[j] = q /\ n + (Len(r) - 1) = j - 1
          BY <3>1, <3>2, <5>1, <5>2
        <5> QED
          BY <3>3, <3>5, <5>3
      <4> QED
        BY <3>1, <4>1, <4>2
    <3> QED
      BY <1>1, <3>6
  <2> QED
    BY <2>1, <2>2
<1>6. ASSUME NEW e \in Ent, (\E v \in Value : Write(e, v)) \/ Destroy(e) \/ Approach(e) PROVE InOrder'
  BY <1>2, <1>6, WorldSteps
<1>7. ASSUME NEW c \in Conn, AuthorityHears(c) PROVE InOrder'
  BY <1>2, <1>7, HearsFacts
<1>8. CASE Dial \/ Break \/ UNCHANGED vars
  BY <1>2, <1>8 DEF Dial, Break, vars
<1> QED
  BY <1>3, <1>4, <1>5, <1>6, <1>7, <1>8 DEF Next

-----------------------------------------------------------------------------
(* The theorems. *)

SessionInv == Typed /\ Linked /\ Listed /\ ToldOf /\ Fits /\ InOrder

\* The invariant the others follow from: the types; what each end of the
\* connection takes the other to be; the peers and the players; what a peer is
\* taken to know; what the replica shows, and how it stands to the last state.
THEOREM SessionInvHolds == Spec => []SessionInv
<1>1. Init => SessionInv
  <2> SUFFICES ASSUME Init PROVE SessionInv
    OBVIOUS
  <2>1. Typed /\ Linked /\ Listed /\ ToldOf
    BY TypedInit, LinkedInit, ListedInit, ToldInit
  <2>2. rep.written = Empty /\ rep.states = <<>> /\ wire = <<>>
    BY DEF Init
  <2>3. Fits /\ InOrder
    BY <2>2, EmptyIs DEF Fits, InOrder
  <2> QED
    BY <2>1, <2>3 DEF SessionInv
<1>2. SessionInv /\ [Next]_vars => SessionInv'
  <2> SUFFICES ASSUME SessionInv, [Next]_vars PROVE SessionInv'
    OBVIOUS
  <2>1. Typed /\ Linked /\ Listed /\ ToldOf /\ Fits /\ InOrder
    BY DEF SessionInv
  <2>2. \A c \in Conn : ~peers[c].welcomed => peers[c].known = {}
    BY <2>1 DEF Listed
  <2>3. Typed' /\ Linked' /\ Listed'
    BY <2>1, TypedStep, LinkedStep, ListedStep
  <2>4. ToldOf' /\ Fits' /\ InOrder'
    BY <2>1, <2>2, ToldStep, FitsStep, InOrderStep
  <2> QED
    BY <2>3, <2>4 DEF SessionInv
<1> QED
  BY <1>1, <1>2, PTL DEF Spec

LEMMA ToldIsKnown == ASSUME Typed, ToldOf PROVE KnownIsTold
<1>1. wire \in Seq(Messages)
  BY DEF Typed, WireTyped
<1>2. After(wire, rep.locals) = Upto(wire, Len(wire), rep.locals)
  BY <1>1, AfterIsUpto
<1> QED
  BY <1>2 DEF ToldOf, KnownIsTold, Me

\* What the authority keeps of its peers is true of them, through every loss of a
\* connection and every return: what a peer is taken to know is what its replica
\* has or is about to be told (Peer::known, sendTo, resetForRejoin), and a player
\* has one connection (onHello).
THEOREM PeersExactHolds == Spec => []PeersExact
<1>1. SessionInv => PeersExact
  BY ToldIsKnown, TypedImplies DEF SessionInv, Listed, PeersExact
<1> QED
  BY <1>1, SessionInvHolds, PTL

LEMMA InvOneMoment == ASSUME SessionInv PROVE OneMoment
<1> SUFFICES ASSUME NEW e \in DOMAIN rep.written, up, rep.welcomed, rep.states # <<>>
             PROVE  LET last == Last(rep.states).ents
                    IN  IF e \in DOMAIN last THEN rep.written[e] = last[e]
                        ELSE /\ ~Ordered
                             /\ \/ \E i \in DOMAIN wire : wire[i].type = "Despawn" /\ e \in wire[i].ids
                                \/ e \in peers[rep.conn].known
  BY DEF OneMoment
<1>0. Typed /\ Linked /\ Listed /\ ToldOf /\ Fits /\ InOrder
  BY DEF SessionInv
<1> DEFINE last == Last(rep.states).ents
<1>1. CASE e \in DOMAIN last
  BY <1>0, <1>1 DEF Fits
<1>2. CASE e \notin DOMAIN last
  <2>1. ~Ordered
    BY <1>0, <1>2 DEF InOrder
  <2>2. e \in rep.locals /\ e \in Ent
    BY <1>0 DEF Fits, Typed, RepTyped, RepType
  <2>3. Me.welcomed /\ Upto(wire, Len(wire), rep.locals) = Me.known
    BY <1>0 DEF Linked, ToldOf
  <2>4. DOMAIN wire = 1..Len(wire)
    BY <1>0 DEF Typed, WireTyped
  <2>5. ASSUME NEW j \in 1..Len(wire), Takes(wire[j], e)
        PROVE  wire[j].type = "Despawn" /\ e \in wire[j].ids
    BY <1>0, <2>5 DEF Linked, Takes
  <2>6. CASE \A j \in 1..Len(wire) : ~Takes(wire[j], e)
    BY <1>2, <2>1, <2>2, <2>3, <2>6 DEF Upto, Me
  <2>7. CASE \E j \in 1..Len(wire) : Takes(wire[j], e)
    BY <1>2, <2>1, <2>4, <2>5, <2>7
  <2> QED
    BY <2>6, <2>7
<1> QED
  BY <1>1, <1>2

\* What a replica shows of an instance is what the state it applied last says of
\* it; in one ordered stream it shows nothing besides (applyToWorld, forget).
THEOREM OneMomentHolds == Spec => []OneMoment
<1>1. SessionInv => OneMoment
  BY InvOneMoment
<1> QED
  BY <1>1, SessionInvHolds, PTL

\* A replica's world moves forward only, until a welcome starts it again
\* (onSnapshot's first test, resetForRejoin).
THEOREM NeverBackHolds == Spec => NeverBack
<1>1. SessionInv /\ [Next]_vars => [rep'.applied >= rep.applied \/ rep'.applied = 0]_vars
  <2> SUFFICES ASSUME SessionInv, [Next]_vars
               PROVE  rep'.applied >= rep.applied \/ rep'.applied = 0
    OBVIOUS
  <2>0. Typed /\ rep.applied \in Nat
    BY DEF SessionInv, Typed, RepTyped, RepType
  <2>1. CASE \A i \in DOMAIN wire : ~ReplicaReceive(i)
    BY <2>0, <2>1, OtherSteps
  <2>2. ASSUME NEW i \in DOMAIN wire, ReplicaReceive(i)
        PROVE  rep'.applied >= rep.applied \/ rep'.applied = 0
    <3>0. wire[i] \in Messages
      BY <2>0, <2>2, ReceiveFacts
    <3>1. CASE wire[i].type = "Welcome" /\ Welcome(wire[i].user)
      <4>1. wire[i].user \in Nat
        BY <3>0, <3>1, MessageKinds
      <4> QED
        BY <2>0, <3>1, <4>1, WelcomeFacts
    <3>2. CASE wire[i].type = "Spawn" /\ OnSpawn(wire[i].ids)
      <4> DEFINE ids == wire[i].ids
      <4>1. ids \in SUBSET Ent /\ OnSpawn(ids)
        BY <3>0, <3>2, MessageKinds
      <4> HIDE DEF ids
      <4>2. rep'.applied = rep.applied
        BY <2>0, <4>1, SpawnFacts
      <4> QED
        BY <2>0, <4>2
    <3>3. CASE wire[i].type = "Despawn" /\ OnDespawn(wire[i].ids)
      <4> DEFINE ids == wire[i].ids
      <4>1. ids \in SUBSET Ent /\ OnDespawn(ids)
        BY <3>0, <3>3, MessageKinds
      <4> HIDE DEF ids
      <4>2. rep'.applied = rep.applied
        BY <2>0, <4>1, DespawnFacts
      <4> QED
        BY <2>0, <4>2
    <3>4. CASE wire[i] \in Snapshots /\ Applied(wire[i])
      <4>1. rep'.applied = wire[i].tick /\ wire[i].tick > rep.applied
        BY <2>0, <3>4, AppliedFacts
      <4>2. wire[i].tick \in Nat
        BY <3>4 DEF Snapshots
      <4> QED
        BY <2>0, <4>1, <4>2
    <3>5. CASE Refused(wire[i])
      BY <2>0, <3>5 DEF Refused
    <3> QED
      BY <2>0, <2>2, <3>1, <3>2, <3>3, <3>4, <3>5, ReceiveFacts
  <2> QED
    BY <2>1, <2>2
<1> QED
  BY <1>1, SessionInvHolds, PTL DEF Spec, NeverBack

-----------------------------------------------------------------------------
(* What is remembered, and when it was. *)

\* The states and the interests are those of the last sends, one after another.
Consecutive(s, t) == \A i \in 1..Len(s) : s[i].tick + Len(s) = t + i
Rising(s)         == \A i, j \in 1..Len(s) : i < j => s[i].tick < s[j].tick

Dated ==
    /\ Consecutive(history, tick)
    /\ \A c \in Conn : peers[c].welcomed => Consecutive(peers[c].interest, tick)
    /\ Rising(rep.states) /\ \A i \in 1..Len(rep.states) : rep.states[i].tick <= rep.applied
    /\ rep.departed \cap rep.locals = {}
    /\ \A c \in Conn : peers[c].acked <= tick
    /\ calm <= StateHistory

LEMMA ConsecutiveAppend ==
    ASSUME NEW M, NEW s \in Seq(M), NEW x \in M, Len(s) <= StateHistory,
           \A m \in M : m.tick \in Nat, NEW t \in Nat, Consecutive(s, t), x.tick = t + 1
    PROVE  Consecutive(Newest(Append(s, x)), t + 1)
<1> DEFINE r == Newest(Append(s, x))
<1>1. \E d \in {0, 1} : Shifted(r, s, x, d)
  BY NewestShift
<1>2. Len(s) \in Nat /\ \A i \in 1..Len(s) : s[i].tick \in Nat
  OBVIOUS
<1> HIDE DEF r
<1>3. PICK d \in {0, 1} :
         /\ Len(r) = Len(s) + 1 - d
         /\ \A k \in 1..Len(r) : /\ k + d \in 1..(Len(s) + 1)
                                 /\ r[k] = IF k + d = Len(s) + 1 THEN x ELSE s[k + d]
  BY <1>1 DEF Shifted
<1>4. ASSUME NEW k \in 1..Len(r) PROVE r[k].tick + Len(r) = (t + 1) + k
  <2>1. k + d \in 1..(Len(s) + 1) /\ r[k] = IF k + d = Len(s) + 1 THEN x ELSE s[k + d]
    BY <1>3
  <2>2. CASE k + d = Len(s) + 1
    <3>1. r[k] = x /\ k = Len(r)
      BY <1>2, <1>3, <2>1, <2>2
    <3> QED
      BY <1>2, <3>1
  <2>3. CASE k + d # Len(s) + 1
    <3>1. k + d \in 1..Len(s) /\ r[k] = s[k + d]
      BY <1>2, <1>3, <2>1, <2>3
    <3>2. s[k + d].tick + Len(s) = t + (k + d) /\ s[k + d].tick \in Nat
      BY <1>2, <3>1 DEF Consecutive
    <3> DEFINE v == s[k + d].tick
               n == Len(s)
               h == Len(r)
    <3>3. h = n + 1 - d /\ (d = 0 \/ d = 1) /\ k \in Nat /\ n \in Nat
      BY <1>2, <1>3
    <3>4. v \in Nat /\ v + n = t + (k + d) /\ r[k].tick = v
      BY <3>1, <3>2
    <3> HIDE DEF v, n, h
    <3>5. v + h = (t + 1) + k
      BY <3>3, <3>4
    <3> QED
      BY <3>4, <3>5 DEF h
  <2> QED
    BY <2>2, <2>3
<1>5. Consecutive(r, t + 1)
  BY <1>4 DEF Consecutive
<1> QED
  BY <1>5 DEF r

LEMMA RisingAppend ==
    ASSUME NEW M, NEW s \in Seq(M), NEW x \in M, Len(s) <= StateHistory,
           \A m \in M : m.tick \in Nat, Rising(s), NEW b \in Nat,
           \A i \in 1..Len(s) : s[i].tick <= b, b < x.tick
    PROVE  /\ Rising(Newest(Append(s, x)))
           /\ \A i \in 1..Len(Newest(Append(s, x))) : Newest(Append(s, x))[i].tick <= x.tick
<1> DEFINE r == Newest(Append(s, x))
<1>1. \E d \in {0, 1} : Shifted(r, s, x, d)
  BY NewestShift
<1>2. Len(s) \in Nat /\ x.tick \in Nat /\ \A i \in 1..Len(s) : s[i].tick \in Nat
  OBVIOUS
<1> HIDE DEF r
<1>3. PICK d \in {0, 1} :
         /\ Len(r) = Len(s) + 1 - d
         /\ \A k \in 1..Len(r) : /\ k + d \in 1..(Len(s) + 1)
                                 /\ r[k] = IF k + d = Len(s) + 1 THEN x ELSE s[k + d]
  BY <1>1 DEF Shifted
<1>4. \A k \in 1..Len(r) :
         \/ k = Len(r) /\ r[k] = x
         \/ k # Len(r) /\ k + d \in 1..Len(s) /\ r[k] = s[k + d] /\ s[k + d].tick < x.tick
  <2> SUFFICES ASSUME NEW k \in 1..Len(r)
               PROVE  \/ k = Len(r) /\ r[k] = x
                      \/ k # Len(r) /\ k + d \in 1..Len(s) /\ r[k] = s[k + d] /\ s[k + d].tick < x.tick
    OBVIOUS
  <2>1. k + d \in 1..(Len(s) + 1) /\ r[k] = IF k + d = Len(s) + 1 THEN x ELSE s[k + d]
    BY <1>3
  <2>2. CASE k + d = Len(s) + 1
    BY <1>2, <1>3, <2>1, <2>2
  <2>3. CASE k + d # Len(s) + 1
    <3>1. k + d \in 1..Len(s) /\ k # Len(r)
      BY <1>2, <1>3, <2>1, <2>3
    <3>2. s[k + d].tick <= b /\ s[k + d].tick \in Nat
      BY <1>2, <3>1
    <3>3. s[k + d].tick < x.tick
      BY <1>2, <3>2
    <3> QED
      BY <2>1, <2>3, <3>1, <3>3
  <2> QED
    BY <2>2, <2>3
<1>5. ASSUME NEW i \in 1..Len(r), NEW j \in 1..Len(r), i < j PROVE r[i].tick < r[j].tick
  <2>1. i # Len(r) /\ i \in Nat /\ j \in Nat
    BY <1>2, <1>3, <1>5
  <2>2. i + d \in 1..Len(s) /\ r[i] = s[i + d] /\ s[i + d].tick < x.tick
    BY <1>4, <2>1
  <2>3. CASE r[j] = x
    BY <2>2, <2>3
  <2>4. CASE j + d \in 1..Len(s) /\ r[j] = s[j + d]
    <3>1. i + d < j + d
      BY <1>5, <2>1
    <3> QED
      BY <2>2, <2>4, <3>1 DEF Rising
  <2> QED
    BY <1>4, <2>3, <2>4
<1>6. \A i \in 1..Len(r) : r[i].tick <= x.tick
  <2> SUFFICES ASSUME NEW i \in 1..Len(r) PROVE r[i].tick <= x.tick
    OBVIOUS
  <2>1. CASE r[i] = x
    BY <1>2, <2>1
  <2>2. CASE i + d \in 1..Len(s) /\ r[i] = s[i + d] /\ s[i + d].tick < x.tick
    BY <1>2, <2>2
  <2> QED
    BY <1>4, <2>1, <2>2
<1>7. Rising(r)
  BY <1>5 DEF Rising
<1> QED
  BY <1>6, <1>7 DEF r

\* There is one entry of a tick.
LEMMA ConsecutiveAt ==
    ASSUME NEW M, NEW s \in Seq(M), \A m \in M : m.tick \in Nat, NEW t \in Nat,
           Consecutive(s, t), NEW i \in 1..Len(s)
    PROVE  Holds(s, s[i].tick) /\ At(s, s[i].tick) = s[i]
<1>1. Len(s) \in Nat /\ DOMAIN s = 1..Len(s) /\ \A k \in 1..Len(s) : s[k].tick \in Nat
  OBVIOUS
<1>2. Holds(s, s[i].tick)
  BY <1>1 DEF Holds
<1>3. PICK j \in 1..Len(s) : At(s, s[i].tick) = s[j] /\ s[j].tick = s[i].tick
  BY <1>2, AtIs
<1>4. s[j].tick + Len(s) = t + j /\ s[i].tick + Len(s) = t + i
  BY DEF Consecutive
<1>5. i = j
  BY <1>1, <1>3, <1>4
<1> QED
  BY <1>2, <1>3, <1>5

LEMMA RisingAt ==
    ASSUME NEW M, NEW s \in Seq(M), \A m \in M : m.tick \in Nat, Rising(s), NEW i \in 1..Len(s)
    PROVE  Holds(s, s[i].tick) /\ At(s, s[i].tick) = s[i]
<1>1. Len(s) \in Nat /\ DOMAIN s = 1..Len(s) /\ \A k \in 1..Len(s) : s[k].tick \in Nat
  OBVIOUS
<1>2. Holds(s, s[i].tick)
  BY <1>1 DEF Holds
<1>3. PICK j \in 1..Len(s) : At(s, s[i].tick) = s[j] /\ s[j].tick = s[i].tick
  BY <1>2, AtIs
<1>4. ~(i < j) /\ ~(j < i)
  <2>1. s[i].tick \in Nat /\ s[j].tick \in Nat
    BY <1>1
  <2> QED
    BY <1>3, <2>1 DEF Rising
<1>5. i = j
  BY <1>1, <1>4
<1> QED
  BY <1>2, <1>3, <1>5

\* A history of two keeps the one before the last.
LEMMA NewestPrevious ==
    ASSUME NEW M, NEW s \in Seq(M), NEW x \in M, Len(s) <= StateHistory,
           StateHistory >= 2, s # <<>>
    PROVE  LET r == Newest(Append(s, x)) IN
           r \in Seq(M) /\ \E k \in 1..Len(r) : r[k] = Last(s)
<1> DEFINE r == Newest(Append(s, x))
<1>0. r \in Seq(M)
  BY NewestAppend
<1>1. \E d \in {0, 1} : Shifted(r, s, x, d)
  BY NewestShift
<1>2. Len(s) \in Nat \ {0} /\ Last(s) = s[Len(s)]
  BY DEF Last
<1> HIDE DEF r
<1>3. PICK d \in {0, 1} :
         /\ Len(r) = Len(s) + 1 - d
         /\ d = 1 => Len(s) = StateHistory
         /\ \A k \in 1..Len(r) : /\ k + d \in 1..(Len(s) + 1)
                                 /\ r[k] = IF k + d = Len(s) + 1 THEN x ELSE s[k + d]
  BY <1>1 DEF Shifted
<1>4. Len(r) - 1 \in 1..Len(r) /\ (Len(r) - 1) + d = Len(s)
  BY <1>2, <1>3
<1>5. r[Len(r) - 1] = s[Len(s)]
  <2> DEFINE k == Len(r) - 1
  <2>1. k \in 1..Len(r) /\ k + d = Len(s) /\ k + d # Len(s) + 1
    BY <1>2, <1>4
  <2> HIDE DEF k
  <2>2. r[k] = s[k + d]
    BY <1>3, <2>1
  <2> QED
    BY <2>1, <2>2 DEF k
<1> QED
  BY <1>0, <1>2, <1>4, <1>5 DEF r

LEMMA DatedReceive ==
    ASSUME Typed, Linked, Dated, NEW i \in DOMAIN wire, ReplicaReceive(i) PROVE Dated'
<1>0. /\ UNCHANGED <<authority, calm>> /\ wire[i] \in Messages
  BY ReceiveFacts
<1>1. rep \in RepType /\ rep.states \in Seq(Moments) /\ Len(rep.states) <= StateHistory
  BY DEF Typed, RepTyped, RepType
<1>2. \A m \in Moments : m.tick \in Nat
  BY DEF Moments
<1>3. ASSUME rep'.departed \cap rep'.locals = {}, Rising(rep'.states),
             \A k \in 1..Len(rep'.states) : rep'.states[k].tick <= rep'.applied
      PROVE  Dated'
  BY <1>0, <1>3 DEF Dated, Consecutive
<1>4. Rising(rep.states) /\ (\A k \in 1..Len(rep.states) : rep.states[k].tick <= rep.applied)
      /\ rep.departed \cap rep.locals = {}
  BY DEF Dated
<1>5. CASE wire[i].type = "Welcome" /\ Welcome(wire[i].user)
  <2>1. wire[i].user \in Nat
    BY <1>0, <1>5, MessageKinds
  <2>2. CASE rep.joined
    <3>1. rep'.locals = {} /\ rep'.states = <<>>
      BY <1>5, <2>1, <2>2, WelcomeFacts
    <3>2. 1..Len(rep'.states) = {}
      BY <3>1
    <3> QED
      BY <1>3, <3>1, <3>2 DEF Rising
  <2>3. CASE ~rep.joined
    <3>1. /\ rep'.locals = rep.locals /\ rep'.departed = rep.departed
          /\ rep'.states = rep.states /\ rep'.applied = rep.applied
      BY <1>5, <2>1, <2>3, WelcomeFacts
    <3> QED
      BY <1>3, <1>4, <3>1
  <2> QED
    BY <2>2, <2>3
<1>6. CASE wire[i].type = "Spawn" /\ OnSpawn(wire[i].ids)
  <2> DEFINE ids == wire[i].ids
  <2>1. ids \in SUBSET Ent /\ OnSpawn(ids)
    BY <1>0, <1>6, MessageKinds
  <2> HIDE DEF ids
  <2>2. /\ rep'.locals = rep.locals \cup ids /\ rep'.departed = rep.departed \ (ids \ rep.locals)
        /\ rep'.states = rep.states /\ rep'.applied = rep.applied
    BY <2>1, SpawnFacts
  <2>3. rep'.departed \cap rep'.locals = {}
    BY <1>4, <2>2
  <2> QED
    BY <1>3, <1>4, <2>2, <2>3
<1>7. CASE wire[i].type = "Despawn" /\ OnDespawn(wire[i].ids)
  <2> DEFINE ids == wire[i].ids
  <2>1. ids \in SUBSET Ent /\ OnDespawn(ids)
    BY <1>0, <1>7, MessageKinds
  <2> HIDE DEF ids
  <2>2. /\ rep'.locals = rep.locals \ ids /\ rep'.departed = rep.departed \cup ids
        /\ rep'.states = Scrubbed(ids) /\ rep'.applied = rep.applied
    BY <2>1, DespawnFacts
  <2>3. rep'.departed \cap rep'.locals = {}
    BY <1>4, <2>2
  <2>4. /\ Len(rep'.states) = Len(rep.states)
        /\ \A k \in 1..Len(rep.states) : rep'.states[k].tick = rep.states[k].tick
    <3>1. Len(Scrubbed(ids)) = Len(rep.states)
      BY <2>1, ScrubbedIs
    <3>2. \A k \in 1..Len(rep.states) : Scrubbed(ids)[k].tick = rep.states[k].tick
      BY <2>1, ScrubbedIs
    <3> QED
      BY <2>2, <3>1, <3>2
  <2>5. Rising(rep'.states)
    BY <1>4, <2>4 DEF Rising
  <2>6. \A k \in 1..Len(rep'.states) : rep'.states[k].tick <= rep'.applied
    BY <1>4, <2>2, <2>4
  <2> QED
    BY <1>3, <2>3, <2>5, <2>6
<1>8. CASE wire[i] \in Snapshots /\ Applied(wire[i])
  <2> DEFINE m == [tick |-> wire[i].tick, ents |-> wire[i].checksum]
             b == rep.applied
             s == rep.states
  <2>1. /\ m \in Moments /\ rep'.states = Newest(Append(s, m))
        /\ rep'.applied = wire[i].tick /\ wire[i].tick > rep.applied
        /\ rep'.locals = rep.locals /\ rep'.departed = rep.departed
    BY <1>8, AppliedFacts
  <2>2. b \in Nat /\ b < m.tick /\ rep'.applied = m.tick
    BY <1>1, <1>8, <2>1 DEF RepType, Snapshots
  <2>3. s \in Seq(Moments) /\ Len(s) <= StateHistory /\ Rising(s)
        /\ \A k \in 1..Len(s) : s[k].tick <= b
    BY <1>1, <1>4
  <2> HIDE DEF m, b, s
  <2>4. Rising(Newest(Append(s, m)))
    BY <1>2, <2>1, <2>2, <2>3, RisingAppend
  <2>5. \A k \in 1..Len(Newest(Append(s, m))) : Newest(Append(s, m))[k].tick <= m.tick
    BY <1>2, <2>1, <2>2, <2>3, RisingAppend
  <2> QED
    BY <1>3, <1>4, <2>1, <2>2, <2>4, <2>5
<1>9. CASE Refused(wire[i])
  BY <1>3, <1>4, <1>9 DEF Refused
<1> QED
  BY <1>5, <1>6, <1>7, <1>8, <1>9, ReceiveFacts

LEMMA DatedStep == ASSUME Typed, Linked, Listed, Dated, [Next]_vars PROVE Dated'
<1> SUFFICES ASSUME \A i \in DOMAIN wire : ~ReplicaReceive(i) PROVE Dated'
  BY DatedReceive
<1>0. /\ rep'.locals = rep.locals /\ rep'.departed = rep.departed
      /\ rep'.states = rep.states /\ rep'.applied = rep.applied
      /\ peers \in [Conn -> PeerType] /\ tick \in Nat /\ calm \in Nat
  BY OtherSteps DEF Typed, PeersTyped, HistoryTyped, WireTyped
<1>1. ASSUME Consecutive(history', tick'),
             \A c \in Conn : peers'[c].welcomed => Consecutive(peers'[c].interest, tick'),
             \A c \in Conn : peers'[c].acked <= tick', calm' <= StateHistory
      PROVE  Dated'
  BY <1>0, <1>1 DEF Dated
<1>2. Consecutive(history, tick) /\ calm <= StateHistory /\ 0 <= StateHistory /\ 0 <= tick
      /\ \A c \in Conn : /\ peers[c].welcomed => Consecutive(peers[c].interest, tick)
                         /\ peers[c].acked <= tick
  BY <1>0 DEF Dated
<1>3. ASSUME UNCHANGED authority, calm' = 0 \/ calm' = calm PROVE Dated'
  BY <1>1, <1>2, <1>3
<1>4. ASSUME NEW c \in Conn, NEW new, new = Nobody \/ new = Arrived,
             \A d \in Conn : peers'[d] = IF d = c THEN new ELSE peers[d],
             UNCHANGED <<tick, history>>, calm' = 0 \/ calm' = calm
      PROVE  Dated'
  <2>1. ~new.welcomed /\ new.acked = 0
    BY <1>4, NobodyIs
  <2>2. \A d \in Conn : peers'[d].welcomed => Consecutive(peers'[d].interest, tick')
    BY <1>2, <1>4, <2>1
  <2>3. \A d \in Conn : peers'[d].acked <= tick'
    BY <1>2, <1>4, <2>1
  <2> QED
    BY <1>1, <1>2, <1>4, <2>2, <2>3
<1>5. ASSUME NEW e \in Ent, (\E v \in Value : Write(e, v)) \/ Destroy(e) \/ Approach(e) PROVE Dated'
  BY <1>3, <1>5, WorldSteps
<1>6. CASE Dial
  <2> DEFINE c == rep.conn + 1
  <2>1. c \in Conn /\ UNCHANGED <<tick, history>> /\ calm' = 0
        /\ \A d \in Conn : peers'[d] = IF d = c THEN Arrived ELSE peers[d]
    BY <1>6, DialFacts
  <2> HIDE DEF c
  <2> QED
    BY <1>4, <2>1
<1>7. CASE Break
  BY <1>3, <1>7, BreakFacts
<1>8. ASSUME NEW c \in Conn, AuthorityHears(c) PROVE Dated'
  <2>1. UNCHANGED <<tick, history, calm>>
        /\ \A d \in Conn : peers'[d] = IF d = c THEN Nobody ELSE peers[d]
    BY <1>8, HearsFacts
  <2> QED
    BY <1>4, <2>1
<1>9. ASSUME NEW i \in DOMAIN wire, Lose(i) PROVE Dated'
  BY <1>3, <1>9 DEF Lose
<1>10. CASE AuthorityReceive
  <2>0. /\ UNCHANGED <<tick, history, calm>> /\ up /\ rep.conn \in Conn /\ Len(acks) \in Nat \ {0}
        /\ \/ acks[1].type = "Hello" /\ ~peers[rep.conn].welcomed /\ Hello(acks[1].token)
              /\ acks[1].token \in Nat
           \/ acks[1].type = "Ack" /\ Acked(acks[1].tick) /\ acks[1].tick \in Nat
    BY <1>10, AuthorityReceiveFacts
  <2> DEFINE c == rep.conn
  <2>1. CASE ~peers[rep.conn].welcomed /\ Hello(acks[1].token) /\ acks[1].token \in Nat
    <3> DEFINE token == acks[1].token
               user == IF token \in users THEN token ELSE nextUser
    <3>1. \A d \in Conn :
             IF d \in Stale(c, user) THEN peers'[d] = Nobody
             ELSE /\ d = c => /\ peers'[d].there = peers[d].there
                              /\ peers'[d].welcomed /\ peers'[d].user = user
                              /\ peers'[d].acked = peers[d].acked
                              /\ peers'[d].known = peers[d].known
                              /\ peers'[d].interest = peers[d].interest
                  /\ d # c => peers'[d] = peers[d]
      <4> HIDE DEF token
      <4>1. Hello(token) /\ token \in Nat
        BY <2>1 DEF token
      <4> QED
        BY <2>0, <4>1, HelloFacts
    <3>2. peers[c].interest = <<>>
      BY <2>0, <2>1 DEF Listed
    <3>3. Consecutive(<<>>, tick)
      BY DEF Consecutive
    <3> HIDE DEF user, c
    <3>4. \A d \in Conn : peers'[d] = Nobody \/ peers'[d] = peers[d]
                          \/ (d = c /\ peers'[d].acked = peers[d].acked
                              /\ peers'[d].interest = peers[d].interest)
      BY <3>1
    <3>5. \A d \in Conn : peers'[d].welcomed => Consecutive(peers'[d].interest, tick)
      BY <1>2, <3>2, <3>3, <3>4, NobodyIs
    <3>6. \A d \in Conn : peers'[d].acked <= tick
      BY <1>2, <3>4, NobodyIs
    <3> QED
      BY <1>1, <1>2, <2>0, <3>5, <3>6
  <2>2. CASE acks[1].type = "Ack" /\ Acked(acks[1].tick) /\ acks[1].tick \in Nat
    <3>1. 1 \in 1..Len(acks)
      BY <2>0
    <3>2. acks[1].tick <= tick
      BY <2>0, <2>2, <3>1 DEF Linked, Me
    <3>3. /\ \A d \in Conn : d # c => peers'[d] = peers[d]
          /\ peers'[c].welcomed = peers[c].welcomed /\ peers'[c].interest = peers[c].interest
          /\ peers'[c].acked = (IF acks[1].tick > peers[c].acked THEN acks[1].tick ELSE peers[c].acked)
      BY <2>0, <2>2, AckedFacts
    <3> HIDE DEF c
    <3>4. \A d \in Conn : peers'[d].acked <= tick
      BY <1>2, <3>2, <3>3
    <3>5. \A d \in Conn : peers'[d].welcomed => Consecutive(peers'[d].interest, tick)
      BY <1>2, <3>3
    <3> QED
      BY <1>1, <1>2, <2>0, <3>4, <3>5
  <2> QED
    BY <2>0, <2>1, <2>2
<1>11. CASE Send
  <2> DEFINE t == tick + 1
             x == [tick |-> t, ents |-> world]
  <2>1. /\ tick' = t /\ t \in Nat
        /\ history' = Newest(Append(history, x))
        /\ \A d \in Conn : /\ peers[d].welcomed => peers'[d] = Told(peers[d], t, Now)
                           /\ ~peers[d].welcomed => peers'[d] = peers[d]
        /\ calm' = 0 \/ calm' = calm + (IF calm < StateHistory THEN 1 ELSE 0)
    BY <1>0, <1>11, SendFacts DEF Hist
  <2>2. calm' <= StateHistory
    BY <1>0, <1>2, <2>1
  <2>3. Consecutive(history', t)
    <3>1. history \in Seq(Moments) /\ Len(history) <= StateHistory /\ x \in Moments
          /\ \A m \in Moments : m.tick \in Nat
      BY <1>0 DEF Typed, HistoryTyped, WorldTyped, Moments
    <3>2. x.tick = tick + 1
      OBVIOUS
    <3> HIDE DEF x
    <3> QED
      BY <1>0, <1>2, <2>1, <3>1, <3>2, ConsecutiveAppend
  <2>4. ASSUME NEW d \in Conn, peers[d].welcomed
        PROVE  /\ peers'[d].acked = peers[d].acked
               /\ Consecutive(peers'[d].interest, t)
    <3> DEFINE p == peers[d]
               now == Now
               z == [tick |-> t, ids |-> DOMAIN now]
    <3>1. /\ p \in PeerType /\ Len(p.interest) <= StateHistory /\ now \in States
          /\ p.interest \in Seq(Interests) /\ Consecutive(p.interest, tick)
          /\ DOMAIN now \subseteq Ent
      BY <1>0, <1>2, <2>4, NowIs DEF Typed, PeersTyped, PeerType
    <3>2. peers'[d] = Told(p, t, now)
      BY <2>1, <2>4
    <3> HIDE DEF p, now
    <3>3. z \in Interests /\ z.tick = t
      BY <1>0, <3>1 DEF Interests
    <3>4. Told(p, t, now).acked = p.acked /\ Told(p, t, now).interest = Newest(Append(p.interest, z))
      BY <2>1, <3>1, ToldIs
    <3>5. \A m \in Interests : m.tick \in Nat
      BY DEF Interests
    <3> HIDE DEF z
    <3>6. Consecutive(Newest(Append(p.interest, z)), tick + 1)
      BY <1>0, <3>1, <3>3, <3>5, ConsecutiveAppend
    <3> QED
      BY <3>2, <3>4, <3>6 DEF p
  <2>5. \A d \in Conn : peers'[d].acked <= t
    <3> SUFFICES ASSUME NEW d \in Conn PROVE peers'[d].acked <= t
      OBVIOUS
    <3>1. peers[d].acked \in Nat /\ peers[d].acked <= tick
      BY <1>0, <1>2 DEF PeerType
    <3>2. peers'[d].acked = peers[d].acked
      BY <2>1, <2>4
    <3> QED
      BY <1>0, <3>1, <3>2
  <2>6. \A d \in Conn : peers'[d].welcomed => Consecutive(peers'[d].interest, t)
    BY <2>1, <2>4
  <2> HIDE DEF t
  <2> QED
    BY <1>1, <2>1, <2>2, <2>3, <2>5, <2>6
<1>12. CASE UNCHANGED vars
  BY <1>3, <1>12 DEF vars
<1> QED
  BY <1>5, <1>6, <1>7, <1>8, <1>9, <1>10, <1>11, <1>12 DEF Next

LEMMA DatedInit == Init => Dated
<1> SUFFICES ASSUME Init PROVE Dated
  OBVIOUS
<1>1. history = <<>> /\ tick = 0 /\ calm = 0 /\ rep.states = <<>> /\ rep.locals = {}
      /\ \A c \in Conn : peers[c] = Nobody
  BY DEF Init
<1>2. 1..Len(history) = {} /\ 1..Len(rep.states) = {} /\ 0 <= StateHistory
  BY <1>1
<1> QED
  BY <1>1, <1>2, NobodyIs DEF Dated, Consecutive, Rising

-----------------------------------------------------------------------------
(* What quiet sends come to.                                                 *)

NoSnapshot == \A i \in 1..Len(wire) : ~IsSnapshot(i)

\* The replica has not acknowledged any of the quiet sends, and what it did is
\* still in the history: the snapshot may be one it refuses.
Late == Me.acked + calm <= tick /\ calm < StateHistory
\* The snapshot is whole, or it is against the state the replica has, and that is
\* the one described.
Sure(s) ==
    \/ /\ s.base = 0 /\ DOMAIN s.records = DOMAIN Now
       /\ \A e \in DOMAIN Now : s.records[e].full /\ s.records[e].v = Now[e]
    \/ /\ s.base # 0 /\ s.base + 1 = tick /\ DOMAIN s.records = {}
       /\ rep.states # <<>> /\ Last(rep.states) = [tick |-> s.base, ents |-> Now]

InFlight == /\ \E i \in 1..Len(wire) : IsSnapshot(i)
            /\ acks = <<>> /\ rep.applied < tick
            /\ \A i \in 1..Len(wire) : IsSnapshot(i) => Late \/ (calm >= 2 /\ Sure(wire[i]))
Landed   == /\ NoSnapshot
            /\ rep.states # <<>> /\ Last(rep.states) = [tick |-> tick, ents |-> Now]
            /\ acks = <<[type |-> "Ack", tick |-> tick]>> \/ (acks = <<>> /\ Me.acked = tick)
            /\ calm >= 2 => rep.written = Now
Missed   == NoSnapshot /\ acks = <<>> /\ Late

Remembered == /\ up /\ rep.welcomed /\ tick > 0
              /\ history # <<>> /\ Last(history) = [tick |-> tick, ents |-> world]
              /\ Me.interest # <<>> /\ Last(Me.interest) = [tick |-> tick, ids |-> DOMAIN Now]
              /\ Me.known = DOMAIN Now
OnTheWire  == /\ \A i \in 1..Len(wire) :
                    /\ wire[i].type = "Despawn" => wire[i].ids \cap DOMAIN Now = {}
                    /\ IsSnapshot(i) => wire[i].tick = tick /\ wire[i].checksum = Now
                    /\ calm >= 2 => IsSnapshot(i)
              /\ \A i, j \in 1..Len(wire) : IsSnapshot(i) /\ IsSnapshot(j) => i = j
Settling   == calm > 0 => Remembered /\ OnTheWire /\ (InFlight \/ Landed \/ Missed)

LEMMA UptoSilent ==
    ASSUME NEW s, NEW n \in Nat, NEW S \in SUBSET Ent, \A j \in 1..n : Silent(s[j])
    PROVE  Upto(s, n, S) = S
BY DEF Upto, Silent

\* With nothing reliable on its way, the replica has what it is taken to know.
LEMMA LocalsAreKnown ==
    ASSUME Typed, Linked, ToldOf, rep.welcomed, \A i \in 1..Len(wire) : IsSnapshot(i)
    PROVE  rep.locals = Me.known
<1>1. wire \in Seq(Messages) /\ Len(wire) \in Nat /\ rep.locals \in SUBSET Ent
  BY DEF Typed, WireTyped, RepTyped, RepType
<1>2. \A j \in 1..Len(wire) : Silent(wire[j])
  BY SnapshotIsSilent DEF IsSnapshot
<1>3. Upto(wire, Len(wire), rep.locals) = rep.locals
  BY <1>1, <1>2, UptoSilent
<1> QED
  BY <1>3 DEF Linked, ToldOf

\* A snapshot that is sure is applied.
LEMMA SureIsApplied ==
    ASSUME Typed, Dated, NEW s \in Snapshots, Sure(s), s.checksum = Now, s.tick = tick,
           rep.applied < tick, rep.locals = DOMAIN Now
    PROVE  ~Unusable(s) /\ Described(s)
<1>0. /\ Now \in States /\ DOMAIN Now \subseteq Ent /\ s.tick \in Nat /\ rep.applied \in Nat
      /\ rep.states \in Seq(Moments) /\ \A m \in Moments : m.tick \in Nat
  BY NowIs DEF Snapshots, Typed, RepTyped, RepType, Moments
<1>1. DOMAIN Now \cap (Ent \ rep.departed) = DOMAIN Now
  BY <1>0 DEF Dated
<1>2. ~(s.tick <= rep.applied)
  BY <1>0
<1>3. CASE /\ s.base = 0 /\ DOMAIN s.records = DOMAIN Now
           /\ \A e \in DOMAIN Now : s.records[e].full /\ s.records[e].v = Now[e]
  <2>1. Against(s) = Empty /\ ~Unbased(s)
    BY <1>3 DEF Against, Unbased
  <2>2. ~DiffOfNone(s)
    BY <1>3 DEF DiffOfNone
  <2> DEFINE f == [e \in DOMAIN Empty \cup DOMAIN s.records |->
                      IF e \in DOMAIN s.records THEN s.records[e].v ELSE Empty[e]]
             g == Rebuilt(Empty, s.records)
  <2>3. DOMAIN f = DOMAIN Now /\ \A e \in DOMAIN Now : f[e] = Now[e]
    BY <1>3, EmptyIs
  <2>4. g = Only(f, Ent \ rep.departed)
    BY DEF Rebuilt
  <2> HIDE DEF f
  <2>5. DOMAIN g = DOMAIN Now /\ (\A e \in DOMAIN Now : g[e] = Now[e])
    BY <1>1, <2>3, <2>4 DEF Only
  <2>6. g = [e \in DOMAIN f \cap (Ent \ rep.departed) |-> f[e]]
    BY <2>4 DEF Only
  <2>7. Now = [e \in DOMAIN Now |-> Now[e]]
    BY DEF Now, Only
  <2>8. g = Now
    BY <1>1, <2>3, <2>6, <2>7
  <2> QED
    BY <1>2, <2>1, <2>2, <2>8 DEF Unusable, Described
<1>4. CASE /\ s.base # 0 /\ s.base + 1 = tick /\ DOMAIN s.records = {}
           /\ rep.states # <<>> /\ Last(rep.states) = [tick |-> s.base, ents |-> Now]
  <2> DEFINE n == Len(rep.states)
  <2>1. n \in 1..n /\ rep.states[n] = [tick |-> s.base, ents |-> Now]
    BY <1>4, LastIs
  <2>2. rep.states[n].tick = s.base /\ rep.states[n].ents = Now
    BY <2>1
  <2>3. Holds(rep.states, rep.states[n].tick) /\ At(rep.states, rep.states[n].tick) = rep.states[n]
    BY <1>0, <2>1, RisingAt DEF Dated
  <2>4. Against(s) = Now /\ ~Unbased(s)
    BY <1>4, <2>2, <2>3 DEF Against, Unbased
  <2>5. ~DiffOfNone(s)
    BY <1>4 DEF DiffOfNone
  <2> DEFINE f == [e \in DOMAIN Now \cup DOMAIN s.records |->
                      IF e \in DOMAIN s.records THEN s.records[e].v ELSE Now[e]]
             g == Rebuilt(Now, s.records)
  <2>6. DOMAIN f = DOMAIN Now /\ \A e \in DOMAIN Now : f[e] = Now[e]
    BY <1>4
  <2>7. g = Only(f, Ent \ rep.departed)
    BY DEF Rebuilt
  <2> HIDE DEF f
  <2>8. g = [e \in DOMAIN f \cap (Ent \ rep.departed) |-> f[e]]
    BY <2>7 DEF Only
  <2>9. Now = [e \in DOMAIN Now |-> Now[e]]
    BY DEF Now, Only
  <2>10. g = Now
    BY <1>1, <2>6, <2>8, <2>9
  <2> QED
    BY <1>2, <2>4, <2>5, <2>10 DEF Unusable, Described
<1> QED
  BY <1>3, <1>4 DEF Sure

\* What is left on the wire, when a message of it has been received.
LEMMA OnTheWireLater ==
    ASSUME Typed, OnTheWire, NEW i \in DOMAIN wire, wire' = RemoveAt(wire, i),
           UNCHANGED <<tick, calm, world, near>>
    PROVE  /\ OnTheWire'
           /\ IsSnapshot(i) => NoSnapshot'
           /\ NoSnapshot => NoSnapshot'
           /\ ~IsSnapshot(i) /\ (\E k \in 1..Len(wire) : IsSnapshot(k)) =>
                 \E j \in 1..Len(wire') : IsSnapshot(j)'
           /\ \A j \in 1..Len(wire') : \E k \in 1..Len(wire) : k # i /\ wire'[j] = wire[k]
<1> DEFINE f(j) == IF j < i THEN j ELSE j + 1
           g(k) == IF k < i THEN k ELSE k - 1
<1>1. /\ Len(wire') = Len(wire) - 1 /\ Len(wire) \in Nat \ {0} /\ i \in 1..Len(wire)
      /\ \A j \in 1..Len(wire') : wire'[j] = wire[f(j)] /\ f(j) \in 1..Len(wire) /\ f(j) # i
  BY Removed
<1>2. Now' = Now
  BY DEF Now
<1>3. \A j, h \in 1..Len(wire') : f(j) = f(h) => j = h
  BY <1>1
<1>4. \A k \in 1..Len(wire) : k # i => g(k) \in 1..Len(wire') /\ f(g(k)) = k
  BY <1>1
<1> HIDE DEF f, g
<1>5. OnTheWire'
  <2>1. ASSUME NEW j \in 1..Len(wire')
        PROVE  /\ wire'[j].type = "Despawn" => wire'[j].ids \cap DOMAIN Now = {}
               /\ wire'[j].type = "Snapshot" => wire'[j].tick = tick /\ wire'[j].checksum = Now
               /\ calm >= 2 => wire'[j].type = "Snapshot"
    <3>1. wire'[j] = wire[f(j)] /\ f(j) \in 1..Len(wire)
      BY <1>1
    <3> QED
      BY <3>1 DEF OnTheWire, IsSnapshot
  <2>2. ASSUME NEW j \in 1..Len(wire'), NEW h \in 1..Len(wire'),
               wire'[j].type = "Snapshot", wire'[h].type = "Snapshot"
        PROVE  j = h
    <3>1. /\ wire'[j] = wire[f(j)] /\ f(j) \in 1..Len(wire)
          /\ wire'[h] = wire[f(h)] /\ f(h) \in 1..Len(wire)
      BY <1>1
    <3>2. f(j) = f(h)
      BY <2>2, <3>1 DEF OnTheWire, IsSnapshot
    <3> QED
      BY <1>3, <3>2
  <2> QED
    BY <1>2, <2>1, <2>2 DEF OnTheWire, IsSnapshot
<1>6. ASSUME IsSnapshot(i) PROVE NoSnapshot'
  <2> SUFFICES ASSUME NEW j \in 1..Len(wire'), wire'[j].type = "Snapshot" PROVE FALSE
    BY DEF NoSnapshot, IsSnapshot
  <2>1. wire'[j] = wire[f(j)] /\ f(j) \in 1..Len(wire) /\ f(j) # i
    BY <1>1
  <2> QED
    BY <1>1, <1>6, <2>1 DEF OnTheWire, IsSnapshot
<1>7. ASSUME NoSnapshot PROVE NoSnapshot'
  <2> SUFFICES ASSUME NEW j \in 1..Len(wire') PROVE wire'[j].type # "Snapshot"
    BY DEF NoSnapshot, IsSnapshot
  <2>1. wire'[j] = wire[f(j)] /\ f(j) \in 1..Len(wire)
    BY <1>1
  <2> QED
    BY <1>7, <2>1 DEF NoSnapshot, IsSnapshot
<1>8. ASSUME ~IsSnapshot(i), NEW k \in 1..Len(wire), IsSnapshot(k)
      PROVE  \E j \in 1..Len(wire') : IsSnapshot(j)'
  <2>1. k # i
    BY <1>8
  <2>2. g(k) \in 1..Len(wire') /\ f(g(k)) = k
    BY <1>4, <2>1
  <2>3. wire'[g(k)] = wire[k]
    BY <1>1, <2>2
  <2> QED
    BY <1>8, <2>2, <2>3 DEF IsSnapshot
<1>9. \A j \in 1..Len(wire') : \E k \in 1..Len(wire) : k # i /\ wire'[j] = wire[k]
  BY <1>1
<1> QED
  BY <1>5, <1>6, <1>7, <1>8, <1>9

LEMMA SettlingReceive ==
    ASSUME Typed, Linked, ToldOf, Fits, Dated, Settling, StateHistory >= 2,
           NEW i \in DOMAIN wire, ReplicaReceive(i)
    PROVE  Settling'
<1> SUFFICES ASSUME calm' > 0 PROVE Settling'
  BY DEF Settling
<1>0. /\ wire' = RemoveAt(wire, i)
      /\ UNCHANGED <<authority, scene, up, changes, calm>>
      /\ i \in 1..Len(wire) /\ wire[i] \in Messages /\ wire \in Seq(Messages)
  BY ReceiveFacts
<1>1. /\ Remembered /\ OnTheWire /\ (InFlight \/ Landed \/ Missed) /\ calm > 0
      /\ rep \in RepType /\ calm \in Nat
  BY <1>0 DEF Settling, Typed, RepTyped, WireTyped
<1>2. rep'.conn = rep.conn /\ rep'.welcomed /\ rep.welcomed
  BY <1>1, ReceiveConn DEF Remembered
<1>3. Now' = Now /\ Me' = Me /\ tick' = tick /\ calm' = calm
  BY <1>0, <1>2 DEF Now, Me
<1>4. Remembered'
  BY <1>0, <1>1, <1>2, <1>3 DEF Remembered
<1>5. /\ OnTheWire'
      /\ IsSnapshot(i) => NoSnapshot'
      /\ NoSnapshot => NoSnapshot'
      /\ ~IsSnapshot(i) /\ (\E k \in 1..Len(wire) : IsSnapshot(k)) =>
            \E j \in 1..Len(wire') : IsSnapshot(j)'
      /\ \A j \in 1..Len(wire') : \E k \in 1..Len(wire) : k # i /\ wire'[j] = wire[k]
  BY <1>0, <1>1, OnTheWireLater
<1>6. Late' <=> Late
  BY <1>3 DEF Late
<1>7. ASSUME ~IsSnapshot(i), UNCHANGED acks, rep'.applied = rep.applied,
             rep'.written = rep.written,
             rep.states # <<>> /\ Last(rep.states) = [tick |-> tick, ents |-> Now] =>
                 rep'.states # <<>> /\ Last(rep'.states) = [tick |-> tick, ents |-> Now]
      PROVE  Settling'
  <2>1. ~(calm >= 2)
    BY <1>0, <1>1, <1>7 DEF OnTheWire
  <2>2. CASE InFlight
    <3>1. \E j \in 1..Len(wire') : IsSnapshot(j)'
      BY <1>5, <1>7, <2>2 DEF InFlight
    <3>2. Late
      BY <2>1, <2>2 DEF InFlight
    <3>3. InFlight'
      BY <1>3, <1>6, <1>7, <2>2, <3>1, <3>2 DEF InFlight
    <3> QED
      BY <1>4, <1>5, <3>3 DEF Settling
  <2>3. CASE Landed
    <3>1. Landed'
      BY <1>3, <1>5, <1>7, <2>1, <2>3 DEF Landed
    <3> QED
      BY <1>4, <1>5, <3>1 DEF Settling
  <2>4. CASE Missed
    <3>1. Missed'
      BY <1>5, <1>6, <1>7, <2>4 DEF Missed
    <3> QED
      BY <1>4, <1>5, <3>1 DEF Settling
  <2> QED
    BY <1>1, <2>2, <2>3, <2>4
<1>8. wire[i].type # "Welcome"
  BY <1>0, <1>2 DEF Linked
<1>9. CASE wire[i].type = "Spawn" /\ OnSpawn(wire[i].ids) /\ UNCHANGED acks
  <2> DEFINE ids == wire[i].ids
  <2>1. ids \in SUBSET Ent /\ OnSpawn(ids)
    BY <1>0, <1>9, MessageKinds
  <2> HIDE DEF ids
  <2>2. rep'.states = rep.states /\ rep'.applied = rep.applied /\ rep'.written = rep.written
    BY <2>1, SpawnFacts
  <2> QED
    BY <1>7, <1>9, <2>2 DEF IsSnapshot
<1>10. CASE wire[i].type = "Despawn" /\ OnDespawn(wire[i].ids) /\ UNCHANGED acks
  <2> DEFINE ids == wire[i].ids
  <2>1. ids \in SUBSET Ent /\ OnDespawn(ids) /\ ids \cap DOMAIN Now = {}
    BY <1>0, <1>1, <1>10, MessageKinds DEF OnTheWire
  <2> HIDE DEF ids
  <2>2. rep'.states = Scrubbed(ids) /\ rep'.applied = rep.applied
        /\ rep'.written = Only(rep.written, Ent \ ids)
    BY <2>1, DespawnFacts
  <2>3. ~(calm >= 2)
    BY <1>0, <1>1, <1>10 DEF OnTheWire, IsSnapshot
  <2>4. ASSUME rep.states # <<>>, Last(rep.states) = [tick |-> tick, ents |-> Now]
        PROVE  rep'.states # <<>> /\ Last(rep'.states) = [tick |-> tick, ents |-> Now]
    <3>1. /\ Scrubbed(ids) # <<>> /\ Last(Scrubbed(ids)).tick = Last(rep.states).tick
          /\ Last(Scrubbed(ids)).ents = Only(Last(rep.states).ents, Ent \ ids)
      BY <2>1, <2>4, LastScrubbed
    <3>2. Only(Now, Ent \ ids) = Now
      <4>1. DOMAIN Now \cap (Ent \ ids) = DOMAIN Now
        BY <2>1, NowIs
      <4>2. Now = [e \in DOMAIN Now |-> Now[e]]
        BY DEF Now, Only
      <4> QED
        BY <4>1, <4>2 DEF Only
    <3>3. Scrubbed(ids) \in Seq(Moments)
      BY <2>1, ScrubbedIs
    <3>4. Last(Scrubbed(ids)) \in Moments
      BY <3>1, <3>3 DEF Last
    <3> DEFINE l == Last(Scrubbed(ids))
    <3>5. l.tick = tick /\ l.ents = Now /\ l \in Moments
      BY <2>4, <3>1, <3>2, <3>4
    <3> HIDE DEF l
    <3>6. l = [tick |-> tick, ents |-> Now]
      BY <3>5 DEF Moments
    <3> QED
      BY <2>2, <3>1, <3>6 DEF l
  <2>5. CASE InFlight
    <3>1. \E j \in 1..Len(wire') : IsSnapshot(j)'
      BY <1>5, <1>10, <2>5 DEF InFlight, IsSnapshot
    <3>2. Late
      BY <2>3, <2>5 DEF InFlight
    <3>3. InFlight'
      BY <1>3, <1>6, <1>10, <2>2, <2>5, <3>1, <3>2 DEF InFlight
    <3> QED
      BY <1>4, <1>5, <3>3 DEF Settling
  <2>6. CASE Landed
    <3>1. Landed'
      BY <1>3, <1>5, <1>10, <2>3, <2>4, <2>6 DEF Landed
    <3> QED
      BY <1>4, <1>5, <3>1 DEF Settling
  <2>7. CASE Missed
    <3>1. Missed'
      BY <1>5, <1>6, <1>10, <2>7 DEF Missed
    <3> QED
      BY <1>4, <1>5, <3>1 DEF Settling
  <2> QED
    BY <1>1, <2>5, <2>6, <2>7
<1>11. CASE IsSnapshot(i) /\ wire[i] \in Snapshots /\ (Applied(wire[i]) \/ Refused(wire[i]))
  <2> DEFINE s == wire[i]
  <2>1. InFlight
    BY <1>0, <1>1, <1>11 DEF Landed, Missed, NoSnapshot
  <2>2. /\ acks = <<>> /\ rep.applied < tick /\ (Late \/ (calm >= 2 /\ Sure(s)))
        /\ s.tick = tick /\ s.checksum = Now
    BY <1>0, <1>1, <1>11, <2>1 DEF InFlight, OnTheWire
  <2>3. NoSnapshot'
    BY <1>5, <1>11
  <2>4. calm >= 2 => rep.locals = DOMAIN Now
    <3> SUFFICES ASSUME calm >= 2 PROVE rep.locals = DOMAIN Now
      OBVIOUS
    <3>1. \A j \in 1..Len(wire) : IsSnapshot(j)
      BY <1>1 DEF OnTheWire
    <3>2. rep.locals = Me.known
      BY <1>2, <3>1, LocalsAreKnown
    <3> QED
      BY <1>1, <3>2 DEF Remembered
  <2>5. CASE Applied(s)
    <3>1. rep'.states # <<>> /\ Last(rep'.states) = [tick |-> tick, ents |-> Now]
      BY <1>11, <2>2, <2>5, LastApplied
    <3>2. rep'.written = Shown(Now) /\ acks' = Append(acks, [type |-> "Ack", tick |-> tick])
      BY <1>11, <2>2, <2>5, AppliedFacts
    <3>3. acks' = <<[type |-> "Ack", tick |-> tick]>>
      BY <2>2, <3>2
    <3>4. calm >= 2 => rep'.written = Now
      <4> SUFFICES ASSUME calm >= 2 PROVE rep'.written = Now
        OBVIOUS
      <4>1. Now \in States /\ Shown(Now) \in States
        BY NowIs, ShownIs
      <4>2. DOMAIN rep.written \subseteq rep.locals /\ rep.locals = DOMAIN Now
        BY <2>4 DEF Fits
      <4>3. DOMAIN Shown(Now) = DOMAIN Now /\ \A e \in DOMAIN Shown(Now) : Shown(Now)[e] = Now[e]
        BY <4>2 DEF Shown
      <4>4. Shown(Now) = Now
        BY <4>1, <4>3, SameState
      <4> QED
        BY <3>2, <4>4
    <3>5. Landed'
      BY <1>3, <2>3, <3>1, <3>3, <3>4 DEF Landed
    <3> QED
      BY <1>4, <1>5, <3>5 DEF Settling
  <2>6. CASE Refused(s)
    <3>1. UNCHANGED <<rep, acks>>
      BY <2>6 DEF Refused
    <3>2. Late
      <4> SUFFICES ASSUME calm >= 2, Sure(s) PROVE FALSE
        BY <2>2
      <4>1. s \in Snapshots /\ rep.locals = DOMAIN Now
        BY <1>11, <2>4
      <4> HIDE DEF s
      <4>2. ~Unusable(s) /\ Described(s)
        BY <2>2, <4>1, SureIsApplied
      <4> QED
        BY <2>6, <4>2 DEF Refused
    <3>3. Missed'
      BY <1>6, <2>2, <2>3, <3>1, <3>2 DEF Missed
    <3> QED
      BY <1>4, <1>5, <3>3 DEF Settling
  <2> QED
    BY <1>11, <2>5, <2>6
<1> QED
  BY <1>8, <1>9, <1>10, <1>11, ReceiveFacts

\* A history that goes on from one that ends now has now in it, once.
LEMMA KeepsPrevious ==
    ASSUME NEW M, NEW s \in Seq(M), NEW x \in M, Len(s) <= StateHistory, StateHistory >= 2,
           s # <<>>, \A m \in M : m.tick \in Nat, NEW t \in Nat, Consecutive(s, t),
           x.tick = t + 1, NEW y, Last(s) = y, y.tick = t
    PROVE  Holds(Newest(Append(s, x)), t) /\ At(Newest(Append(s, x)), t) = y
<1> DEFINE r == Newest(Append(s, x))
<1>1. r \in Seq(M) /\ \E k \in 1..Len(r) : r[k] = y
  BY NewestPrevious
<1>2. Consecutive(r, t + 1)
  BY ConsecutiveAppend
<1> HIDE DEF r
<1>3. PICK k \in 1..Len(r) : r[k] = y
  BY <1>1
<1>4. Holds(r, r[k].tick) /\ At(r, r[k].tick) = r[k]
  <2> DEFINE u == t + 1
  <2>1. u \in Nat /\ Consecutive(r, u)
    BY <1>2
  <2> HIDE DEF u
  <2> QED
    BY <1>1, <2>1, ConsecutiveAt
<1> QED
  BY <1>3, <1>4 DEF r

\* Against a state that is now there is nothing to tell, against none everything.
LEMMA NothingNew ==
    ASSUME NEW now \in States
    PROVE  /\ DOMAIN Records(now, now, {}) = {}
           /\ DOMAIN Records(Empty, now, {}) = DOMAIN now
           /\ \A e \in DOMAIN now : /\ Records(Empty, now, {})[e].full
                                    /\ Records(Empty, now, {})[e].v = now[e]
<1>1. DOMAIN now \subseteq Ent
  BY StateIs
<1>2. DOMAIN Records(now, now, {}) = {}
  BY DEF Records
<1>3. Empty \in States /\ DOMAIN Empty = {}
  BY EmptyIs
<1>4. DOMAIN Records(Empty, now, {}) = DOMAIN now
  BY <1>3 DEF Records
<1>5. \A e \in DOMAIN Records(Empty, now, {}) :
         /\ Records(Empty, now, {})[e].full <=> e \in {} \/ e \notin DOMAIN Empty
         /\ Records(Empty, now, {})[e].v = now[e]
  BY <1>3, RecordsIs
<1> QED
  BY <1>2, <1>3, <1>4, <1>5

\* What a quiet send finds, and what it sends.
LEMMA QuietSend ==
    ASSUME Typed, Linked, Send, calm' > 0
    PROVE  /\ up /\ rep.welcomed /\ Me.welcomed /\ wire = <<>> /\ acks = <<>>
           /\ calm' = calm + (IF calm < StateHistory THEN 1 ELSE 0)
           /\ LET n == Len(wire') IN
              /\ n \in 1..3 /\ wire'[n] = SnapshotFor(Me, tick + 1, Now, Hist)
              /\ \A k \in 1..n : k # n =>
                    \/ wire'[k].type = "Despawn" /\ wire'[k].ids = Leaves(Me, Now)
                    \/ wire'[k].type = "Spawn" /\ wire'[k].ids = Enters(Me, Now)
              /\ Leaves(Me, Now) = {} /\ Enters(Me, Now) = {} => n = 1
<1>1. /\ up /\ rep.welcomed /\ wire = <<>> /\ acks = <<>>
      /\ calm' = calm + (IF calm < StateHistory THEN 1 ELSE 0)
  BY SendFacts
<1>2. Me.welcomed
  BY <1>1 DEF Linked
<1> DEFINE r == SentTo(Me, tick + 1, Now, Hist)
<1>3. wire' = wire \o r /\ r \in Seq(Messages)
  BY <1>1, <1>2, SendWire
<1>4. /\ Len(r) \in 1..3 /\ r[Len(r)] = SnapshotFor(Me, tick + 1, Now, Hist)
      /\ \A k \in 1..Len(r) : k # Len(r) =>
            \/ r[k].type = "Despawn" /\ r[k].ids = Leaves(Me, Now)
            \/ r[k].type = "Spawn" /\ r[k].ids = Enters(Me, Now)
      /\ Leaves(Me, Now) = {} /\ Enters(Me, Now) = {} => Len(r) = 1
  BY <1>1, <1>2, SentToMe
<1> HIDE DEF r
<1>5. wire' = r
  BY <1>1, <1>3
<1> QED
  BY <1>1, <1>2, <1>4, <1>5

LEMMA SettlingSend ==
    ASSUME Typed, Linked, Dated, Settling, StateHistory >= 2, Send
    PROVE  Settling'
<1> SUFFICES ASSUME calm' > 0 PROVE Settling'
  BY DEF Settling
<1> DEFINE t == tick + 1
           n == Len(wire')
           s == wire'[n]
           x == [tick |-> t, ents |-> world]
           now == Now
           z == [tick |-> t, ids |-> DOMAIN now]
           whole(m) == /\ m.base = 0 /\ DOMAIN m.records = DOMAIN now
                       /\ \A e \in DOMAIN now : m.records[e].full /\ m.records[e].v = now[e]
           same(m)  == /\ m.base # 0 /\ m.base + 1 = t /\ DOMAIN m.records = {}
                       /\ rep.states # <<>> /\ Last(rep.states) = [tick |-> m.base, ents |-> now]
<1>0. /\ up /\ rep.welcomed /\ Me.welcomed /\ wire = <<>> /\ acks = <<>>
      /\ calm' = calm + (IF calm < StateHistory THEN 1 ELSE 0)
      /\ n \in 1..3 /\ s = SnapshotFor(Me, t, now, Hist)
      /\ \A k \in 1..n : k # n =>
            \/ wire'[k].type = "Despawn" /\ wire'[k].ids = Leaves(Me, now)
            \/ wire'[k].type = "Spawn" /\ wire'[k].ids = Enters(Me, now)
      /\ Leaves(Me, now) = {} /\ Enters(Me, now) = {} => n = 1
  BY QuietSend
<1>1. /\ tick' = t /\ tick \in Nat /\ t \in Nat /\ t > 0
      /\ UNCHANGED <<rep, up, acks, world, near>>
      /\ history' = Hist /\ Hist = Newest(Append(history, x))
      /\ Me \in PeerType /\ Len(Me.interest) <= StateHistory
  BY <1>0, SendFacts DEF Hist, scene
<1>2. /\ now \in States /\ DOMAIN now \subseteq Ent /\ Now' = now
      /\ history \in Seq(Moments) /\ Len(history) <= StateHistory
      /\ x \in Moments /\ x.tick = t /\ \A m \in Moments : m.tick \in Nat
      /\ calm \in Nat /\ rep.applied \in Nat /\ rep.applied <= tick
  BY <1>1, NowIs DEF Now, Typed, HistoryTyped, WorldTyped, WireTyped, RepTyped, RepType, Moments
<1>3. /\ Me'.known = DOMAIN now /\ Me'.acked = Me.acked
      /\ Me'.interest = Newest(Append(Me.interest, z))
  BY <1>0, SendMe
<1>4. /\ Me.interest \in Seq(Interests) /\ Me.acked \in Nat /\ z \in Interests /\ z.tick = t
      /\ \A m \in Interests : m.tick \in Nat
  BY <1>1, <1>2 DEF PeerType, Interests
<1>5. /\ Consecutive(history, tick) /\ Consecutive(Me.interest, tick)
      /\ Me.acked <= tick /\ calm <= StateHistory
  <2>1. rep.conn \in Conn
    BY <1>0 DEF Typed, WireTyped
  <2> QED
    BY <1>0, <2>1 DEF Dated, Me
<1>6. /\ s.type = "Snapshot" /\ s.tick = t /\ s.checksum = now
      /\ s.base = Baseline(Me, Hist, Me'.interest).tick
      /\ s.records = Records(Baseline(Me, Hist, Me'.interest).ents, now, Enters(Me, now))
  <2>1. Told(Me, t, now).interest = Me'.interest
    BY <1>0, SendMe
  <2> HIDE DEF t, n, s, now
  <2> QED
    BY <1>0, <2>1 DEF SnapshotFor
<1> HIDE DEF t, n, s, x, now, z, whole, same
<1>7. Remembered'
  <2>1. Hist # <<>> /\ Last(Hist) = x
    BY <1>1, <1>2, NewestLast
  <2>2. Me'.interest # <<>> /\ Last(Me'.interest) = z
    BY <1>1, <1>3, <1>4, NewestLast
  <2> QED
    BY <1>0, <1>1, <1>2, <1>3, <2>1, <2>2 DEF Remembered, x, z
<1>8. calm > 0 => Remembered /\ Leaves(Me, now) = {} /\ Enters(Me, now) = {} /\ n = 1
  BY <1>0 DEF Settling, Remembered, Leaves, Enters, now
<1>9. OnTheWire'
  <2>1. ASSUME NEW i \in 1..n
        PROVE  /\ wire'[i].type = "Despawn" => wire'[i].ids \cap DOMAIN now = {}
               /\ wire'[i].type = "Snapshot" <=> i = n
               /\ calm' >= 2 => i = n
    <3>1. calm' >= 2 => calm > 0
      BY <1>0, <1>2
    <3>2. calm > 0 => i = n
      BY <1>8
    <3>3. CASE i = n
      BY <1>6, <3>3 DEF s
    <3>4. CASE i # n
      BY <1>0, <3>1, <3>2, <3>4 DEF Leaves
    <3> QED
      BY <3>3, <3>4
  <2> QED
    BY <1>1, <1>2, <1>6, <2>1 DEF OnTheWire, IsSnapshot, n, s
<1>10. Late' \/ (calm' >= 2 /\ (whole(s) \/ same(s)))
  <2>1. CASE calm = 0
    <3>1. calm' = 1
      BY <1>0, <2>1
    <3> QED
      BY <1>1, <1>3, <1>4, <1>5, <3>1 DEF Late, t
  <2>2. CASE calm > 0 /\ Landed
    <3>1. /\ Me.acked = tick /\ tick # 0 /\ tick > 0
          /\ rep.states # <<>> /\ Last(rep.states) = [tick |-> tick, ents |-> now]
          /\ history # <<>> /\ Last(history) = [tick |-> tick, ents |-> world]
          /\ Me.interest # <<>> /\ Last(Me.interest) = [tick |-> tick, ids |-> DOMAIN now]
      BY <1>0, <1>1, <1>8, <2>2 DEF Landed, Remembered, now
    <3> DEFINE y == [tick |-> tick, ents |-> world]
               w == [tick |-> tick, ids |-> DOMAIN now]
    <3>2. y.tick = tick /\ y.ents = world /\ w.tick = tick /\ w.ids = DOMAIN now
      OBVIOUS
    <3> HIDE DEF y, w
    <3>3. Holds(Hist, tick) /\ At(Hist, tick) = y
      BY <1>1, <1>2, <1>5, <3>1, <3>2, KeepsPrevious DEF y, t
    <3>4. Holds(Me'.interest, tick) /\ At(Me'.interest, tick) = w
      BY <1>1, <1>3, <1>4, <1>5, <3>1, <3>2, KeepsPrevious DEF w, t
    <3> DEFINE in == Me'.interest
    <3>5. in \in Seq(Interests) /\ Hist \in Seq(Moments)
      BY <1>1, <1>2, <1>3, <1>4, NewestAppend
    <3>6. Baseline(Me, Hist, in).tick = tick
          /\ Baseline(Me, Hist, in).ents = Only(world, DOMAIN now)
      <4> HIDE DEF in
      <4>1. Holds(Hist, Me.acked) /\ Holds(in, Me.acked)
        BY <3>1, <3>3, <3>4 DEF in
      <4>2. Baseline(Me, Hist, in).tick = Me.acked
            /\ Baseline(Me, Hist, in).ents = Only(At(Hist, Me.acked).ents, At(in, Me.acked).ids)
        BY <1>1, <3>1, <3>5, <4>1, BaselineIs
      <4>3. At(Hist, Me.acked).ents = world /\ At(in, Me.acked).ids = DOMAIN now
        BY <3>1, <3>2, <3>3, <3>4 DEF in
      <4> QED
        BY <3>1, <4>2, <4>3
    <3>7. Only(world, DOMAIN now) = now
      <4>1. DOMAIN now = DOMAIN world \cap near /\ now = [e \in DOMAIN world \cap near |-> world[e]]
        BY DEF now, Now, Only
      <4>2. DOMAIN world \cap DOMAIN now = DOMAIN world \cap near
        BY <4>1
      <4> QED
        BY <4>1, <4>2 DEF Only
    <3>8. s.base = tick /\ DOMAIN s.records = {}
      <4>1. s.base = tick /\ s.records = Records(now, now, {})
        BY <1>6, <1>8, <2>2, <3>6, <3>7
      <4> QED
        BY <1>2, <4>1, NothingNew
    <3>9. calm' >= 2
      BY <1>0, <1>2, <2>2
    <3>10. same(s)
      BY <3>1, <3>8 DEF t, same
    <3> QED
      BY <3>9, <3>10
  <2>3. CASE calm > 0 /\ Missed
    <3>1. calm' = calm + 1 /\ calm < StateHistory /\ Me.acked + calm' <= t
      BY <1>0, <1>1, <1>2, <1>4, <2>3 DEF Missed, Late, t
    <3>2. CASE calm' < StateHistory
      BY <1>1, <1>3, <3>1, <3>2 DEF Late
    <3>3. CASE calm' >= StateHistory
      <4> DEFINE in == Me'.interest
                 a == Me.acked
      <4>1. in \in Seq(Interests) /\ Hist \in Seq(Moments) /\ Len(Hist) \in 1..StateHistory
        BY <1>1, <1>2, <1>3, <1>4, NewestAppend
      <4>2. Consecutive(Hist, t)
        BY <1>1, <1>2, <1>5, ConsecutiveAppend DEF t
      <4> HIDE DEF in, a
      <4>3. ~Holds(Hist, a)
        <5> SUFFICES ASSUME NEW i \in 1..Len(Hist), Hist[i].tick = a PROVE FALSE
          BY <4>1 DEF Holds
        <5>1. a + Len(Hist) = t + i
          BY <4>2 DEF Consecutive
        <5>2. a + calm' <= t /\ a \in Nat
          BY <1>4, <3>1 DEF a
        <5> QED
          BY <1>1, <1>2, <3>1, <3>3, <4>1, <5>1, <5>2
      <4>4. Baseline(Me, Hist, in).tick = 0 /\ Baseline(Me, Hist, in).ents = Empty
        BY <1>1, <4>1, <4>3, BaselineIs DEF a
      <4>5. s.base = 0 /\ s.records = Records(Empty, now, {})
        BY <1>6, <1>8, <2>3, <4>4 DEF in
      <4>6. DOMAIN s.records = DOMAIN now
            /\ \A e \in DOMAIN now : s.records[e].full /\ s.records[e].v = now[e]
        BY <1>2, <4>5, NothingNew
      <4>7. whole(s)
        BY <4>5, <4>6 DEF whole
      <4> QED
        BY <1>0, <1>2, <3>1, <3>3, <4>7
    <3> QED
      BY <1>0, <1>2, <3>2, <3>3
  <2>4. ~(calm > 0 /\ InFlight)
    BY <1>0 DEF InFlight
  <2> QED
    BY <1>2, <2>1, <2>2, <2>3, <2>4 DEF Settling
<1>11. InFlight'
  <2>1. \A i \in 1..n : wire'[i].type = "Snapshot" => i = n
    BY <1>0
  <2>2. wire'[n].type = "Snapshot" /\ n \in 1..n
    BY <1>0, <1>6 DEF s
  <2>3. acks' = <<>> /\ rep'.applied < tick'
    BY <1>0, <1>1, <1>2 DEF t
  <2>4. \A i : i = n /\ (whole(s) \/ same(s)) => Sure(wire[i])'
    BY <1>1, <1>2 DEF Sure, s, whole, same
  <2>5. \A i \in 1..n : wire'[i].type = "Snapshot" => Late' \/ (calm' >= 2 /\ Sure(wire[i])')
    BY <1>10, <2>1, <2>4
  <2> QED
    BY <2>2, <2>3, <2>5 DEF InFlight, IsSnapshot, n
<1> QED
  BY <1>7, <1>9, <1>11 DEF Settling

LEMMA SettlingAuthorityReceive ==
    ASSUME Typed, Linked, Dated, Settling, AuthorityReceive
    PROVE  Settling'
<1> SUFFICES ASSUME calm' > 0 PROVE Settling'
  BY DEF Settling
<1>0. /\ UNCHANGED <<tick, history, rep, up, calm, scene>>
      /\ up /\ rep.conn \in Conn /\ acks # <<>> /\ acks' = Tail(acks)
      /\ \/ acks[1].type = "Hello" /\ ~Me.welcomed
         \/ acks[1].type = "Ack" /\ Acked(acks[1].tick) /\ acks[1].tick \in Nat
  BY AuthorityReceiveFacts DEF Me
<1>1. Remembered /\ OnTheWire /\ (InFlight \/ Landed \/ Missed) /\ calm > 0
  BY <1>0 DEF Settling
<1>2. Me.welcomed
  BY <1>1 DEF Remembered, Linked
<1>3. Landed /\ acks = <<[type |-> "Ack", tick |-> tick]>>
  BY <1>0, <1>1 DEF InFlight, Landed, Missed
<1>4. Acked(tick) /\ acks' = <<>> /\ tick \in Nat
  BY <1>0, <1>2, <1>3
<1>5. /\ wire' = wire /\ Me'.known = Me.known /\ Me'.interest = Me.interest
      /\ Me'.acked = (IF tick > Me.acked THEN tick ELSE Me.acked)
  <2> DEFINE u == tick
  <2>1. Acked(u) /\ u \in Nat
    BY <1>4
  <2> HIDE DEF u
  <2>2. LET c == rep.conn IN
        /\ wire' = wire /\ peers'[c].known = peers[c].known
        /\ peers'[c].interest = peers[c].interest
        /\ peers'[c].acked = (IF u > peers[c].acked THEN u ELSE peers[c].acked)
    BY <1>0, <2>1, AckedFacts
  <2> QED
    BY <1>0, <2>2 DEF Me, u
<1>6. Me.acked \in Nat /\ Me.acked <= tick
  BY <1>0 DEF Typed, PeersTyped, PeerType, Dated, Me
<1>7. Me'.acked = tick
  BY <1>4, <1>5, <1>6
<1>8. Now' = Now
  BY <1>0 DEF Now, scene
<1>9. Remembered'
  BY <1>0, <1>1, <1>5, <1>8 DEF Remembered, scene
<1>10. OnTheWire'
  BY <1>0, <1>1, <1>5, <1>8 DEF OnTheWire, IsSnapshot
<1>11. Landed'
  BY <1>0, <1>3, <1>4, <1>5, <1>7, <1>8 DEF Landed, NoSnapshot, IsSnapshot
<1> QED
  BY <1>9, <1>10, <1>11 DEF Settling

LEMMA SettlingStep ==
    ASSUME Typed, Linked, ToldOf, Fits, Dated, Settling, StateHistory >= 2, [Next]_vars
    PROVE  Settling'
<1>1. ASSUME calm' = 0 PROVE Settling'
  BY <1>1 DEF Settling
<1>2. ASSUME NEW e \in Ent, (\E v \in Value : Write(e, v)) \/ Destroy(e) \/ Approach(e)
      PROVE  Settling'
  BY <1>1, <1>2, WorldSteps
<1>3. ASSUME NEW c \in Conn, AuthorityHears(c) PROVE Settling'
  <2> SUFFICES ASSUME calm' > 0 PROVE Settling'
    BY DEF Settling
  <2>1. /\ ~(up /\ c = rep.conn) /\ UNCHANGED <<tick, history, rep, network, calm, scene>>
        /\ \A d \in Conn : peers'[d] = IF d = c THEN Nobody ELSE peers[d]
    BY <1>3, HearsFacts
  <2>2. Remembered /\ OnTheWire /\ (InFlight \/ Landed \/ Missed)
    BY <2>1 DEF Settling
  <2>3. rep.conn \in Conn /\ c # rep.conn
    BY <2>1, <2>2 DEF Remembered, Typed, WireTyped
  <2>4. Me' = Me /\ Now' = Now /\ UNCHANGED <<up, wire, acks>>
    BY <2>1, <2>3 DEF Me, Now, scene, network
  <2>5. Remembered'
    BY <2>1, <2>2, <2>4 DEF Remembered, scene
  <2>6. OnTheWire'
    BY <2>1, <2>2, <2>4 DEF OnTheWire, IsSnapshot
  <2>7. InFlight => InFlight'
    BY <2>1, <2>4 DEF InFlight, IsSnapshot, Late, Sure
  <2>8. Landed => Landed'
    BY <2>1, <2>4 DEF Landed, NoSnapshot, IsSnapshot
  <2>9. Missed => Missed'
    BY <2>1, <2>4 DEF Missed, NoSnapshot, IsSnapshot, Late
  <2> QED
    BY <2>2, <2>5, <2>6, <2>7, <2>8, <2>9 DEF Settling
<1>4. CASE UNCHANGED vars
  <2>1. UNCHANGED <<tick, history, peers, rep, up, wire, acks, calm, world, near>>
    BY <1>4 DEF vars, authority, network, scene
  <2>2. Me' = Me /\ Now' = Now
    BY <2>1 DEF Me, Now
  <2>3. Remembered' <=> Remembered
    BY <2>1, <2>2 DEF Remembered
  <2>4. OnTheWire' <=> OnTheWire
    BY <2>1, <2>2 DEF OnTheWire, IsSnapshot
  <2>5. InFlight => InFlight'
    BY <2>1, <2>2 DEF InFlight, IsSnapshot, Late, Sure
  <2>6. Landed => Landed'
    BY <2>1, <2>2 DEF Landed, NoSnapshot, IsSnapshot
  <2>7. Missed => Missed'
    BY <2>1, <2>2 DEF Missed, NoSnapshot, IsSnapshot, Late
  <2> QED
    BY <2>1, <2>3, <2>4, <2>5, <2>6, <2>7 DEF Settling
<1>5. ASSUME NEW i \in DOMAIN wire, Lose(i) PROVE Settling'
  BY <1>1, <1>5 DEF Lose
<1>6. CASE Dial \/ Break
  BY <1>1, <1>6, DialFacts, BreakFacts
<1> QED
  BY <1>2, <1>3, <1>4, <1>5, <1>6, SettlingReceive, SettlingAuthorityReceive, SettlingSend DEF Next

LEMMA SettlingInit == Init => Settling
BY DEF Init, Settling

\* What the quiet sends come to, once there have been enough of them.
LEMMA Settled ==
    ASSUME Typed, Linked, ToldOf, Dated, Settling, StateHistory >= 2 PROVE Recovers
<1> SUFFICES ASSUME calm >= StateHistory, wire = <<>> PROVE Converged
  BY DEF Recovers
<1>1. Remembered /\ (InFlight \/ Landed \/ Missed) /\ calm >= 2
  BY SessionAssumption DEF Settling, Typed, WireTyped
<1>2. ~InFlight /\ ~Missed
  BY SessionAssumption DEF InFlight, Missed, Late, Typed, WireTyped
<1>3. rep.written = Now
  BY <1>1, <1>2 DEF Landed
<1>4. rep.locals = Me.known /\ Me.known = DOMAIN Now
  BY <1>1, LocalsAreKnown DEF Remembered
<1>5. DOMAIN Now = DOMAIN world \cap near
  BY DEF Now, Only
<1> QED
  BY <1>3, <1>4, <1>5 DEF Converged, Now

\* After as many quiet sends as the history is long, the replica shows what the
\* authority has: a snapshot it refused was diffed against a state that is out of
\* the history by then, so the next is whole (sendTo's baseline, 1028-1040).  The
\* code's history is 64; one of 1 has forgotten the baseline before every send.
THEOREM RecoversHolds == ASSUME StateHistory >= 2 PROVE Spec => []Recovers
<1>1. Init => Dated /\ Settling
  BY DatedInit, SettlingInit
<1>2. SessionInv /\ Dated /\ Settling /\ [Next]_vars => Dated' /\ Settling'
  BY DatedStep, SettlingStep DEF SessionInv
<1>3. SessionInv /\ Dated /\ Settling => Recovers
  BY Settled DEF SessionInv
<1> QED
  BY <1>1, <1>2, <1>3, SessionInvHolds, PTL DEF Spec
=============================================================================
