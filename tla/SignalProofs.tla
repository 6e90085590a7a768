---------------------------- MODULE SignalProofs ----------------------------
(* Theorems about DeferredSignals, for every number of connections, tasks,  *)
(* signals and instances, and every depth; and about SlotMap, by whose      *)
(* handles the connections, signals and instances are known.                *)
EXTENDS DeferredSignals, SlotMap, SublistProofs, SequenceTheorems

(* Deferred signals: the inductive invariant *)

Depth      == 0..MaxDeferredDepth
Connection == [signal : Signals, kind : {"handler", "once", "waiter"}, script : Instances \cup {Nobody}]
Fires      == [kind : {"fire"}, depth : Depth, targets : Seq(Conns), signal : Signals,
               hook : BOOLEAN]
Deferred   == [kind : {"task"}, depth : Depth, task : Tasks, script : Instances \cup {Nobody}]
Closing    == [kind : {"close"}, owner : Instances]
Entry      == Fires \cup Deferred \cup Closing
Current    == [targets : Seq(Conns), depth : Depth, signal : Signals \cup {Nobody},
               hook : BOOLEAN]

Lists == conn \in [Conns -> Connection \cup {Free}] /\ listeners \in [Signals -> Seq(Conns)]
Types ==
    /\ Lists /\ closed \in SUBSET Signals
    /\ queue \in Seq(Entry) /\ current \in Current
    /\ draining \in BOOLEAN /\ running \in BOOLEAN
    /\ disabled \in SUBSET Instances /\ destroyed \in SUBSET Instances /\ retired \in SUBSET Instances

\* Whose close is in a queue, and that each is there once.
Closes(q)  == {i \in DOMAIN q : q[i].kind = "close"}
Closers(q) == {q[i].owner : i \in Closes(q)}
Once(q)    == \A i, j \in Closes(q) : q[i].owner = q[j].owner => i = j

\* A close is of what is destroyed, and nothing of that is retired yet.
Queued == Closers(queue) \subseteq destroyed /\ Once(queue) /\ destroyed \cap retired = {}

\* What is on a list is connected to that signal, and the other way round.
Faithful == \A s \in Signals : /\ IsInjective(listeners[s])
                               /\ \A c \in ToSet(listeners[s]) : c \in Live /\ conn[c].signal = s
Open == \A c \in Live : /\ c \in ToSet(listeners[conn[c].signal])
                        /\ conn[c].signal \notin closed
                        /\ Owner[conn[c].signal] \notin retired

\* Of what is destroyed only Destroying has connections, and while its close is queued.
Quiet ==
    \A x \in destroyed :
        /\ x \in Closers(queue) => Of(x) \ Hooks \subseteq closed
        /\ \A c \in Live : Owner[conn[c].signal] = x => x \in Closers(queue) /\ conn[c].signal \in Hooks

SignalInv == Types /\ Queued /\ (~LateConnect => Faithful /\ Open /\ Quiet)

-----------------------------------------------------------------------------
(* Lists and the queue *)

LEMMA ToSetIs == ASSUME NEW s PROVE ToSet(s) = {s[i] : i \in DOMAIN s}
  BY DEF ToSet

\* A loop that erases some connections leaves the others, each as often as it was there.
LEMMA WithoutIs ==
    ASSUME NEW s \in Seq(Conns), NEW gone
    PROVE  LET t == Sublist(s, {i \in DOMAIN s : s[i] \notin gone})
           IN  /\ t \in Seq(Conns) /\ ToSet(t) = ToSet(s) \ gone
               /\ IsInjective(s) => IsInjective(t)
<1> DEFINE I == {i \in DOMAIN s : s[i] \notin gone}
           t == Sublist(s, I)
<1>1. DOMAIN s = 1..Len(s) /\ Len(s) \in Nat /\ I \in SUBSET (1..Len(s))
  BY LenProperties
<1>2. /\ Cardinality(I) \in Nat /\ t \in Seq(Conns) /\ Len(t) = Cardinality(I)
      /\ \A n \in 1..Cardinality(I) : Place(I, n) \in I /\ t[n] = s[Place(I, n)]
      /\ \A n, k \in 1..Cardinality(I) : n < k => Place(I, n) < Place(I, k)
      /\ \A i \in I : \E n \in 1..Cardinality(I) : Place(I, n) = i
  <2> HIDE DEF I
  <2> QED
    BY <1>1, SublistIsExact
<1> HIDE DEF t
<1>3. DOMAIN t = 1..Cardinality(I)
  BY <1>2, LenProperties
<1>4. ToSet(t) = ToSet(s) \ gone
  <2>1. ASSUME NEW n \in DOMAIN t PROVE t[n] \in ToSet(s) \ gone
    <3>1. Place(I, n) \in I /\ t[n] = s[Place(I, n)]
      BY <1>2, <1>3
    <3> QED
      BY <3>1, ToSetIs
  <2>2. ASSUME NEW i \in DOMAIN s, s[i] \notin gone PROVE s[i] \in ToSet(t)
    <3>1. PICK n \in DOMAIN t : Place(I, n) = i
      BY <1>2, <1>3, <2>2
    <3>2. t[n] = s[i]
      BY <1>2, <1>3, <3>1
    <3> QED
      BY <3>2, ToSetIs
  <2> QED
    BY <2>1, <2>2, ToSetIs
<1>5. ASSUME IsInjective(s) PROVE IsInjective(t)
  <2> SUFFICES ASSUME NEW a \in DOMAIN t, NEW b \in DOMAIN t, t[a] = t[b] PROVE a = b
    BY DEF IsInjective
  <2>1. /\ Place(I, a) \in I /\ Place(I, b) \in I /\ t[a] = s[Place(I, a)] /\ t[b] = s[Place(I, b)]
    BY <1>2, <1>3
  <2>2. Place(I, a) = Place(I, b)
    BY <1>5, <2>1 DEF IsInjective
  <2>3. \A i \in I : i \in Int
    BY <1>1
  <2>4. ~(a < b) /\ ~(b < a)
    <3>1. a < b => Place(I, a) < Place(I, b)
      BY <1>2, <1>3
    <3>2. b < a => Place(I, b) < Place(I, a)
      BY <1>2, <1>3
    <3> HIDE DEF I
    <3> QED
      BY <2>1, <2>2, <2>3, <3>1, <3>2
  <2> QED
    BY <1>2, <1>3, <2>4
<1> QED
  BY <1>2, <1>4, <1>5 DEF t

LEMMA NothingListed == ToSet(<<>>) = {} /\ IsInjective(<<>>) /\ <<>> \in Seq(Conns)
  BY DEF ToSet, IsInjective

\* A list with one more at its end.
LEMMA ListAppend ==
    ASSUME NEW s \in Seq(Conns), NEW c \in Conns
    PROVE  LET t == Append(s, c)
           IN  /\ t \in Seq(Conns) /\ ToSet(t) = ToSet(s) \cup {c}
               /\ IsInjective(s) /\ c \notin ToSet(s) => IsInjective(t)
<1> DEFINE t == Append(s, c)
<1>1. /\ t \in Seq(Conns) /\ Len(t) = Len(s) + 1 /\ Len(s) \in Nat
      /\ DOMAIN s = 1..Len(s) /\ DOMAIN t = 1..(Len(s) + 1)
      /\ t[Len(s) + 1] = c /\ \A i \in 1..Len(s) : t[i] = s[i]
  BY AppendProperties, LenProperties
<1> HIDE DEF t
<1>2. ToSet(t) = ToSet(s) \cup {c}
  <2>1. \A i \in DOMAIN t : t[i] \in ToSet(s) \cup {c}
    BY <1>1, ToSetIs
  <2>2. \A i \in DOMAIN s : s[i] \in ToSet(t)
    BY <1>1, ToSetIs
  <2>3. c \in ToSet(t)
    BY <1>1, ToSetIs
  <2> QED
    BY <2>1, <2>2, <2>3, ToSetIs
<1>3. ASSUME IsInjective(s), c \notin ToSet(s) PROVE IsInjective(t)
  <2> SUFFICES ASSUME NEW a \in DOMAIN t, NEW b \in DOMAIN t, t[a] = t[b] PROVE a = b
    BY DEF IsInjective
  <2>1. \A i \in DOMAIN s : s[i] # c
    BY <1>3, ToSetIs
  <2>2. CASE a \in DOMAIN s /\ b \in DOMAIN s
    BY <1>1, <1>3, <2>2 DEF IsInjective
  <2>3. CASE a \notin DOMAIN s \/ b \notin DOMAIN s
    BY <1>1, <2>1, <2>3
  <2> QED
    BY <2>2, <2>3
<1> QED
  BY <1>1, <1>2, <1>3 DEF t

\* The kinds of entries.
LEMMA EntryIs ==
    ASSUME NEW e \in Entry
    PROVE  /\ e.kind \in {"fire", "task", "close"}
           /\ e.kind = "fire" => /\ e.targets \in Seq(Conns) /\ e.depth \in Depth
                                 /\ e.signal \in Signals /\ e.hook \in BOOLEAN
           /\ e.kind = "task" => e.task \in Tasks /\ e.depth \in Depth
           /\ e.kind = "close" => e.owner \in Instances
BY DEF Entry, Fires, Deferred, Closing

\* An entry is put at the end.
LEMMA QueueAppend ==
    ASSUME NEW q \in Seq(Entry), NEW e \in Entry
    PROVE  LET u == Append(q, e)
           IN  /\ u \in Seq(Entry)
               /\ e.kind # "close" => Closers(u) = Closers(q) /\ (Once(q) => Once(u))
               /\ e.kind = "close" => /\ Closers(u) = Closers(q) \cup {e.owner}
                                      /\ Once(q) /\ e.owner \notin Closers(q) => Once(u)
<1> DEFINE u == Append(q, e)
<1>1. /\ u \in Seq(Entry) /\ Len(u) = Len(q) + 1 /\ Len(q) \in Nat
      /\ DOMAIN q = 1..Len(q) /\ DOMAIN u = 1..(Len(q) + 1)
      /\ u[Len(q) + 1] = e /\ \A i \in 1..Len(q) : u[i] = q[i]
  BY AppendProperties, LenProperties
<1> HIDE DEF u
<1>2. Closes(u) = Closes(q) \cup (IF e.kind = "close" THEN {Len(q) + 1} ELSE {})
  BY <1>1 DEF Closes
<1>3. \A i \in Closes(q) : i \in 1..Len(q) /\ u[i] = q[i] /\ i # Len(q) + 1
  BY <1>1 DEF Closes
<1>4. ASSUME e.kind # "close" PROVE Closers(u) = Closers(q) /\ (Once(q) => Once(u))
  <2>1. Closes(u) = Closes(q)
    BY <1>2, <1>4
  <2> QED
    BY <1>3, <2>1 DEF Closers, Once
<1>5. ASSUME e.kind = "close"
      PROVE  /\ Closers(u) = Closers(q) \cup {e.owner}
             /\ Once(q) /\ e.owner \notin Closers(q) => Once(u)
  <2>1. Closes(u) = Closes(q) \cup {Len(q) + 1} /\ u[Len(q) + 1] = e
    BY <1>1, <1>2, <1>5
  <2>2. Closers(u) = Closers(q) \cup {e.owner}
    BY <1>3, <2>1 DEF Closers
  <2>3. ASSUME Once(q), e.owner \notin Closers(q) PROVE Once(u)
    <3>1. \A i \in Closes(q) : q[i].owner # e.owner
      BY <2>3 DEF Closers
    <3> QED
      BY <1>3, <2>1, <2>3, <3>1 DEF Once
  <2> QED
    BY <2>2, <2>3
<1> QED
  BY <1>1, <1>4, <1>5 DEF u

\* An entry is taken out, at the head or further down.
LEMMA QueueRemove ==
    ASSUME NEW q \in Seq(Entry), NEW k \in DOMAIN q, NEW u \in Seq(Entry),
           Len(u) = Len(q) - 1,
           \A i \in 1..(Len(q) - 1) : u[i] = IF i < k THEN q[i] ELSE q[i + 1]
    PROVE  /\ Once(q) => Once(u)
           /\ q[k].kind # "close" => Closers(u) = Closers(q)
           /\ q[k].kind = "close" /\ Once(q) => Closers(u) = Closers(q) \ {q[k].owner}
<1> DEFINE at(i) == IF i < k THEN i ELSE i + 1
           from(i) == IF i < k THEN i ELSE i - 1
<1>1. /\ Len(q) \in Nat /\ DOMAIN q = 1..Len(q) /\ DOMAIN u = 1..(Len(q) - 1) /\ k \in 1..Len(q)
  BY LenProperties
<1>2. ASSUME NEW i \in DOMAIN u PROVE at(i) \in DOMAIN q /\ u[i] = q[at(i)] /\ at(i) # k
  BY <1>1
<1>3. ASSUME NEW i \in DOMAIN q, i # k PROVE from(i) \in DOMAIN u /\ u[from(i)] = q[i]
  <2>1. CASE i < k
    BY <1>1, <2>1
  <2>2. CASE i > k
    <3>1. i - 1 \in 1..(Len(q) - 1) /\ ~(i - 1 < k) /\ i - 1 + 1 = i /\ ~(i < k)
      BY <1>1, <2>2
    <3> QED
      BY <1>1, <3>1
  <2> QED
    BY <1>1, <1>3, <2>1, <2>2
<1>4. ASSUME NEW i \in DOMAIN u, NEW j \in DOMAIN u, at(i) = at(j) PROVE i = j
  BY <1>1, <1>4
<1> HIDE DEF at, from
<1>5. \A i \in Closes(u) : at(i) \in Closes(q) /\ u[i] = q[at(i)] /\ at(i) # k
  BY <1>2 DEF Closes
<1>6. \A i \in Closes(q) : i # k => from(i) \in Closes(u) /\ u[from(i)] = q[i]
  BY <1>3 DEF Closes
<1>7. ASSUME Once(q) PROVE Once(u)
  <2> SUFFICES ASSUME NEW i \in Closes(u), NEW j \in Closes(u), u[i].owner = u[j].owner PROVE i = j
    BY DEF Once
  <2>1. at(i) = at(j)
    BY <1>5, <1>7 DEF Once
  <2> QED
    BY <1>4, <2>1 DEF Closes
<1>8. ASSUME q[k].kind # "close" PROVE Closers(u) = Closers(q)
  <2>1. \A i \in Closes(q) : i # k
    BY <1>8 DEF Closes
  <2> QED
    BY <1>5, <1>6, <2>1 DEF Closers
<1>9. ASSUME q[k].kind = "close", Once(q) PROVE Closers(u) = Closers(q) \ {q[k].owner}
  <2>1. k \in Closes(q) /\ \A i \in Closes(q) : i # k => q[i].owner # q[k].owner
    BY <1>9 DEF Closes, Once
  <2> QED
    BY <1>5, <1>6, <2>1 DEF Closers
<1> QED
  BY <1>7, <1>8, <1>9

LEMMA QueueTail ==
    ASSUME NEW q \in Seq(Entry), q # <<>>
    PROVE  LET u == Tail(q)
               e == Head(q)
           IN  /\ e \in Entry /\ u \in Seq(Entry)
               /\ Once(q) => Once(u)
               /\ e.kind # "close" => Closers(u) = Closers(q)
               /\ e.kind = "close" => e.owner \in Closers(q) /\ (Once(q) => Closers(u) = Closers(q) \ {e.owner})
<1> DEFINE u == Tail(q)
<1>1. /\ Len(q) \in Nat \ {0} /\ DOMAIN q = 1..Len(q) /\ 1 \in DOMAIN q /\ Head(q) = q[1] /\ Head(q) \in Entry
      /\ u \in Seq(Entry) /\ Len(u) = Len(q) - 1 /\ \A i \in 1..(Len(q) - 1) : u[i] = q[i + 1]
  BY HeadTailProperties, EmptySeq, LenProperties
<1> HIDE DEF u
<1>2. \A i \in 1..(Len(q) - 1) : u[i] = IF i < 1 THEN q[i] ELSE q[i + 1]
  BY <1>1
<1>3. /\ Once(q) => Once(u)
      /\ q[1].kind # "close" => Closers(u) = Closers(q)
      /\ q[1].kind = "close" /\ Once(q) => Closers(u) = Closers(q) \ {q[1].owner}
  BY <1>1, <1>2, QueueRemove
<1>4. q[1].kind = "close" => q[1].owner \in Closers(q)
  BY <1>1 DEF Closers, Closes
<1> QED
  BY <1>1, <1>3, <1>4 DEF u

LEMMA QueueRemoveAt ==
    ASSUME NEW q \in Seq(Entry), NEW k \in DOMAIN q, q[k].kind # "close"
    PROVE  LET u == RemoveAt(q, k) IN u \in Seq(Entry) /\ (Once(q) => Once(u)) /\ Closers(u) = Closers(q)
<1> DEFINE a == SubSeq(q, 1, k - 1)
           b == SubSeq(q, k + 1, Len(q))
           u == a \o b
<1>1. Len(q) \in Nat /\ DOMAIN q = 1..Len(q) /\ k \in 1..Len(q)
  BY LenProperties
<1>2. \A i \in 1..Len(q) : q[i] \in Entry
  BY <1>1, ElementOfSeq
<1>3. /\ a \in Seq(Entry) /\ Len(a) = k - 1 /\ \A i \in 1..(k - 1) : a[i] = q[i]
      /\ b \in Seq(Entry) /\ Len(b) = Len(q) - k /\ \A i \in 1..(Len(q) - k) : b[i] = q[k + i]
  <2>1. a \in Seq(Entry) /\ b \in Seq(Entry)
    BY <1>1, <1>2
  <2>2. Len(a) = k - 1 /\ \A i \in 1..(k - 1) : a[i] = q[i]
    BY <1>1
  <2>3. Len(b) = Len(q) - k /\ \A i \in 1..(Len(q) - k) : b[i] = q[k + i]
    BY <1>1
  <2> QED
    BY <2>1, <2>2, <2>3
<1> HIDE DEF a, b
<1>4. /\ u \in Seq(Entry) /\ Len(u) = Len(q) - 1
      /\ \A i \in 1..(Len(q) - 1) : u[i] = IF i < k THEN q[i] ELSE q[i + 1]
  <2>1. u \in Seq(Entry) /\ Len(u) = Len(a) + Len(b)
        /\ \A i \in 1..(Len(a) + Len(b)) : u[i] = IF i <= Len(a) THEN a[i] ELSE b[i - Len(a)]
    BY <1>3, ConcatProperties
  <2> HIDE DEF u
  <2>2. ASSUME NEW i \in 1..(Len(q) - 1) PROVE u[i] = IF i < k THEN q[i] ELSE q[i + 1]
    <3>1. CASE i < k
      BY <1>1, <1>3, <2>1, <3>1
    <3>2. CASE i >= k
      <4>1. ~(i <= Len(a)) /\ i - Len(a) \in 1..(Len(q) - k) /\ k + (i - Len(a)) = i + 1
        BY <1>1, <1>3, <3>2
      <4>2. u[i] = b[i - Len(a)]
        BY <1>3, <2>1, <4>1
      <4>3. b[i - Len(a)] = q[i + 1]
        BY <1>3, <4>1
      <4> QED
        BY <3>2, <4>2, <4>3
    <3> QED
      BY <1>1, <3>1, <3>2
  <2> QED
    BY <1>1, <1>3, <2>1, <2>2
<1> HIDE DEF u
<1>5. (Once(q) => Once(u)) /\ Closers(u) = Closers(q)
  BY <1>4, QueueRemove
<1> QED
  BY <1>4, <1>5 DEF u, a, b, RemoveAt

-----------------------------------------------------------------------------
(* What is raised *)

LEMMA SignalsAre ==
    /\ Nobody \notin Signals /\ Nobody \notin Instances
    /\ Console \in Signals \cup {Nobody} /\ MaxDeferredDepth \in Nat /\ Hooks \subseteq Signals
    /\ \A s \in Signals : Owner[s] \in Instances \cup {Nobody}
BY SignalAssumption

LEMMA CurrentIs ==
    ASSUME Types
    PROVE  /\ current.targets \in Seq(Conns) /\ current.depth \in Depth /\ current.signal \in Signals \cup {Nobody}
           /\ RaisedDepth(current.depth) \in Nat
           /\ ~(RaisedDepth(current.depth) > MaxDeferredDepth) => RaisedDepth(current.depth) \in Depth
<1>1. current.targets \in Seq(Conns) /\ current.depth \in Depth /\ current.signal \in Signals \cup {Nobody}
  BY DEF Types, Current
<1>2. current.depth \in Nat /\ MaxDeferredDepth \in Nat
  BY <1>1, SignalsAre DEF Depth
<1> QED
  BY <1>1, <1>2 DEF RaisedDepth, Depth

\* A queue with no other close than before.
NoneClosed(u, q) == u \in Seq(Entry) /\ Closers(u) = Closers(q) /\ (Once(q) => Once(u))

LEMMA FireIsEntry ==
    ASSUME Types, NEW s \in Signals, NEW d \in Depth
    PROVE  FireEntry(s, d) \in Entry /\ FireEntry(s, d).kind # "close"
<1>1. listeners[s] \in Seq(Conns)
  BY DEF Types, Lists
<1> QED
  BY <1>1 DEF FireEntry, Entry, Fires

LEMMA FireAdded ==
    ASSUME Types, NEW q \in Seq(Entry), NEW s \in Signals, NEW d \in Depth
    PROVE  NoneClosed(Append(q, FireEntry(s, d)), q)
<1> DEFINE e == FireEntry(s, d)
<1>1. e \in Entry /\ e.kind # "close"
  BY FireIsEntry
<1> HIDE DEF e
<1>2. NoneClosed(Append(q, e), q)
  BY <1>1, QueueAppend DEF NoneClosed
<1> QED
  BY <1>2 DEF e

LEMMA ReportIs ==
    ASSUME Types, NEW q \in Seq(Entry)
    PROVE  NoneClosed(Report(q), q)
<1>1. CASE Console = Nobody \/ Console \in closed
  BY <1>1 DEF Report, NoneClosed
<1>2. CASE ~(Console = Nobody \/ Console \in closed)
  <2>1. Console \in Signals /\ current.depth \in Depth
    BY <1>2, SignalsAre, CurrentIs
  <2>2. Report(q) = Append(q, FireEntry(Console, current.depth))
    BY <1>2 DEF Report
  <2> QED
    BY <2>1, <2>2, FireAdded
<1> QED
  BY <1>1, <1>2

LEMMA EnqueueIs ==
    ASSUME Types, NEW q \in Seq(Entry), NEW s \in Signals
    PROVE  NoneClosed(Enqueue(q, s), q)
<1> DEFINE d == RaisedDepth(current.depth)
<1>1. CASE s \in closed
  BY <1>1 DEF Enqueue, NoneClosed
<1>2. CASE s \notin closed /\ d > MaxDeferredDepth
  <2>1. Enqueue(q, s) = Report(q)
    BY <1>2 DEF Enqueue
  <2> QED
    BY <2>1, ReportIs
<1>3. CASE s \notin closed /\ ~(d > MaxDeferredDepth)
  <2>1. Enqueue(q, s) = Append(q, FireEntry(s, d))
    BY <1>3 DEF Enqueue
  <2>2. d \in Depth
    BY <1>3, CurrentIs
  <2> HIDE DEF d
  <2> QED
    BY <2>1, <2>2, FireAdded
<1> QED
  BY <1>1, <1>2, <1>3

\* A mark changes no entry but in its hook.
LEMMA MarkedParts ==
    ASSUME NEW q \in Seq(Entry), NEW s
    PROVE  /\ Marked(q, s) \in Seq(Entry) /\ Len(Marked(q, s)) = Len(q)
           /\ \A i \in 1..Len(q) : /\ Marked(q, s)[i].kind = q[i].kind
                                   /\ Targets(Marked(q, s)[i]) = Targets(q[i])
                                   /\ q[i].kind # "fire" => Marked(q, s)[i] = q[i]
<1>1. /\ DOMAIN q = 1..Len(q) /\ Len(q) \in Nat /\ \A i \in 1..Len(q) : q[i] \in Entry
  BY LenProperties, ElementOfSeq
<1>2. CASE ~(q # <<>> /\ Last(q).kind = "fire" /\ Last(q).signal = s)
  BY <1>1, <1>2 DEF Marked
<1>3. CASE q # <<>> /\ Last(q).kind = "fire" /\ Last(q).signal = s
  <2> DEFINE n == Len(q)
             e == q[n]
             m == [e EXCEPT !.hook = TRUE]
             u == [q EXCEPT ![n] = m]
  <2>1. Marked(q, s) = u /\ n \in 1..Len(q) /\ e.kind = "fire"
    BY <1>1, <1>3, EmptySeq DEF Marked, Last
  <2>2. m \in Entry /\ m.kind = e.kind /\ Targets(m) = Targets(e)
    <3>1. e \in Fires
      BY <1>1, <2>1 DEF Entry, Fires, Deferred, Closing
    <3>2. m \in Fires /\ m.kind = e.kind /\ m.targets = e.targets
      BY <3>1 DEF Fires
    <3> QED
      BY <2>1, <3>2 DEF Targets, Entry
  <2> HIDE DEF m
  <2>3. u \in Seq(Entry) /\ Len(u) = Len(q)
    BY <1>1, <2>1, <2>2
  <2>4. \A i \in 1..Len(q) : u[i] = IF i = n THEN m ELSE q[i]
    BY <1>1
  <2> HIDE DEF u, n
  <2>5. ASSUME NEW i \in 1..Len(q)
        PROVE  u[i].kind = q[i].kind /\ Targets(u[i]) = Targets(q[i]) /\ (q[i].kind # "fire" => u[i] = q[i])
    BY <2>1, <2>2, <2>4
  <2> QED
    BY <2>1, <2>3, <2>5
<1> QED
  BY <1>2, <1>3

LEMMA MarkedIs ==
    ASSUME NEW q \in Seq(Entry), NEW s
    PROVE  NoneClosed(Marked(q, s), q)
<1> DEFINE u == Marked(q, s)
<1>1. /\ u \in Seq(Entry) /\ DOMAIN q = 1..Len(q) /\ DOMAIN u = 1..Len(q)
      /\ \A i \in 1..Len(q) : u[i].kind = q[i].kind /\ (q[i].kind # "fire" => u[i] = q[i])
  BY MarkedParts, LenProperties
<1> HIDE DEF u
<1>2. Closes(u) = Closes(q) /\ \A i \in Closes(q) : u[i] = q[i]
  BY <1>1 DEF Closes
<1>3. NoneClosed(u, q)
  BY <1>1, <1>2 DEF NoneClosed, Closers, Once
<1> QED
  BY <1>3 DEF u

LEMMA EnqueueDestroyingIs ==
    ASSUME Types, NEW x \in Instances
    PROVE  NoneClosed(EnqueueDestroying(x), queue)
<1> DEFINE h == CHOOSE s \in Of(x) \cap Hooks : TRUE
<1>1. queue \in Seq(Entry)
  BY DEF Types
<1>2. CASE Of(x) \cap Hooks = {}
  BY <1>1, <1>2 DEF EnqueueDestroying, NoneClosed
<1>3. CASE Of(x) \cap Hooks # {}
  <2>1. h \in Signals
    BY <1>3 DEF Of
  <2> DEFINE q == Enqueue(queue, h)
  <2>2. EnqueueDestroying(x) = Marked(q, h)
    BY <1>3 DEF EnqueueDestroying
  <2> HIDE DEF h
  <2>3. NoneClosed(q, queue)
    BY <1>1, <2>1, EnqueueIs
  <2> HIDE DEF q
  <2>4. NoneClosed(Marked(q, h), q)
    BY <2>3, MarkedIs DEF NoneClosed
  <2> QED
    BY <2>2, <2>3, <2>4 DEF NoneClosed
<1> QED
  BY <1>2, <1>3

-----------------------------------------------------------------------------
(* What is disconnected *)

LEMMA ConnIs ==
    ASSUME Lists
    PROVE  /\ Live = {c \in Conns : conn[c] \in Connection}
           /\ \A c \in Live : /\ c \in Conns /\ conn[c].signal \in Signals
                              /\ conn[c].kind \in {"handler", "once", "waiter"}
                              /\ conn[c].script \in Instances \cup {Nobody}
<1>1. Free \notin Connection
  BY DEF Free, Connection
<1>2. \A c \in Conns : conn[c] \in Connection \cup {Free}
  BY DEF Lists
<1>3. Live = {c \in Conns : conn[c] \in Connection}
  BY <1>1, <1>2 DEF Live
<1> QED
  BY <1>3 DEF Connection

LEMMA ListsAfterGone ==
    ASSUME Lists, NEW gone, conn' = Disconnected(gone), listeners' = Unlisted(gone)
    PROVE  /\ Lists' /\ Live' = Live \ gone
           /\ \A c \in Live' : conn'[c] = conn[c]
           /\ \A s \in Signals : /\ ToSet(listeners'[s]) = ToSet(listeners[s]) \ gone
                                 /\ IsInjective(listeners[s]) => IsInjective(listeners'[s])
<1>1. /\ conn' \in [Conns -> Connection \cup {Free}]
      /\ \A c \in Conns : conn'[c] = IF c \in gone THEN Free ELSE conn[c]
  BY DEF Disconnected, Lists
<1>2. ASSUME NEW s \in Signals
      PROVE  /\ listeners'[s] \in Seq(Conns) /\ ToSet(listeners'[s]) = ToSet(listeners[s]) \ gone
             /\ IsInjective(listeners[s]) => IsInjective(listeners'[s])
  <2> DEFINE l == listeners[s]
  <2>1. l \in Seq(Conns)
    BY DEF Lists
  <2>2. listeners'[s] = Sublist(l, {i \in DOMAIN l : l[i] \notin gone})
    BY DEF Unlisted
  <2> HIDE DEF l
  <2>3. LET t == Sublist(l, {i \in DOMAIN l : l[i] \notin gone})
        IN  /\ t \in Seq(Conns) /\ ToSet(t) = ToSet(l) \ gone
            /\ IsInjective(l) => IsInjective(t)
    BY <2>1, WithoutIs
  <2> QED
    BY <2>2, <2>3 DEF l
<1>3. listeners' = [s \in Signals |-> listeners'[s]]
  BY DEF Unlisted
<1>4. listeners' \in [Signals -> Seq(Conns)]
  BY <1>2, <1>3
<1> QED
  BY <1>1, <1>2, <1>4 DEF Lists, Live

\* Some connections fewer, or none, and the lists with them.
Fewer ==
    /\ Live' \subseteq Live /\ \A c \in Live' : conn'[c] = conn[c]
    /\ \A s \in Signals : /\ ToSet(listeners'[s]) = ToSet(listeners[s]) \cap Live'
                          /\ IsInjective(listeners[s]) => IsInjective(listeners'[s])

LEMMA FewerGone ==
    ASSUME Lists, Faithful, NEW gone, conn' = Disconnected(gone), listeners' = Unlisted(gone)
    PROVE  Fewer
<1>1. \A s \in Signals : ToSet(listeners[s]) \subseteq Live
  BY DEF Faithful
<1> QED
  BY <1>1, ListsAfterGone DEF Fewer

LEMMA FewerNone ==
    ASSUME Faithful, UNCHANGED <<conn, listeners>>
    PROVE  Fewer
<1>1. \A s \in Signals : ToSet(listeners[s]) \subseteq Live
  BY DEF Faithful
<1>2. Live' = Live
  BY DEF Live
<1> QED
  BY <1>1, <1>2 DEF Fewer

LEMMA FewerKeeps ==
    ASSUME Lists, Faithful, Open, Fewer,
           \A c \in Live' : conn[c].signal \notin closed' /\ Owner[conn[c].signal] \notin retired'
    PROVE  Faithful' /\ Open'
<1>1. ASSUME NEW s \in Signals
      PROVE  IsInjective(listeners'[s]) /\ \A c \in ToSet(listeners'[s]) : c \in Live' /\ conn'[c].signal = s
  BY DEF Fewer, Faithful
<1>2. ASSUME NEW c \in Live'
      PROVE  /\ c \in ToSet(listeners'[conn'[c].signal]) /\ conn'[c].signal \notin closed'
             /\ Owner[conn'[c].signal] \notin retired'
  <2>1. c \in Live /\ conn'[c] = conn[c]
    BY DEF Fewer
  <2>2. conn[c].signal \in Signals /\ c \in ToSet(listeners[conn[c].signal])
    BY <2>1, ConnIs DEF Open
  <2> QED
    BY <2>1, <2>2 DEF Fewer
<1> QED
  BY <1>1, <1>2 DEF Faithful, Open

LEMMA QuietStays ==
    ASSUME Quiet, Fewer, destroyed' = destroyed, Closers(queue') = Closers(queue), closed \subseteq closed'
    PROVE  Quiet'
<1> SUFFICES ASSUME NEW x \in destroyed
             PROVE  /\ x \in Closers(queue') => Of(x) \ Hooks \subseteq closed'
                    /\ \A c \in Live' : Owner[conn'[c].signal] = x => x \in Closers(queue') /\ conn'[c].signal \in Hooks
  BY DEF Quiet, Of, Closers, Closes
<1>1. /\ x \in Closers(queue) => Of(x) \ Hooks \subseteq closed
      /\ \A c \in Live : Owner[conn[c].signal] = x => x \in Closers(queue) /\ conn[c].signal \in Hooks
  BY DEF Quiet
<1> QED
  BY <1>1 DEF Fewer

-----------------------------------------------------------------------------
(* The steps *)

LEMMA InvGives ==
    ASSUME SignalInv
    PROVE  /\ Types /\ Lists /\ Queued /\ queue \in Seq(Entry)
           /\ ~LateConnect => Faithful /\ Open /\ Quiet
BY DEF SignalInv, Types

\* A step that closes nothing of an instance, retires nothing and connects nobody.
LEMMA StepKeeps ==
    ASSUME SignalInv, Lists', closed' \in SUBSET Signals, closed \subseteq closed',
           NoneClosed(queue', queue), UNCHANGED <<destroyed, retired>>,
           current' \in Current, draining' \in BOOLEAN, running' \in BOOLEAN, disabled' \in SUBSET Instances,
           ~LateConnect => Fewer /\ \A c \in Live' : conn[c].signal \notin closed'
    PROVE  SignalInv'
<1>1. Types'
  <2>1. destroyed' \in SUBSET Instances /\ retired' \in SUBSET Instances
    BY InvGives DEF Types
  <2>2. queue' \in Seq(Entry)
    BY DEF NoneClosed
  <2> QED
    BY <2>1, <2>2 DEF Types, Lists, Depth, Entry, Fires, Deferred, Closing, Current, Connection, Free
<1>2. Queued'
  <2>1. Closers(queue') \subseteq destroyed' /\ Once(queue') /\ destroyed' \cap retired' = {}
    BY InvGives DEF Queued, NoneClosed
  <2> QED
    BY <2>1 DEF Queued, Closers, Closes, Once
<1>3. ASSUME ~LateConnect PROVE Faithful' /\ Open' /\ Quiet'
  <2>1. Faithful /\ Open /\ Quiet /\ Fewer /\ \A c \in Live' : conn[c].signal \notin closed'
    BY <1>3, InvGives
  <2>2. \A c \in Live' : Owner[conn[c].signal] \notin retired'
    <3>1. \A c \in Live' : c \in Live
      BY <2>1 DEF Fewer
    <3> QED
      BY <2>1, <3>1 DEF Open
  <2>3. Faithful' /\ Open'
    BY <2>1, <2>2, InvGives, FewerKeeps
  <2>4. Quiet'
    BY <2>1, QuietStays DEF NoneClosed
  <2> QED
    BY <2>3, <2>4
<1> QED
  BY <1>1, <1>2, <1>3 DEF SignalInv

\* One that leaves the connections and what is closed alone.
LEMMA QuietStep ==
    ASSUME SignalInv, NoneClosed(queue', queue), UNCHANGED <<conn, listeners, closed, destroyed, retired>>,
           current' \in Current, draining' \in BOOLEAN, running' \in BOOLEAN, disabled' \in SUBSET Instances
    PROVE  SignalInv'
<1>1. Lists' /\ closed' \in SUBSET Signals /\ closed \subseteq closed'
  BY InvGives DEF Types, Lists
<1>2. ASSUME ~LateConnect PROVE Fewer /\ \A c \in Live' : conn[c].signal \notin closed'
  <2>1. Fewer
    BY <1>2, InvGives, FewerNone
  <2>2. Live' = Live
    BY DEF Live
  <2> QED
    BY <1>2, <2>1, <2>2, InvGives DEF Open
<1> QED
  BY <1>1, <1>2, StepKeeps

\* One that disconnects some.
LEMMA GoneStep ==
    ASSUME SignalInv, NEW gone, conn' = Disconnected(gone), listeners' = Unlisted(gone),
           NoneClosed(queue', queue), closed' \in SUBSET Signals, closed \subseteq closed',
           UNCHANGED <<destroyed, retired>>,
           current' \in Current, draining' \in BOOLEAN, running' \in BOOLEAN, disabled' \in SUBSET Instances,
           ~LateConnect => \A c \in Live \ gone : conn[c].signal \notin closed'
    PROVE  SignalInv'
<1>1. Lists' /\ Live' = Live \ gone
  BY InvGives, ListsAfterGone
<1>2. ~LateConnect => Fewer /\ \A c \in Live' : conn[c].signal \notin closed'
  BY <1>1, InvGives, FewerGone
<1> QED
  BY <1>1, <1>2, StepKeeps

LEMMA SameQueue == ASSUME SignalInv, queue' = queue PROVE NoneClosed(queue', queue)
  BY InvGives DEF NoneClosed

LEMMA OthersAre ==
    ASSUME SignalInv
    PROVE  /\ current \in Current /\ draining \in BOOLEAN /\ running \in BOOLEAN
           /\ disabled \in SUBSET Instances /\ destroyed \in SUBSET Instances /\ closed \in SUBSET Signals
           /\ retired \in SUBSET Instances
BY InvGives DEF Types

LEMMA ScriptIs ==
    ASSUME SignalInv, Script
    PROVE  current' \in Current /\ draining' \in BOOLEAN /\ running' \in BOOLEAN /\ UNCHANGED retired
BY OthersAre DEF Script

LEMMA InitInv == Init => SignalInv
<1> SUFFICES ASSUME Init PROVE SignalInv
  OBVIOUS
<1>1. Types
  <2>1. <<>> \in Seq(Conns) /\ <<>> \in Seq(Entry) /\ 0 \in Depth
    BY SignalsAre DEF Depth
  <2>2. Idle \in Current
    BY <2>1 DEF Idle, Current
  <2> QED
    BY <2>1, <2>2 DEF Init, Types, Lists
<1>2. Closes(queue) = {}
  BY DEF Init, Closes
<1>3. Live = {}
  BY DEF Init, Live
<1>4. \A s \in Signals : listeners[s] = <<>>
  BY DEF Init
<1>5. Queued
  BY <1>2 DEF Queued, Closers, Once, Init
<1>6. Faithful /\ Open /\ Quiet
  BY <1>3, <1>4, NothingListed DEF Faithful, Open, Quiet, Init
<1> QED
  BY <1>1, <1>5, <1>6 DEF SignalInv

LEMMA FireInv == ASSUME SignalInv, NEW s \in Signals, Fire(s) PROVE SignalInv'
<1>1. NoneClosed(queue', queue)
  <2>1. queue' = Enqueue(queue, s)
    BY DEF Fire
  <2>2. NoneClosed(Enqueue(queue, s), queue)
    BY InvGives, EnqueueIs
  <2> QED
    BY <2>1, <2>2
<1>2. Script /\ UNCHANGED <<conn, listeners, closed, disabled, destroyed>>
  BY DEF Fire, Raise
<1> QED
  BY <1>1, <1>2, ScriptIs, OthersAre, QuietStep

LEMMA DeferInv ==
    ASSUME SignalInv, NEW t \in Tasks, NEW x \in Instances \cup {Nobody}, Defer(t, x) PROVE SignalInv'
<1> DEFINE d == RaisedDepth(current.depth)
           e == [kind |-> "task", depth |-> d, task |-> t, script |-> x]
<1>1. NoneClosed(queue', queue)
  <2>1. CASE d > MaxDeferredDepth
    <3>1. queue' = Report(queue)
      BY <2>1 DEF Defer
    <3>2. NoneClosed(Report(queue), queue)
      BY InvGives, ReportIs
    <3> QED
      BY <3>1, <3>2
  <2>2. CASE ~(d > MaxDeferredDepth)
    <3>1. queue' = Append(queue, e)
      BY <2>2 DEF Defer
    <3>2. d \in Depth
      BY <2>2, InvGives, CurrentIs
    <3> HIDE DEF d
    <3>3. e \in Entry /\ e.kind # "close"
      BY <3>2 DEF Entry, Deferred
    <3> HIDE DEF e
    <3> QED
      BY <3>1, <3>3, InvGives, QueueAppend DEF NoneClosed
  <2> QED
    BY <2>1, <2>2
<1>2. Script /\ UNCHANGED <<conn, listeners, closed, disabled, destroyed>>
  BY DEF Defer, Raise
<1> QED
  BY <1>1, <1>2, ScriptIs, OthersAre, QuietStep

LEMMA SayInv == ASSUME SignalInv, Say PROVE SignalInv'
<1>1. NoneClosed(queue', queue)
  <2>1. queue' = Report(queue)
    BY DEF Say
  <2>2. NoneClosed(Report(queue), queue)
    BY InvGives, ReportIs
  <2> QED
    BY <2>1, <2>2
<1>2. Script /\ UNCHANGED <<conn, listeners, closed, disabled, destroyed>>
  BY DEF Say, Raise
<1> QED
  BY <1>1, <1>2, ScriptIs, OthersAre, QuietStep

LEMMA CancelInv == ASSUME SignalInv, NEW t \in Tasks, Cancel(t) PROVE SignalInv'
<1>1. PICK i \in DOMAIN queue : queue[i].kind = "task" /\ queue' = RemoveAt(queue, i)
  BY DEF Cancel
<1>2. NoneClosed(queue', queue)
  <2>1. queue[i].kind # "close"
    BY <1>1
  <2> QED
    BY <1>1, <2>1, InvGives, QueueRemoveAt DEF NoneClosed
<1>3. Script /\ UNCHANGED <<conn, listeners, closed, disabled, destroyed>>
  BY DEF Cancel
<1> QED
  BY <1>2, <1>3, ScriptIs, OthersAre, QuietStep

LEMMA SetEnabledInv == ASSUME SignalInv, NEW x \in Instances, SetEnabled(x) PROVE SignalInv'
<1>1. Script /\ UNCHANGED <<conn, listeners, closed, queue, destroyed>>
  BY DEF SetEnabled
<1>2. disabled' \in SUBSET Instances
  BY OthersAre DEF SetEnabled
<1> QED
  BY <1>1, <1>2, SameQueue, ScriptIs, QuietStep

LEMMA DisconnectInv == ASSUME SignalInv, NEW c \in Conns, Disconnect(c) PROVE SignalInv'
<1>1. Script /\ UNCHANGED <<closed, queue, disabled, destroyed>>
      /\ conn' = Disconnected({c}) /\ listeners' = Unlisted({c})
  BY DEF Disconnect
<1>2. ~LateConnect => \A d \in Live \ {c} : conn[d].signal \notin closed'
  BY <1>1, InvGives DEF Open
<1> QED
  BY <1>1, <1>2, SameQueue, ScriptIs, OthersAre, GoneStep

LEMMA EndSignalInv ==
    ASSUME SignalInv, NEW s \in Signals, NEW close \in BOOLEAN, EndSignal(s, close) PROVE SignalInv'
<1>1. Script /\ UNCHANGED <<queue, disabled, destroyed>>
      /\ closed' = IF close THEN closed \cup {s} ELSE closed
  BY DEF EndSignal
<1>2. CASE close /\ s \in closed
  <2>1. UNCHANGED <<conn, listeners, closed>>
    BY <1>1, <1>2 DEF EndSignal
  <2> QED
    BY <1>1, <2>1, SameQueue, ScriptIs, OthersAre, QuietStep
<1>3. CASE ~(close /\ s \in closed)
  <2> DEFINE gone == ToSet(listeners[s])
  <2>1. conn' = Disconnected(gone) /\ listeners' = Unlisted(gone)
    BY <1>3 DEF EndSignal
  <2>2. ~LateConnect => \A c \in Live \ gone : conn[c].signal \notin closed'
    BY <1>1, InvGives DEF Open
  <2>3. closed' \in SUBSET Signals /\ closed \subseteq closed'
    BY <1>1, OthersAre
  <2> HIDE DEF gone
  <2> QED
    BY <1>1, <2>1, <2>2, <2>3, SameQueue, ScriptIs, OthersAre, GoneStep
<1> QED
  BY <1>2, <1>3

LEMMA ConnectInv ==
    ASSUME SignalInv, NEW c \in Conns, NEW s \in Signals, NEW kind \in {"handler", "once", "waiter"},
           NEW x \in Instances \cup {Nobody}, Connect(c, s, kind, x)
    PROVE  SignalInv'
<1> DEFINE r == [signal |-> s, kind |-> kind, script |-> x]
<1>1. /\ Script /\ conn[c] = Free /\ Owner[s] \notin retired
      /\ ~LateConnect => s \notin closed /\ (Owner[s] \in destroyed => Owner[s] \in Closers(queue))
      /\ conn' = [conn EXCEPT ![c] = r] /\ listeners' = [listeners EXCEPT ![s] = Append(@, c)]
      /\ UNCHANGED <<closed, queue, disabled, destroyed>>
  BY DEF Connect, Closers, Closes
<1>2. r \in Connection /\ r.signal = s
  BY DEF Connection
<1> HIDE DEF r
<1>3. /\ conn' \in [Conns -> Connection \cup {Free}] /\ conn'[c] = r
      /\ \A d \in Conns : d # c => conn'[d] = conn[d]
  BY <1>1, <1>2, InvGives DEF Lists
<1>4. /\ listeners' \in [Signals -> Seq(Conns)] /\ ToSet(listeners'[s]) = ToSet(listeners[s]) \cup {c}
      /\ IsInjective(listeners[s]) /\ c \notin ToSet(listeners[s]) => IsInjective(listeners'[s])
      /\ \A t \in Signals : t # s => listeners'[t] = listeners[t]
  <2>1. listeners \in [Signals -> Seq(Conns)] /\ listeners[s] \in Seq(Conns)
    BY InvGives DEF Lists
  <2>2. listeners'[s] = Append(listeners[s], c)
    BY <1>1, <2>1
  <2>3. /\ listeners'[s] \in Seq(Conns) /\ ToSet(listeners'[s]) = ToSet(listeners[s]) \cup {c}
        /\ IsInjective(listeners[s]) /\ c \notin ToSet(listeners[s]) => IsInjective(listeners'[s])
    BY <2>1, <2>2, ListAppend
  <2>4. \A t \in Signals : t # s => listeners'[t] = listeners[t]
    BY <1>1, <2>1
  <2>5. listeners' \in [Signals -> Seq(Conns)]
    BY <1>1, <2>1, <2>2, <2>3
  <2> QED
    BY <2>3, <2>4, <2>5
<1>5. c \notin Live /\ Live' = Live \cup {c}
  <2>1. Free \notin Connection
    BY DEF Free, Connection
  <2> QED
    BY <1>1, <1>2, <1>3, <2>1 DEF Live
<1>6. Types'
  <2>1. current' \in Current /\ draining' \in BOOLEAN /\ running' \in BOOLEAN /\ UNCHANGED retired
    BY <1>1, ScriptIs
  <2> QED
    BY <1>1, <1>3, <1>4, <2>1, InvGives, OthersAre
    DEF Types, Lists, Depth, Entry, Fires, Deferred, Closing, Current, Connection, Free
<1>7. UNCHANGED retired
  BY <1>1, ScriptIs
<1>8. Queued'
  BY <1>1, <1>7, InvGives DEF Queued, Closers, Closes, Once
<1>9. ASSUME ~LateConnect PROVE Faithful' /\ Open' /\ Quiet'
  <2>1. Faithful /\ Open /\ Quiet
    BY <1>9, InvGives
  <2>2. \A t \in Signals : c \notin ToSet(listeners[t])
    BY <1>5, <2>1 DEF Faithful
  <2>3. \A d \in Live : d # c /\ d \in Conns /\ conn'[d] = conn[d] /\ conn[d].signal \in Signals
    BY <1>3, <1>5, InvGives, ConnIs
  <2>4. ASSUME NEW t \in Signals
        PROVE  IsInjective(listeners'[t]) /\ \A d \in ToSet(listeners'[t]) : d \in Live' /\ conn'[d].signal = t
    <3>1. IsInjective(listeners[t]) /\ \A d \in ToSet(listeners[t]) : d \in Live /\ conn[d].signal = t
      BY <2>1 DEF Faithful
    <3>2. CASE t = s
      BY <1>2, <1>3, <1>4, <1>5, <2>2, <2>3, <3>1, <3>2
    <3>3. CASE t # s
      BY <1>4, <1>5, <2>3, <3>1, <3>3
    <3> QED
      BY <3>2, <3>3
  <2>5. ASSUME NEW d \in Live'
        PROVE  /\ d \in ToSet(listeners'[conn'[d].signal]) /\ conn'[d].signal \notin closed'
               /\ Owner[conn'[d].signal] \notin retired'
    <3>1. CASE d = c
      BY <1>1, <1>2, <1>3, <1>4, <1>7, <1>9, <3>1
    <3>2. CASE d \in Live
      <4>1. d \in ToSet(listeners[conn[d].signal]) /\ conn[d].signal \notin closed /\ Owner[conn[d].signal] \notin retired
        BY <2>1, <3>2 DEF Open
      <4>2. conn'[d] = conn[d] /\ conn[d].signal \in Signals
        BY <2>3, <3>2
      <4> QED
        BY <1>1, <1>4, <1>7, <4>1, <4>2
    <3> QED
      BY <1>5, <3>1, <3>2
  <2>6. ASSUME NEW y \in destroyed
        PROVE  /\ y \in Closers(queue) => Of(y) \ Hooks \subseteq closed
               /\ \A d \in Live' : Owner[conn'[d].signal] = y => y \in Closers(queue) /\ conn'[d].signal \in Hooks
    <3>1. /\ y \in Closers(queue) => Of(y) \ Hooks \subseteq closed
          /\ \A d \in Live : Owner[conn[d].signal] = y => y \in Closers(queue) /\ conn[d].signal \in Hooks
      BY <2>1 DEF Quiet
    <3>2. ASSUME Owner[s] = y PROVE y \in Closers(queue) /\ s \in Hooks
      <4>1. y \in Closers(queue) /\ s \notin closed
        BY <1>1, <1>9, <3>2
      <4>2. s \in Of(y)
        BY <3>2 DEF Of
      <4> QED
        BY <3>1, <4>1, <4>2
    <3> QED
      BY <1>2, <1>3, <1>5, <2>3, <3>1, <3>2
  <2>7. Quiet'
    BY <1>1, <2>6 DEF Quiet, Closers, Closes, Of
  <2> QED
    BY <2>4, <2>5, <2>7 DEF Faithful, Open
<1> QED
  BY <1>6, <1>8, <1>9 DEF SignalInv

LEMMA DestroyInv == ASSUME SignalInv, NEW x \in Instances, Destroy(x) PROVE SignalInv'
<1> DEFINE e == [kind |-> "close", owner |-> x]
           q == EnqueueDestroying(x)
           gone == UNION {ToSet(listeners[s]) : s \in Of(x) \ (Hooks \cup closed)}
<1>1. /\ Script /\ x \notin destroyed /\ x \notin retired /\ destroyed' = destroyed \cup {x}
      /\ queue' = Append(q, e) /\ closed' = closed \cup (Of(x) \ Hooks)
      /\ conn' = Disconnected(gone) /\ listeners' = Unlisted(gone) /\ UNCHANGED disabled
  BY DEF Destroy, Raise
<1>2. q \in Seq(Entry) /\ Closers(q) = Closers(queue) /\ Once(q)
  <2>1. NoneClosed(q, queue)
    BY InvGives, EnqueueDestroyingIs
  <2> QED
    BY <2>1, InvGives DEF NoneClosed, Queued
<1>3. e \in Entry /\ e.kind = "close" /\ e.owner = x
  BY DEF Entry, Closing
<1>4. \A c \in Conns, s \in Of(x) \ (Hooks \cup closed) : c \in ToSet(listeners[s]) => c \in gone
  OBVIOUS
<1> HIDE DEF e, q, gone
<1>5. queue' \in Seq(Entry) /\ Closers(queue') = Closers(queue) \cup {x} /\ Once(queue')
  <2>1. x \notin Closers(q)
    BY <1>1, <1>2, InvGives DEF Queued
  <2> QED
    BY <1>1, <1>2, <1>3, <2>1, QueueAppend
<1>6. Lists' /\ Live' = Live \ gone /\ \A c \in Live' : conn'[c] = conn[c]
  BY <1>1, InvGives, ListsAfterGone
<1>7. current' \in Current /\ draining' \in BOOLEAN /\ running' \in BOOLEAN /\ UNCHANGED retired
  BY <1>1, ScriptIs
<1>8. Types'
  <2>1. closed' \in SUBSET Signals /\ destroyed' \in SUBSET Instances /\ retired' \in SUBSET Instances
        /\ disabled' \in SUBSET Instances
    BY <1>1, <1>7, OthersAre DEF Of
  <2> QED
    BY <1>5, <1>6, <1>7, <2>1
    DEF Types, Lists, Depth, Entry, Fires, Deferred, Closing, Current, Connection, Free
<1>9. Queued'
  <2>1. Closers(queue') \subseteq destroyed' /\ Once(queue') /\ destroyed' \cap retired' = {}
    BY <1>1, <1>5, <1>7, InvGives DEF Queued
  <2> QED
    BY <2>1 DEF Queued, Closers, Closes, Once
<1>10. ASSUME ~LateConnect PROVE Faithful' /\ Open' /\ Quiet'
  <2>1. Faithful /\ Open /\ Quiet /\ Fewer
    BY <1>1, <1>10, InvGives, FewerGone
  <2>2. ASSUME NEW c \in Live', Owner[conn[c].signal] = x PROVE conn[c].signal \in Hooks
    <3>1. c \in Live /\ c \in Conns /\ c \notin gone /\ conn[c].signal \in Signals
      BY <1>6, InvGives, ConnIs
    <3>2. conn[c].signal \in Of(x) /\ c \in ToSet(listeners[conn[c].signal]) /\ conn[c].signal \notin closed
      BY <2>1, <2>2, <3>1 DEF Of, Open
    <3> QED
      BY <1>4, <3>1, <3>2
  <2>3. \A c \in Live' : conn[c].signal \notin closed' /\ Owner[conn[c].signal] \notin retired'
    <3> SUFFICES ASSUME NEW c \in Live' PROVE conn[c].signal \notin closed' /\ Owner[conn[c].signal] \notin retired'
      OBVIOUS
    <3>1. conn[c].signal \notin closed /\ Owner[conn[c].signal] \notin retired
      BY <1>6, <2>1 DEF Open
    <3>2. conn[c].signal \notin Of(x) \ Hooks
      BY <2>2 DEF Of
    <3> QED
      BY <1>1, <1>7, <3>1, <3>2
  <2>4. Faithful' /\ Open'
    BY <2>1, <2>3, InvGives, FewerKeeps
  <2>5. ASSUME NEW y \in destroyed'
        PROVE  /\ y \in Closers(queue') => Of(y) \ Hooks \subseteq closed'
               /\ \A c \in Live' : Owner[conn'[c].signal] = y => y \in Closers(queue') /\ conn'[c].signal \in Hooks
    <3>1. CASE y = x
      BY <1>1, <1>5, <1>6, <2>2, <3>1
    <3>2. CASE y \in destroyed /\ y # x
      <4>1. /\ y \in Closers(queue) => Of(y) \ Hooks \subseteq closed
            /\ \A c \in Live : Owner[conn[c].signal] = y => y \in Closers(queue) /\ conn[c].signal \in Hooks
        BY <2>1, <3>2 DEF Quiet
      <4> QED
        BY <1>1, <1>5, <1>6, <3>2, <4>1
    <3> QED
      BY <1>1, <3>1, <3>2
  <2>6. Quiet'
    BY <2>5 DEF Quiet, Closers, Closes, Of
  <2> QED
    BY <2>4, <2>6
<1> QED
  BY <1>8, <1>9, <1>10 DEF SignalInv

LEMMA ReturnInv == ASSUME SignalInv, Return PROVE SignalInv'
<1>1. UNCHANGED <<conn, listeners, closed, queue, draining, current, disabled, destroyed, retired>> /\ running' = FALSE
  BY DEF Return, instances
<1> QED
  BY <1>1, SameQueue, OthersAre, QuietStep

LEMMA StartDrainInv == ASSUME SignalInv, StartDrain PROVE SignalInv'
<1>1. /\ UNCHANGED <<conn, listeners, closed, queue, current, running, disabled, destroyed, retired>>
      /\ draining' = TRUE
  BY DEF StartDrain, instances
<1> QED
  BY <1>1, SameQueue, OthersAre, QuietStep

LEMMA ServeTargetInv == ASSUME SignalInv, ServeTarget PROVE SignalInv'
<1> DEFINE c == Head(current.targets)
           gone == IF conn[c].kind = "handler" THEN {} ELSE {c}
<1>1. current' = [current EXCEPT !.targets = Tail(@)] /\ current.targets # <<>>
      /\ UNCHANGED <<closed, queue, draining, disabled, destroyed, retired>>
  BY DEF ServeTarget, instances
<1>2. current' \in Current
  <2>1. current \in Current /\ current.targets \in Seq(Conns)
    BY InvGives, CurrentIs DEF Types
  <2>2. Tail(current.targets) \in Seq(Conns)
    BY <1>1, <2>1, HeadTailProperties
  <2> QED
    BY <1>1, <2>1, <2>2 DEF Current
<1>3. \/ conn' = Disconnected(gone) /\ listeners' = Unlisted(gone) /\ running' = TRUE
      \/ UNCHANGED <<conn, listeners, running>>
  BY DEF ServeTarget
<1> HIDE DEF gone
<1>4. CASE conn' = Disconnected(gone) /\ listeners' = Unlisted(gone) /\ running' = TRUE
  <2>1. ~LateConnect => \A d \in Live \ gone : conn[d].signal \notin closed'
    BY <1>1, InvGives DEF Open
  <2> QED
    BY <1>1, <1>2, <1>4, <2>1, SameQueue, OthersAre, GoneStep
<1>5. CASE UNCHANGED <<conn, listeners, running>>
  BY <1>1, <1>2, <1>5, SameQueue, OthersAre, QuietStep
<1> QED
  BY <1>3, <1>4, <1>5

LEMMA TakeFireInv == ASSUME SignalInv, TakeFire PROVE SignalInv'
<1> DEFINE e == Head(queue)
<1>1. /\ queue # <<>> /\ e.kind = "fire" /\ queue' = Tail(queue)
      /\ current' = [targets |-> e.targets, depth |-> e.depth, signal |-> e.signal, hook |-> e.hook]
      /\ UNCHANGED <<conn, listeners, closed, draining, running, disabled, destroyed, retired>>
  BY DEF TakeFire, instances
<1>2. e \in Entry /\ NoneClosed(queue', queue)
  BY <1>1, InvGives, QueueTail DEF NoneClosed
<1> HIDE DEF e
<1>3. current' \in Current
  BY <1>1, <1>2, EntryIs DEF Current
<1> QED
  BY <1>1, <1>2, <1>3, OthersAre, QuietStep

LEMMA TakeTaskInv == ASSUME SignalInv, TakeTask PROVE SignalInv'
<1> DEFINE e == Head(queue)
<1>1. /\ queue # <<>> /\ e.kind = "task" /\ queue' = Tail(queue)
      /\ current' = [Idle EXCEPT !.depth = e.depth] /\ running' \in BOOLEAN
      /\ UNCHANGED <<conn, listeners, closed, draining, disabled, destroyed, retired>>
  BY DEF TakeTask, instances, Suppressed
<1>2. e \in Entry /\ NoneClosed(queue', queue)
  BY <1>1, InvGives, QueueTail DEF NoneClosed
<1> HIDE DEF e
<1>3. current' \in Current
  <2>1. <<>> \in Seq(Conns) /\ e.depth \in Depth
    BY <1>1, <1>2, EntryIs
  <2> QED
    BY <1>1, <2>1 DEF Current, Idle
<1> QED
  BY <1>1, <1>2, <1>3, OthersAre, QuietStep

LEMMA IdleIs == Idle \in Current
<1>1. <<>> \in Seq(Conns) /\ 0 \in Depth
  BY SignalsAre DEF Depth
<1> QED
  BY <1>1 DEF Idle, Current

LEMMA TakeCloseInv == ASSUME SignalInv, TakeClose PROVE SignalInv'
<1> DEFINE e == Head(queue)
           x == e.owner
           own == Of(x)
           gone == UNION {ToSet(listeners[s]) : s \in own \ closed}
<1>1. /\ queue # <<>> /\ e.kind = "close" /\ queue' = Tail(queue) /\ current' = Idle
      /\ conn' = Disconnected(gone)
      /\ listeners' = [s \in Signals |-> IF s \in own THEN <<>> ELSE listeners[s]]
      /\ closed' = closed \ own
      /\ UNCHANGED <<draining, running, disabled, destroyed, retired>>
  BY DEF TakeClose, instances
<1>2. /\ queue' \in Seq(Entry) /\ Once(queue') /\ x \in Closers(queue)
      /\ Closers(queue') = Closers(queue) \ {x}
  BY <1>1, InvGives, QueueTail DEF Queued
<1>3. \A s \in own \ closed : ToSet(listeners[s]) \subseteq gone
  OBVIOUS
<1>4. \A c \in gone : \E s \in own \ closed : c \in ToSet(listeners[s])
  OBVIOUS
<1>5. own = {s \in Signals : Owner[s] = x}
  BY DEF Of
<1> HIDE DEF e, x, own, gone
<1>6. Lists' /\ Live' = Live \ gone /\ \A c \in Live' : conn'[c] = conn[c]
  <2>1. conn' \in [Conns -> Connection \cup {Free}] /\ \A c \in Conns : conn'[c] = IF c \in gone THEN Free ELSE conn[c]
    BY <1>1, InvGives DEF Disconnected, Lists
  <2>2. listeners' \in [Signals -> Seq(Conns)]
    BY <1>1, InvGives, NothingListed DEF Lists
  <2> QED
    BY <2>1, <2>2 DEF Lists, Live
<1>7. Types'
  <2>1. closed' \in SUBSET Signals /\ current' \in Current
    BY <1>1, OthersAre, IdleIs
  <2> QED
    BY <1>1, <1>2, <1>6, <2>1, OthersAre
    DEF Types, Lists, Depth, Entry, Fires, Deferred, Closing, Current, Connection, Free
<1>8. Queued'
  <2>1. Closers(queue') \subseteq destroyed' /\ Once(queue') /\ destroyed' \cap retired' = {}
    BY <1>1, <1>2, InvGives DEF Queued
  <2> QED
    BY <2>1 DEF Queued, Closers, Closes, Once
<1>9. ASSUME ~LateConnect PROVE Faithful' /\ Open' /\ Quiet'
  <2>1. Faithful /\ Open /\ Quiet
    BY <1>9, InvGives
  <2>2. ASSUME NEW c \in Live'
        PROVE  /\ c \in Live /\ conn'[c] = conn[c] /\ conn[c].signal \in Signals \ own
               /\ c \in ToSet(listeners[conn[c].signal]) /\ conn[c].signal \notin closed
    <3>1. c \in Live /\ c \notin gone /\ conn'[c] = conn[c] /\ conn[c].signal \in Signals
      BY <1>6, InvGives, ConnIs
    <3>2. c \in ToSet(listeners[conn[c].signal]) /\ conn[c].signal \notin closed
      BY <2>1, <3>1 DEF Open
    <3> QED
      BY <1>3, <3>1, <3>2
  <2>3. ASSUME NEW s \in Signals
        PROVE  /\ IsInjective(listeners'[s]) /\ \A c \in ToSet(listeners'[s]) : c \in Live' /\ conn'[c].signal = s
               /\ s \notin own => listeners'[s] = listeners[s]
    <3>1. CASE s \in own
      BY <1>1, <3>1, NothingListed
    <3>2. CASE s \notin own
      <4>1. listeners'[s] = listeners[s]
        BY <1>1, <3>2
      <4>2. IsInjective(listeners[s]) /\ \A c \in ToSet(listeners[s]) : c \in Live /\ conn[c].signal = s
        BY <2>1 DEF Faithful
      <4>3. \A c \in ToSet(listeners[s]) : c \notin gone
        <5>1. \A c \in gone : conn[c].signal \in own
          BY <1>4, <1>5, <2>1 DEF Faithful
        <5> QED
          BY <3>2, <4>2, <5>1
      <4> QED
        BY <1>6, <3>2, <4>1, <4>2, <4>3
    <3> QED
      BY <3>1, <3>2
  <2>4. ASSUME NEW c \in Live'
        PROVE  /\ c \in ToSet(listeners'[conn'[c].signal]) /\ conn'[c].signal \notin closed'
               /\ Owner[conn'[c].signal] \notin retired'
    <3>1. /\ c \in Live /\ conn'[c] = conn[c] /\ conn[c].signal \in Signals /\ conn[c].signal \notin own
          /\ c \in ToSet(listeners[conn[c].signal]) /\ conn[c].signal \notin closed
      BY <2>2
    <3>2. Owner[conn[c].signal] \notin retired
      BY <2>1, <3>1 DEF Open
    <3>3. listeners'[conn[c].signal] = listeners[conn[c].signal]
      BY <2>3, <3>1
    <3> QED
      BY <1>1, <3>1, <3>2, <3>3
  <2>5. ASSUME NEW y \in destroyed
        PROVE  /\ y \in Closers(queue') => Of(y) \ Hooks \subseteq closed'
               /\ \A c \in Live' : Owner[conn'[c].signal] = y => y \in Closers(queue') /\ conn'[c].signal \in Hooks
    <3>1. /\ y \in Closers(queue) => Of(y) \ Hooks \subseteq closed
          /\ \A c \in Live : Owner[conn[c].signal] = y => y \in Closers(queue) /\ conn[c].signal \in Hooks
      BY <2>1 DEF Quiet
    <3>2. CASE y = x
      <4>1. y \notin Closers(queue')
        BY <1>2, <3>2
      <4>2. \A c \in Live' : Owner[conn'[c].signal] # y
        BY <1>5, <2>2, <3>2
      <4> QED
        BY <4>1, <4>2
    <3>3. CASE y # x
      <4>1. Of(y) \cap own = {}
        BY <1>5, <3>3 DEF Of
      <4>2. y \in Closers(queue') <=> y \in Closers(queue)
        BY <1>2, <3>3
      <4> QED
        BY <1>1, <2>2, <3>1, <4>1, <4>2
    <3> QED
      BY <3>2, <3>3
  <2>6. Quiet'
    BY <1>1, <2>5 DEF Quiet, Closers, Closes, Of
  <2> QED
    BY <2>3, <2>4, <2>6 DEF Faithful, Open
<1> QED
  BY <1>7, <1>8, <1>9 DEF SignalInv

LEMMA EndDrainInv == ASSUME SignalInv, EndDrain PROVE SignalInv'
<1>1. /\ queue = <<>> /\ draining' = FALSE /\ current' = Idle
      /\ retired' = retired \cup destroyed /\ destroyed' = {}
      /\ UNCHANGED <<conn, listeners, closed, queue, running, disabled>>
  BY DEF EndDrain
<1>2. Closers(queue) = {}
  BY <1>1 DEF Closers, Closes
<1>3. Types'
  <2>1. retired' \in SUBSET Instances /\ destroyed' \in SUBSET Instances /\ current' \in Current
    BY <1>1, OthersAre, IdleIs
  <2> QED
    BY <1>1, <2>1, InvGives, OthersAre
    DEF Types, Lists, Depth, Entry, Fires, Deferred, Closing, Current, Connection, Free
<1>4. Queued'
  <2>1. Closers(queue') \subseteq destroyed' /\ Once(queue') /\ destroyed' \cap retired' = {}
    BY <1>1, <1>2, InvGives DEF Queued
  <2> QED
    BY <2>1 DEF Queued, Closers, Closes, Once
<1>5. ASSUME ~LateConnect PROVE Faithful' /\ Open' /\ Quiet'
  <2>1. Faithful /\ Open /\ Quiet /\ Fewer
    BY <1>1, <1>5, InvGives, FewerNone
  <2>2. Live' = Live
    BY <1>1 DEF Live
  <2>3. \A c \in Live' : conn[c].signal \notin closed' /\ Owner[conn[c].signal] \notin retired'
    BY <1>1, <1>2, <2>1, <2>2 DEF Open, Quiet
  <2>4. Faithful' /\ Open'
    BY <2>1, <2>3, InvGives, FewerKeeps
  <2> QED
    BY <1>1, <2>4 DEF Quiet
<1> QED
  BY <1>3, <1>4, <1>5 DEF SignalInv

LEMMA NextInv == SignalInv /\ [Next]_vars => SignalInv'
<1> SUFFICES ASSUME SignalInv, [Next]_vars PROVE SignalInv'
  OBVIOUS
<1>1. CASE UNCHANGED vars
  <2>1. UNCHANGED <<conn, listeners, closed, queue, draining, current, running, disabled, destroyed, retired>>
    BY <1>1 DEF vars
  <2> QED
    BY <2>1, SameQueue, OthersAre, QuietStep
<1>2. ASSUME NEW s \in Signals, Fire(s) PROVE SignalInv'
  BY <1>2, FireInv
<1>3. ASSUME NEW s \in Signals, NEW close \in BOOLEAN, EndSignal(s, close) PROVE SignalInv'
  BY <1>3, EndSignalInv
<1>4. ASSUME NEW t \in Tasks, Cancel(t) PROVE SignalInv'
  BY <1>4, CancelInv
<1>5. ASSUME NEW t \in Tasks, NEW x \in Instances \cup {Nobody}, Defer(t, x) PROVE SignalInv'
  BY <1>5, DeferInv
<1>6. ASSUME NEW c \in Conns, Disconnect(c) PROVE SignalInv'
  BY <1>6, DisconnectInv
<1>7. ASSUME NEW c \in Conns, NEW s \in Signals, NEW kind \in {"handler", "once", "waiter"},
             NEW x \in Instances \cup {Nobody}, Connect(c, s, kind, x)
      PROVE SignalInv'
  BY <1>7, ConnectInv
<1>8. ASSUME NEW x \in Instances, SetEnabled(x) PROVE SignalInv'
  BY <1>8, SetEnabledInv
<1>9. ASSUME NEW x \in Instances, Destroy(x) PROVE SignalInv'
  BY <1>9, DestroyInv
<1>10. CASE Say \/ Return \/ StartDrain
  BY <1>10, SayInv, ReturnInv, StartDrainInv
<1>11. CASE Drain
  BY <1>11, ServeTargetInv, TakeFireInv, TakeTaskInv, TakeCloseInv, EndDrainInv DEF Drain
<1> QED
  BY <1>1, <1>2, <1>3, <1>4, <1>5, <1>6, <1>7, <1>8, <1>9, <1>10, <1>11 DEF Next

THEOREM SignalInvHolds == Spec => []SignalInv
<1> QED
  BY InitInv, NextInv, PTL DEF Spec

-----------------------------------------------------------------------------
(* What is proved of the signals *)

\* Everything stays in its type, and no entry is deeper than the cap.
LEMMA TypesAre == Types => TypeOK
<1> SUFFICES ASSUME Types PROVE TypeOK
  OBVIOUS
<1>1. \A c \in Live : /\ conn[c].signal \in Signals /\ conn[c].kind \in {"handler", "once", "waiter"}
                      /\ conn[c].script \in Instances \cup {Nobody}
  BY ConnIs DEF Types
<1>2. ASSUME NEW i \in DOMAIN queue PROVE EntryOK(queue[i])
  <2>1. queue[i] \in Entry
    BY ElementOfSeq, LenProperties DEF Types
  <2> QED
    BY <2>1, EntryIs DEF EntryOK, Depth
<1>3. /\ current.targets \in Seq(Conns) /\ current.depth \in 0..MaxDeferredDepth
      /\ current.signal \in Signals \cup {Nobody} /\ current.hook \in BOOLEAN
  BY CurrentIs DEF Depth, Types, Current
<1> QED
  BY <1>1, <1>2, <1>3 DEF TypeOK, Types, Lists

LEMMA QueuedIs == Types /\ Queued => RetiredAfterDestroying
BY DEF Queued, Closers, Closes, RetiredAfterDestroying

\* Whatever scripts do, late connections included: entries, depths and targets keep
\* their types, and an instance is retired only after its Destroying and its close.
THEOREM QueueExact == Spec => [](TypeOK /\ RetiredAfterDestroying)
<1>1. SignalInv => TypeOK /\ RetiredAfterDestroying
  BY InvGives, TypesAre, QueuedIs
<1> QED
  BY <1>1, SignalInvHolds, PTL

\* ListsExact: as long as no script connects to what has been closed, a connection
\* is live exactly while it is on the list of its signal, through every fire, drain,
\* disconnect and Destroy.
THEOREM ListsExactHolds ==
    ASSUME ~LateConnect
    PROVE  Spec => []ListsExact
<1>1. SignalInv => ListsExact
  <2> SUFFICES ASSUME SignalInv PROVE ListsExact
    OBVIOUS
  <2>1. TypeOK /\ RetiredAfterDestroying
    BY InvGives, TypesAre, QueuedIs
  <2>2. ConnectedIsListed
    BY InvGives DEF Faithful, Open, ConnectedIsListed
  <2> QED
    BY <2>1, <2>2 DEF ListsExact
<1> QED
  BY <1>1, SignalInvHolds, PTL

\* DestroyedIsSilent: whoever is resumed in a drain for a signal of a destroyed
\* instance hears its Destroying, and nothing else of it.
THEOREM DestroyedIsSilentHolds ==
    ASSUME ~LateConnect
    PROVE  Spec => DestroyedIsSilent
<1> DEFINE Silent == \A c \in Conns : Resumes(c) /\ Owner[conn[c].signal] \in destroyed => conn[c].signal \in Hooks
<1>1. SignalInv /\ [Next]_vars => [Silent]_vars
  <2> SUFFICES ASSUME SignalInv, Next, NEW c \in Conns, Resumes(c), Owner[conn[c].signal] \in destroyed
               PROVE  conn[c].signal \in Hooks
    OBVIOUS
  <2>1. ~running /\ running' /\ current.targets # <<>> /\ c = Head(current.targets)
    BY DEF Resumes
  <2>2. ServeTarget
    BY <2>1 DEF Next, Drain, Fire, EndSignal, Cancel, Defer, Disconnect, Connect, SetEnabled, Destroy, Say,
       Return, StartDrain, TakeFire, TakeTask, TakeClose, EndDrain, Raise, Script
  <2>3. c \in Live
    BY <2>1, <2>2 DEF ServeTarget
  <2> QED
    BY <2>3, InvGives DEF Quiet
<1>2. SignalInv /\ [Next]_vars => [\A c \in Conns : Resumes(c) /\ Owner[conn[c].signal] \in destroyed => conn[c].signal \in Hooks]_vars
  BY <1>1
<1> QED
  BY <1>2, SignalInvHolds, PTL DEF Spec, DestroyedIsSilent

-----------------------------------------------------------------------------
(* The line of the drain *)

Elem      == Conns \cup Tasks
Rows(q)   == [i \in DOMAIN q |-> Targets(q[i])]
Queue(q)  == Joined(Rows(q))
Resumable == Tasks \cup Live

LEMMA ToComeIs == ToCome = current.targets \o Queue(queue)
BY DEF ToCome, Queue, Rows

LEMMA TargetsType == ASSUME NEW e \in Entry PROVE Targets(e) \in Seq(Elem)
<1>1. CASE e.kind = "fire"
  <2>1. e.targets \in Seq(Conns)
    BY <1>1, EntryIs
  <2>2. e.targets \in Seq(Elem)
    BY <2>1 DEF Elem
  <2> QED
    BY <1>1, <2>2 DEF Targets
<1>2. CASE e.kind = "task"
  <2>1. e.task \in Elem
    BY <1>2, EntryIs DEF Elem
  <2>2. <<e.task>> \in Seq(Elem)
    BY <2>1
  <2> QED
    BY <1>2, <2>2 DEF Targets
<1>3. CASE e.kind = "close"
  <2>1. Targets(e) = <<>>
    BY <1>3 DEF Targets
  <2> QED
    BY <2>1
<1> QED
  BY <1>1, <1>2, <1>3, EntryIs

LEMMA RowsType ==
    ASSUME NEW q \in Seq(Entry)
    PROVE  /\ Rows(q) \in Seq(Seq(Elem)) /\ Len(Rows(q)) = Len(q) /\ Queue(q) \in Seq(Elem)
           /\ \A i \in 1..Len(q) : Rows(q)[i] = Targets(q[i])
<1>1. DOMAIN q = 1..Len(q) /\ Len(q) \in Nat /\ \A i \in 1..Len(q) : q[i] \in Entry
  BY LenProperties, ElementOfSeq
<1>2. \A i \in 1..Len(q) : Targets(q[i]) \in Seq(Elem)
  BY <1>1, TargetsType
<1>3. /\ Rows(q) \in Seq(Seq(Elem)) /\ Len(Rows(q)) = Len(q)
      /\ \A i \in 1..Len(q) : Rows(q)[i] = Targets(q[i])
  BY <1>1, <1>2 DEF Rows
<1> QED
  BY <1>3, JoinedType DEF Queue

LEMMA RowsConcat ==
    ASSUME NEW p \in Seq(Entry), NEW q \in Seq(Entry)
    PROVE  p \o q \in Seq(Entry) /\ Queue(p \o q) = Queue(p) \o Queue(q)
<1> DEFINE u == p \o q
           a == Rows(p)
           b == Rows(q)
           c == Rows(u)
<1>1. /\ u \in Seq(Entry) /\ Len(u) = Len(p) + Len(q) /\ Len(p) \in Nat /\ Len(q) \in Nat
      /\ \A i \in 1..Len(p) : u[i] = p[i]
      /\ \A i \in (Len(p) + 1)..(Len(p) + Len(q)) : u[i] = q[i - Len(p)]
  OBVIOUS
<1> HIDE DEF u
<1>2. /\ a \in Seq(Seq(Elem)) /\ Len(a) = Len(p) /\ b \in Seq(Seq(Elem)) /\ Len(b) = Len(q)
      /\ c \in Seq(Seq(Elem)) /\ Len(c) = Len(u)
      /\ \A i \in 1..Len(p) : a[i] = Targets(p[i])
      /\ \A i \in 1..Len(q) : b[i] = Targets(q[i])
      /\ \A i \in 1..Len(u) : c[i] = Targets(u[i])
  BY <1>1, RowsType
<1> HIDE DEF a, b, c
<1> DEFINE d == a \o b
           T == Seq(Elem)
<1>3. /\ d \in Seq(T) /\ Len(d) = Len(p) + Len(q)
      /\ \A i \in 1..Len(p) : d[i] = a[i]
      /\ \A i \in 1..Len(q) : d[Len(p) + i] = b[i]
  <2> HIDE DEF T
  <2>1. a \in Seq(T) /\ b \in Seq(T)
    BY <1>2 DEF T
  <2>2. /\ a \o b \in Seq(T) /\ Len(a \o b) = Len(a) + Len(b)
        /\ \A i \in 1..Len(a) : (a \o b)[i] = a[i]
        /\ \A i \in 1..Len(b) : (a \o b)[Len(a) + i] = b[i]
    BY <2>1
  <2> QED
    BY <1>2, <2>2
<1> HIDE DEF d
<1>4. c = d
  <2>1. ASSUME NEW i \in 1..Len(c) PROVE c[i] = d[i]
    <3>1. CASE i \in 1..Len(p)
      BY <1>1, <1>2, <1>3, <3>1
    <3>2. CASE i \in (Len(p) + 1)..(Len(p) + Len(q))
      <4> DEFINE k == i - Len(p)
      <4>1. k \in 1..Len(q) /\ Len(p) + k = i /\ u[i] = q[k] /\ i \in 1..Len(u)
        BY <1>1, <3>2
      <4> HIDE DEF k
      <4>2. c[i] = Targets(q[k]) /\ b[k] = Targets(q[k]) /\ d[Len(p) + k] = b[k]
        BY <1>2, <1>3, <4>1
      <4> QED
        BY <4>1, <4>2
    <3> QED
      BY <1>1, <1>2, <3>1, <3>2
  <2> QED
    BY <1>1, <1>2, <1>3, <2>1, SeqEqual
<1>5. Joined(d) = Joined(a) \o Joined(b)
  BY <1>2, JoinedConcat DEF d
<1> QED
  BY <1>1, <1>4, <1>5 DEF u, a, b, c, Queue

LEMMA QueueOne == ASSUME NEW e \in Entry PROVE Queue(<<e>>) = Targets(e)
<1>1. Rows(<<e>>) = <<Targets(e)>>
  BY DEF Rows
<1> QED
  BY <1>1, TargetsType, JoinedOne DEF Queue

LEMMA QueueNone == Queue(<<>>) = <<>>
<1>1. Rows(<<>>) = <<>>
  BY DEF Rows
<1> QED
  BY <1>1, JoinedNone DEF Queue

LEMMA QueueEnd ==
    ASSUME NEW q \in Seq(Entry), NEW e \in Entry
    PROVE  Queue(Append(q, e)) = Queue(q) \o Targets(e)
<1>1. Append(q, e) = q \o <<e>> /\ <<e>> \in Seq(Entry)
  OBVIOUS
<1> QED
  BY <1>1, RowsConcat, QueueOne

LEMMA QueueHead ==
    ASSUME NEW q \in Seq(Entry), q # <<>>
    PROVE  Queue(q) = Targets(Head(q)) \o Queue(Tail(q))
<1>1. Head(q) \in Entry /\ Tail(q) \in Seq(Entry) /\ q = <<Head(q)>> \o Tail(q) /\ <<Head(q)>> \in Seq(Entry)
  OBVIOUS
<1> QED
  BY <1>1, RowsConcat, QueueOne

LEMMA ToComeType == ASSUME Types PROVE ToCome \in Seq(Elem) /\ current.targets \in Seq(Elem) /\ Queue(queue) \in Seq(Elem)
<1>1. current.targets \in Seq(Conns) /\ queue \in Seq(Entry)
  BY CurrentIs DEF Types
<1>2. current.targets \in Seq(Elem) /\ Queue(queue) \in Seq(Elem)
  BY <1>1, RowsType DEF Elem
<1> QED
  BY <1>2, ToComeIs

-----------------------------------------------------------------------------
(* The line of DeferredOrder *)

Line     == Only(ToCome, Resumable)
OneShots == {c \in Live : conn[c].kind # "handler"}
NoShares == Conns \cap Tasks = {}

LEMMA LiveIs == ASSUME Types PROVE Live \subseteq Conns /\ Resumable \subseteq Elem /\ OneShots \subseteq Live
BY DEF Live, Resumable, Elem, OneShots

LEMMA OrderWithout ==
    ASSUME NEW s, NEW gone
    PROVE  Order!Without(s, gone) = Only(s, Elem \ gone)
BY DEF Order!Without, Order!Only, Only, Elem

LEMMA LineType == ASSUME Types PROVE Line \in Seq(Elem)
BY ToComeType, OnlyType DEF Line

\* What a loop over the listeners leaves.
LEMMA UnlistedIs ==
    ASSUME Types, NEW gone
    PROVE  Unlisted(gone) = [s \in Signals |-> Order!Without(listeners[s], gone)]
<1> SUFFICES ASSUME NEW s \in Signals
             PROVE  Sublist(listeners[s], {i \in DOMAIN listeners[s] : listeners[s][i] \notin gone})
                      = Only(listeners[s], Elem \ gone)
  BY OrderWithout DEF Unlisted
<1> DEFINE l == listeners[s]
<1>1. l \in Seq(Conns)
  BY DEF Types, Lists
<1> HIDE DEF l
<1>2. DOMAIN l = 1..Len(l) /\ \A i \in DOMAIN l : l[i] \in Elem
  BY <1>1 DEF Elem
<1>3. {i \in DOMAIN l : l[i] \notin gone} = {i \in DOMAIN l : l[i] \in Elem \ gone}
  BY <1>2
<1>4. OnlyPlaces(l, Elem \ gone) = Only(l, Elem \ gone)
  BY <1>1, OnlyIsSublist
<1> QED
  BY <1>3, <1>4 DEF OnlyPlaces, l

LEMMA NoneGone ==
    ASSUME Types
    PROVE  conn = Disconnected({}) /\ listeners = Unlisted({})
<1>1. conn = [c \in Conns |-> conn[c]]
  BY DEF Types, Lists
<1>2. ASSUME NEW s \in Signals PROVE Only(listeners[s], Elem \ {}) = listeners[s]
  <2>1. listeners[s] \in Seq(Conns) /\ listeners[s] \in Seq(Elem)
    BY DEF Types, Lists, Elem
  <2>2. \A i \in 1..Len(listeners[s]) : listeners[s][i] \in Elem \ {}
    BY <2>1 DEF Elem
  <2> QED
    BY <2>1, <2>2, OnlyAll
<1>3. listeners = [s \in Signals |-> listeners[s]]
  BY DEF Types, Lists
<1>4. \A s \in Signals : Order!Without(listeners[s], {}) = listeners[s]
  BY <1>2, OrderWithout
<1>5. Unlisted({}) = [s \in Signals |-> Order!Without(listeners[s], {})]
  BY UnlistedIs
<1>6. Unlisted({}) = [s \in Signals |-> listeners[s]]
  BY <1>4, <1>5
<1> QED
  BY <1>1, <1>3, <1>6 DEF Disconnected

\* What is left of the one-shots.
LEMMA OneShotsGone ==
    ASSUME Types, NEW gone, conn' = Disconnected(gone)
    PROVE  Live' = Live \ gone /\ OneShots' = OneShots \ gone /\ Resumable' = Tasks \cup (Live \ gone)
<1>1. \A c \in Conns : conn'[c] = IF c \in gone THEN Free ELSE conn[c]
  BY DEF Disconnected
<1>2. Live' = Live \ gone
  BY <1>1 DEF Live
<1>3. OneShots' = OneShots \ gone
  BY <1>1, <1>2 DEF OneShots, Live
<1> QED
  BY <1>2, <1>3 DEF Resumable

\* The line without some.
LEMMA LineWithout ==
    ASSUME Types, NEW gone, gone \cap Tasks = {}
    PROVE  Order!Without(Line, gone) = Only(ToCome, Tasks \cup (Live \ gone))
<1>1. Resumable \cap (Elem \ gone) = Tasks \cup (Live \ gone)
  BY DEF Resumable, Elem, Live
<1>2. Only(Line, Elem \ gone) = Only(ToCome, Resumable \cap (Elem \ gone))
  BY ToComeType, OnlyTwice DEF Line
<1> QED
  BY <1>1, <1>2, OrderWithout

\* Some leave the lists and the line, behind what is new.
Moves(new, gone) == Order!Leave(gone) /\ Line' = Order!Without(Line \o new, gone)
\* Nothing happens to them.
Still == UNCHANGED listeners /\ OneShots' = OneShots /\ Line' = Line

\* Something is raised, and some are disconnected.
LEMMA RaiseMoves ==
    ASSUME Types, NoShares, NEW gone \in SUBSET Conns, NEW new \in Seq(Elem),
           \A i \in 1..Len(new) : new[i] \in Resumable,
           ToCome' = ToCome \o new, conn' = Disconnected(gone), listeners' = Unlisted(gone)
    PROVE  Moves(new, gone)
<1> DEFINE R == Tasks \cup (Live \ gone)
<1>1. gone \cap Tasks = {} /\ ToCome \in Seq(Elem) /\ Line \in Seq(Elem)
  BY ToComeType, LineType DEF NoShares
<1>2. Line' = Only(ToCome \o new, R)
  BY OneShotsGone DEF Line
<1>0. \A x \in Seq(Elem) : Only(x \o new, R) = Only(x, R) \o Only(new, R)
  <2> HIDE DEF R
  <2> QED
    BY OnlyConcat
<1>3. Only(ToCome \o new, R) = Only(ToCome, R) \o Only(new, R)
  BY <1>0, <1>1
<1>4. Only(Line \o new, Elem \ gone) = Only(Line, Elem \ gone) \o Only(new, Elem \ gone)
  <2> DEFINE T == Elem \ gone
  <2> HIDE DEF T
  <2>1. \A x \in Seq(Elem) : Only(x \o new, T) = Only(x, T) \o Only(new, T)
    BY OnlyConcat
  <2>2. Only(Line \o new, T) = Only(Line, T) \o Only(new, T)
    BY <1>1, <2>1
  <2> QED
    BY <2>2 DEF T
<1>5. Only(Line, Elem \ gone) = Only(ToCome, R)
  BY <1>1, LineWithout, OrderWithout
<1>6. Only(new, Elem \ gone) = Only(new, R)
  <2>1. \A i \in 1..Len(new) : new[i] \in Elem \ gone <=> new[i] \in R
    BY <1>1 DEF Resumable, Elem, Live
  <2> HIDE DEF R
  <2> QED
    BY <2>1, OnlySame
<1> HIDE DEF R
<1>7. Line' = Order!Without(Line \o new, gone)
  BY <1>2, <1>3, <1>4, <1>5, <1>6, OrderWithout
<1>8. listeners' = [s \in Signals |-> Order!Without(listeners[s], gone)]
  BY UnlistedIs
<1>9. OneShots' = OneShots \ gone
  BY OneShotsGone
<1> QED
  BY <1>7, <1>8, <1>9 DEF Moves, Order!Leave, OneShots

LEMMA LeaveNone ==
    ASSUME Types, UNCHANGED <<conn, listeners>>
    PROVE  Order!Leave({}) /\ \A s \in Seq(Elem) : Order!Without(s, {}) = s
<1>1. listeners' = [s \in Signals |-> Order!Without(listeners[s], {})]
  BY NoneGone, UnlistedIs
<1>2. OneShots' = OneShots \ {}
  BY DEF OneShots, Live
<1>3. ASSUME NEW s \in Seq(Elem) PROVE Order!Without(s, {}) = s
  <2>1. \A i \in 1..Len(s) : s[i] \in Elem \ {}
    OBVIOUS
  <2>2. Only(s, Elem \ {}) = s
    BY <2>1, OnlyAll
  <2> QED
    BY <2>2, OrderWithout
<1> QED
  BY <1>1, <1>2, <1>3 DEF Order!Leave, OneShots

-----------------------------------------------------------------------------
(* Whose turn it is, and who is passed over *)

LEMMA StepIsNext ==
    ASSUME Order!Step
    PROVE  Order!Next
<1>1. Stopped' \in SUBSET (Conns \cup Tasks)
  BY DEF Stopped, Live
<1> QED
  BY <1>1 DEF Order!Next

LEMMA StillStep ==
    ASSUME Still, Ready' = Ready
    PROVE  Order!Step
BY DEF Still, Order!Step, Line, Resumable, OneShots

LEMMA ScriptAtWork ==
    ASSUME Script
    PROVE  ~Ready /\ Ready' \in BOOLEAN
BY DEF Script, Ready

LEMMA ResumeIsStep ==
    ASSUME Ready, ~Ready', Line # <<>>, NEW gone, gone = {Head(Line)} \cap OneShots,
           Order!Leave(gone), Line' = Order!Without(Tail(Line), gone)
    PROVE  Order!Step
<1>1. Order!Leave({Head(Line)} \cap OneShots)
  BY DEF Order!Leave, OneShots
<1>2. Line' = Order!Without(Tail(Line), {Head(Line)} \cap OneShots)
  BY Zenon
<1>3. Order!Resume
  BY <1>1, <1>2 DEF Order!Resume, Line, Resumable, OneShots
<1> QED
  BY <1>3 DEF Order!Step

LEMMA RaiseIsStep ==
    ASSUME ~Ready, Ready' \in BOOLEAN, NEW gone \in SUBSET (Conns \cup Tasks),
           NEW new \in {<<>>} \cup {listeners[s] : s \in Signals} \cup {<<t>> : t \in Tasks},
           Moves(new, gone)
    PROVE  Order!Step
<1>1. Order!Raise(new, gone)
  BY DEF Moves, Order!Raise, Line, Resumable, OneShots
<1> QED
  BY <1>1 DEF Order!Step

-----------------------------------------------------------------------------
(* What is raised, in the line *)

Raised == {<<>>} \cup {listeners[s] : s \in Signals}

LEMMA FireTargets == ASSUME NEW s, NEW d PROVE Targets(FireEntry(s, d)) = listeners[s]
BY DEF Targets, FireEntry

LEMMA ReportRaises ==
    ASSUME Types, NEW q \in Seq(Entry)
    PROVE  \E new \in Raised : Queue(Report(q)) = Queue(q) \o new
<1>0. Queue(q) \in Seq(Elem) /\ <<>> \in Raised
  BY RowsType DEF Raised
<1>1. CASE Console = Nobody \/ Console \in closed
  <2>1. Queue(q) \o <<>> = Queue(q)
    BY <1>0
  <2> QED
    BY <1>0, <1>1, <2>1 DEF Report
<1>2. CASE ~(Console = Nobody \/ Console \in closed)
  <2>1. Console \in Signals /\ current.depth \in Depth
    BY <1>2, SignalsAre, CurrentIs
  <2> DEFINE e == FireEntry(Console, current.depth)
  <2>2. Report(q) = Append(q, e) /\ e \in Entry /\ Targets(e) = listeners[Console]
    BY <1>2, <2>1, FireIsEntry, FireTargets DEF Report
  <2> HIDE DEF e
  <2>3. Queue(Append(q, e)) = Queue(q) \o listeners[Console]
    BY <2>2, QueueEnd
  <2> QED
    BY <2>1, <2>2, <2>3 DEF Raised
<1> QED
  BY <1>1, <1>2

LEMMA EnqueueRaises ==
    ASSUME Types, NEW q \in Seq(Entry), NEW s \in Signals
    PROVE  \E new \in Raised : Queue(Enqueue(q, s)) = Queue(q) \o new
<1> DEFINE d == RaisedDepth(current.depth)
<1>1. CASE s \in closed
  <2>1. Queue(q) \in Seq(Elem) /\ <<>> \in Raised
    BY RowsType DEF Raised
  <2>2. Queue(q) \o <<>> = Queue(q)
    BY <2>1
  <2> QED
    BY <1>1, <2>1, <2>2 DEF Enqueue
<1>2. CASE s \notin closed /\ d > MaxDeferredDepth
  <2>1. Enqueue(q, s) = Report(q)
    BY <1>2 DEF Enqueue
  <2> QED
    BY <2>1, ReportRaises
<1>3. CASE s \notin closed /\ ~(d > MaxDeferredDepth)
  <2>1. Enqueue(q, s) = Append(q, FireEntry(s, d)) /\ d \in Depth
    BY <1>3, CurrentIs DEF Enqueue
  <2> HIDE DEF d
  <2> DEFINE e == FireEntry(s, d)
  <2>2. e \in Entry /\ Targets(e) = listeners[s]
    BY <2>1, FireIsEntry, FireTargets
  <2> HIDE DEF e
  <2>3. Queue(Append(q, e)) = Queue(q) \o listeners[s]
    BY <2>2, QueueEnd
  <2> QED
    BY <2>1, <2>3 DEF Raised, e
<1> QED
  BY <1>1, <1>2, <1>3

LEMMA MarkedQueue ==
    ASSUME NEW q \in Seq(Entry), NEW s
    PROVE  Queue(Marked(q, s)) = Queue(q)
<1> DEFINE u == Marked(q, s)
<1>1. /\ DOMAIN q = 1..Len(q) /\ DOMAIN u = 1..Len(q)
      /\ \A i \in 1..Len(q) : Targets(u[i]) = Targets(q[i])
  BY MarkedParts, LenProperties
<1> HIDE DEF u
<1>2. Rows(u) = Rows(q)
  BY <1>1 DEF Rows
<1> QED
  BY <1>2 DEF Queue, u

LEMMA DestroyingRaises ==
    ASSUME Types, NEW x \in Instances
    PROVE  \E new \in Raised : Queue(EnqueueDestroying(x)) = Queue(queue) \o new
<1> DEFINE h == CHOOSE s \in Of(x) \cap Hooks : TRUE
<1>1. queue \in Seq(Entry)
  BY DEF Types
<1>2. CASE Of(x) \cap Hooks = {}
  <2>1. Queue(queue) \in Seq(Elem) /\ <<>> \in Raised
    BY <1>1, RowsType DEF Raised
  <2>2. Queue(queue) \o <<>> = Queue(queue)
    BY <2>1
  <2> QED
    BY <1>2, <2>1, <2>2 DEF EnqueueDestroying
<1>3. CASE Of(x) \cap Hooks # {}
  <2>1. h \in Signals
    BY <1>3 DEF Of
  <2> DEFINE q == Enqueue(queue, h)
  <2>2. EnqueueDestroying(x) = Marked(q, h)
    BY <1>3 DEF EnqueueDestroying
  <2> HIDE DEF h
  <2>3. q \in Seq(Entry) /\ \E new \in Raised : Queue(q) = Queue(queue) \o new
    BY <1>1, <2>1, EnqueueIs, EnqueueRaises DEF NoneClosed
  <2> HIDE DEF q
  <2>4. Queue(Marked(q, h)) = Queue(q)
    BY <2>3, MarkedQueue
  <2> QED
    BY <2>2, <2>3, <2>4
<1> QED
  BY <1>2, <1>3

\* Those raised are connected.
LEMMA RaisedAre ==
    ASSUME Types, Faithful, NEW new \in Raised
    PROVE  new \in Seq(Elem) /\ \A i \in 1..Len(new) : new[i] \in Resumable
<1>1. CASE new = <<>>
  BY <1>1
<1>2. ASSUME NEW s \in Signals, new = listeners[s]
      PROVE  new \in Seq(Elem) /\ \A i \in 1..Len(new) : new[i] \in Resumable
  <2>1. new \in Seq(Conns) /\ DOMAIN new = 1..Len(new)
    BY <1>2, LenProperties DEF Types, Lists
  <2>2. \A i \in 1..Len(new) : new[i] \in Live
    BY <1>2, <2>1, ToSetIs DEF Faithful
  <2> QED
    BY <2>1, <2>2 DEF Elem, Resumable
<1> QED
  BY <1>1, <1>2 DEF Raised

\* A step that raises something, or nothing, and disconnects some, or none.
LEMMA RaisesInOrder ==
    ASSUME Types, Faithful, NoShares, NEW gone \in SUBSET Conns, NEW new \in Raised,
           Queue(queue') = Queue(queue) \o new, current'.targets = current.targets,
           conn' = Disconnected(gone), listeners' = Unlisted(gone)
    PROVE  Moves(new, gone)
<1>1. new \in Seq(Elem) /\ \A i \in 1..Len(new) : new[i] \in Resumable
  BY RaisedAre
<1>2. ToCome' = ToCome \o new
  <2>1. ToCome' = current.targets \o (Queue(queue) \o new)
    BY DEF ToCome, Queue, Rows
  <2>2. current.targets \o (Queue(queue) \o new) = (current.targets \o Queue(queue)) \o new
    <3> DEFINE a == current.targets  b == Queue(queue)
    <3>1. a \in Seq(Elem) /\ b \in Seq(Elem)
      BY ToComeType
    <3> HIDE DEF a, b
    <3>2. a \o (b \o new) = (a \o b) \o new
      BY <1>1, <3>1
    <3> QED
      BY <3>2 DEF a, b
  <2> QED
    BY <2>1, <2>2, ToComeIs
<1> QED
  BY <1>1, <1>2, RaiseMoves

LEMMA RaisesStep ==
    ASSUME Types, Faithful, NoShares, Script, NEW gone \in SUBSET Conns, NEW new \in Raised,
           Queue(queue') = Queue(queue) \o new, current'.targets = current.targets,
           conn' = Disconnected(gone), listeners' = Unlisted(gone)
    PROVE  Order!Step
<1>1. Moves(new, gone)
  BY RaisesInOrder
<1>2. gone \in SUBSET (Conns \cup Tasks)
  OBVIOUS
<1>3. new \in {<<>>} \cup {listeners[s] : s \in Signals} \cup {<<t>> : t \in Tasks}
  BY DEF Raised
<1> QED
  BY <1>1, <1>2, <1>3, ScriptAtWork, RaiseIsStep

\* One that leaves the connections alone.
LEMMA RaisesOnly ==
    ASSUME Types, Faithful, NoShares, Script, NEW new \in Raised,
           Queue(queue') = Queue(queue) \o new, current'.targets = current.targets,
           UNCHANGED <<conn, listeners>>
    PROVE  Order!Step
<1>1. conn' = Disconnected({}) /\ listeners' = Unlisted({}) /\ {} \in SUBSET Conns
  BY NoneGone
<1> QED
  BY <1>1, RaisesStep

\* One that changes nothing of the line.
LEMMA Unmoved ==
    ASSUME ToCome' = ToCome, UNCHANGED <<conn, listeners>>
    PROVE  Still
<1>1. Live' = Live /\ Line' = Line /\ OneShots' = OneShots
  BY DEF Live, Line, Resumable, OneShots
<1> QED
  BY <1>1 DEF Still

-----------------------------------------------------------------------------
(* The steps, in the line *)

\* No task is queued twice.
TasksOnce(q) == \A i, j \in 1..Len(q) :
                    q[i].kind = "task" /\ q[j].kind = "task" /\ q[i].task = q[j].task => i = j

LineInv == SignalInv /\ Faithful /\ Open /\ TasksOnce(queue)

LEMMA LineGives ==
    ASSUME LineInv
    PROVE  Types /\ Lists /\ Faithful /\ Open /\ queue \in Seq(Entry) /\ NoShares
BY InvGives, SignalAssumption DEF LineInv, NoShares

LEMMA ScriptKeeps == ASSUME Script PROVE UNCHANGED <<draining, current, retired>>
BY DEF Script

LEMMA FireLine == ASSUME LineInv, NEW s \in Signals, Fire(s) PROVE Order!Step
<1>1. Script /\ queue' = Enqueue(queue, s) /\ UNCHANGED <<conn, listeners, current>>
  BY ScriptKeeps DEF Fire, Raise
<1>2. PICK new \in Raised : Queue(Enqueue(queue, s)) = Queue(queue) \o new
  BY LineGives, EnqueueRaises
<1> QED
  BY <1>1, <1>2, LineGives, RaisesOnly

LEMMA SayLine == ASSUME LineInv, Say PROVE Order!Step
<1>1. Script /\ queue' = Report(queue) /\ UNCHANGED <<conn, listeners, current>>
  BY ScriptKeeps DEF Say, Raise
<1>2. PICK new \in Raised : Queue(Report(queue)) = Queue(queue) \o new
  BY LineGives, ReportRaises
<1> QED
  BY <1>1, <1>2, LineGives, RaisesOnly

LEMMA NothingRaised ==
    ASSUME Types
    PROVE  <<>> \in Raised /\ Queue(queue) \o <<>> = Queue(queue)
BY ToComeType DEF Raised

LEMMA DisconnectLine == ASSUME LineInv, NEW c \in Conns, Disconnect(c) PROVE Order!Step
<1>1. Script /\ conn' = Disconnected({c}) /\ listeners' = Unlisted({c}) /\ UNCHANGED <<current, queue>>
  BY ScriptKeeps DEF Disconnect
<1>2. <<>> \in Raised /\ Queue(queue') = Queue(queue) \o <<>> /\ {c} \in SUBSET Conns
  BY <1>1, LineGives, NothingRaised
<1> QED
  BY <1>1, <1>2, LineGives, RaisesStep

LEMMA ListedAre ==
    ASSUME Types, NEW s \in Signals
    PROVE  ToSet(listeners[s]) \subseteq Conns
<1>1. listeners[s] \in Seq(Conns)
  BY DEF Types, Lists
<1> QED
  BY <1>1, ToSetIs, LenProperties, ElementOfSeq

LEMMA EndSignalLine ==
    ASSUME LineInv, NEW s \in Signals, NEW close \in BOOLEAN, EndSignal(s, close)
    PROVE  Order!Step
<1> DEFINE gone == ToSet(listeners[s])
<1>1. /\ Script /\ UNCHANGED <<current, queue>>
      /\ \/ UNCHANGED <<conn, listeners>>
         \/ conn' = Disconnected(gone) /\ listeners' = Unlisted(gone)
  BY ScriptKeeps DEF EndSignal
<1>2. <<>> \in Raised /\ Queue(queue') = Queue(queue) \o <<>> /\ gone \in SUBSET Conns
  BY <1>1, LineGives, NothingRaised, ListedAre
<1> HIDE DEF gone
<1>3. CASE UNCHANGED <<conn, listeners>>
  BY <1>1, <1>2, <1>3, LineGives, RaisesOnly
<1>4. CASE conn' = Disconnected(gone) /\ listeners' = Unlisted(gone)
  BY <1>1, <1>2, <1>4, LineGives, RaisesStep
<1> QED
  BY <1>1, <1>3, <1>4

LEMMA DestroyLine == ASSUME LineInv, NEW x \in Instances, Destroy(x) PROVE Order!Step
<1> DEFINE e == [kind |-> "close", owner |-> x]
           q == EnqueueDestroying(x)
           gone == UNION {ToSet(listeners[s]) : s \in Of(x) \ (Hooks \cup closed)}
<1>1. /\ queue' = Append(q, e) /\ conn' = Disconnected(gone) /\ listeners' = Unlisted(gone)
      /\ Script /\ UNCHANGED current
  BY ScriptKeeps DEF Destroy, Raise
<1>2. PICK new \in Raised : Queue(q) = Queue(queue) \o new
  BY LineGives, DestroyingRaises
<1>3. e \in Entry /\ Targets(e) = <<>>
  BY DEF Entry, Closing, Targets
<1>4. q \in Seq(Entry)
  BY LineGives, EnqueueDestroyingIs DEF NoneClosed
<1>5. gone \in SUBSET Conns
  BY LineGives, ListedAre DEF Of
<1> HIDE DEF e, q, gone
<1>6. Queue(queue') = Queue(queue) \o new
  <2>1. Queue(Append(q, e)) = Queue(q) \o <<>>
    BY <1>3, <1>4, QueueEnd
  <2>2. Queue(q) \in Seq(Elem)
    BY <1>4, RowsType
  <2>3. Queue(q) \o <<>> = Queue(q)
    BY <2>2
  <2> QED
    BY <1>1, <1>2, <2>1, <2>3
<1> QED
  BY <1>1, <1>5, <1>6, LineGives, RaisesStep

\* What touches neither the connections nor the line.
LEMMA QuietLine ==
    ASSUME UNCHANGED <<conn, listeners, queue, current>>
    PROVE  Still
<1>1. ToCome' = ToCome
  BY DEF ToCome
<1> QED
  BY <1>1, Unmoved

LEMMA SetEnabledLine == ASSUME LineInv, NEW x \in Instances, SetEnabled(x) PROVE Order!Step
<1>1. Script /\ UNCHANGED <<conn, listeners, queue, current>>
  BY ScriptKeeps DEF SetEnabled
<1>2. <<>> \in Raised /\ Queue(queue') = Queue(queue) \o <<>>
  BY <1>1, LineGives, NothingRaised
<1> QED
  BY <1>1, <1>2, LineGives, RaisesOnly

\* The turn passes to the drain, unless it has it or there is none.
LEMMA TurnStep ==
    ASSUME Still, Ready' \in BOOLEAN, Ready \in BOOLEAN, Ready => Line = <<>>
    PROVE  Order!Step
<1>1. CASE Ready' = Ready
  BY <1>1, StillStep
<1>2. CASE Ready' # Ready
  <2>1. Ready' = ~Ready
    BY <1>2
  <2>2. Order!Turn
    BY <2>1 DEF Still, Order!Turn, Line, Resumable, OneShots
  <2> QED
    BY <2>2 DEF Order!Step
<1> QED
  BY <1>1, <1>2

LEMMA ReturnLine == ASSUME LineInv, Return \/ StartDrain PROVE Order!Step
<1>1. Still
  <2>1. UNCHANGED <<conn, listeners, queue, current>>
    BY DEF Return, StartDrain
  <2> QED
    BY <2>1, QuietLine
<1>2. ~Ready /\ Ready \in BOOLEAN /\ Ready' \in BOOLEAN
  BY DEF Return, StartDrain, Ready
<1> QED
  BY <1>1, <1>2, TurnStep

LEMMA EndDrainLine == ASSUME LineInv, EndDrain PROVE Order!Step
<1>1. ToCome' = ToCome /\ UNCHANGED <<conn, listeners>> /\ queue = <<>> /\ current.targets = <<>>
  BY DEF EndDrain, Idle, ToCome
<1>2. Still
  BY <1>1, Unmoved
<1>3. Ready \in BOOLEAN /\ Ready' \in BOOLEAN
  BY DEF Ready
<1>4. Line = <<>>
  <2>1. <<>> \o Queue(<<>>) = <<>>
    BY QueueNone
  <2>2. ToCome = <<>>
    BY <1>1, <2>1, ToComeIs
  <2> QED
    BY <2>2, OnlyOfNone DEF Line
<1> QED
  BY <1>2, <1>3, <1>4, TurnStep

\* The entry in hand is done; the next one is taken.
LEMMA NextTaken ==
    ASSUME Types, current.targets = <<>>, queue # <<>>
    PROVE  /\ Head(queue) \in Entry /\ Tail(queue) \in Seq(Entry) /\ Queue(Tail(queue)) \in Seq(Elem)
           /\ Targets(Head(queue)) \in Seq(Elem)
           /\ ToCome = Targets(Head(queue)) \o Queue(Tail(queue))
<1>1. queue \in Seq(Entry)
  BY DEF Types
<1>2. Head(queue) \in Entry /\ Tail(queue) \in Seq(Entry)
  BY <1>1, QueueTail
<1>3. Queue(queue) = Targets(Head(queue)) \o Queue(Tail(queue))
  BY <1>1, QueueHead
<1>4. Queue(queue) \in Seq(Elem) /\ <<>> \o Queue(queue) = Queue(queue)
  BY <1>1, RowsType
<1>5. Queue(Tail(queue)) \in Seq(Elem) /\ Targets(Head(queue)) \in Seq(Elem)
  BY <1>2, RowsType, TargetsType
<1> QED
  BY <1>2, <1>3, <1>4, <1>5, ToComeIs

LEMMA TakeFireLine == ASSUME LineInv, TakeFire PROVE Order!Step
<1> DEFINE e == Head(queue)
<1>1. /\ queue # <<>> /\ current.targets = <<>> /\ e.kind = "fire" /\ queue' = Tail(queue)
      /\ current'.targets = e.targets /\ UNCHANGED <<conn, listeners>>
  BY DEF TakeFire
<1>2. ToCome = Targets(e) \o Queue(Tail(queue)) /\ Targets(e) = e.targets
  BY <1>1, LineGives, NextTaken DEF Targets
<1>3. ToCome' = current'.targets \o Queue(queue')
  BY DEF ToCome, Queue, Rows
<1> HIDE DEF e
<1>4. ToCome' = ToCome
  BY <1>1, <1>2, <1>3
<1>5. Still
  BY <1>1, <1>4, Unmoved
<1>6. Ready' = Ready
  BY DEF TakeFire, Ready
<1> QED
  BY <1>5, <1>6, StillStep

LEMMA TakeCloseLine == ASSUME LineInv, TakeClose PROVE Order!Step
<1> DEFINE e == Head(queue)
           own == Of(e.owner)
           gone == UNION {ToSet(listeners[s]) : s \in own \ closed}
<1>1. /\ queue # <<>> /\ current.targets = <<>> /\ e.kind = "close" /\ queue' = Tail(queue)
      /\ current' = Idle /\ conn' = Disconnected(gone)
      /\ listeners' = [s \in Signals |-> IF s \in own THEN <<>> ELSE listeners[s]]
  BY DEF TakeClose
<1>2. Targets(e) = <<>> /\ own \subseteq Signals
  BY <1>1 DEF Targets, Of
<1>3. gone \in SUBSET Conns
  BY <1>2, LineGives, ListedAre
<1>4. \A s \in own \ closed : ToSet(listeners[s]) \subseteq gone
  OBVIOUS
<1>5. \A c \in gone : \E s \in own \ closed : c \in ToSet(listeners[s])
  OBVIOUS
<1>6. ToCome = Targets(e) \o Queue(Tail(queue)) /\ Queue(Tail(queue)) \in Seq(Elem)
  BY <1>1, LineGives, NextTaken
<1> HIDE DEF e, own, gone
<1>7. ASSUME NEW s \in Signals PROVE listeners'[s] = Order!Without(listeners[s], gone)
  <2> DEFINE l == listeners[s]
  <2>1. l \in Seq(Conns) /\ l \in Seq(Elem) /\ DOMAIN l = 1..Len(l)
    BY LineGives DEF Types, Lists, Elem
  <2>2. \A i \in 1..Len(l) : l[i] \in ToSet(l) /\ l[i] \in Live /\ conn[l[i]].signal = s
    BY <2>1, ToSetIs, LineGives DEF Faithful
  <2> HIDE DEF l
  <2>3. CASE s \in own
    <3>1. \A i \in 1..Len(l) : l[i] \in gone
      BY <1>4, <2>2, <2>3, LineGives DEF Open, l
    <3>2. Only(l, Elem \ gone) = <<>>
      <4>1. \A n \in 1..Len(Only(l, Elem \ gone)) : FALSE
        BY <2>1, <3>1, OnlyMembers
      <4>2. Only(l, Elem \ gone) \in Seq(Elem)
        BY <2>1, OnlyType
      <4> DEFINE k == Only(l, Elem \ gone)
      <4> HIDE DEF k
      <4>3. Len(k) = 0
        <5>1. k \in Seq(Elem) /\ \A n \in 1..Len(k) : FALSE
          BY <4>1, <4>2 DEF k
        <5>3. Len(k) \in Nat
          BY <5>1
        <5>2. Len(k) # 0 => 1 \in 1..Len(k)
          BY <5>3
        <5> QED
          BY <5>1, <5>2
      <4>4. k = <<>>
        BY <4>2, <4>3, EmptySeq DEF k
      <4> QED
        BY <4>4 DEF k
    <3> QED
      BY <1>1, <2>3, <3>2, OrderWithout DEF l
  <2>4. CASE s \notin own
    <3>1. \A i \in 1..Len(l) : l[i] \in Elem \ gone
      <4> SUFFICES ASSUME NEW i \in 1..Len(l), l[i] \in gone PROVE FALSE
        BY <2>1
      <4>1. PICK r \in own \ closed : l[i] \in ToSet(listeners[r])
        BY <1>5
      <4>2. conn[l[i]].signal = r
        BY <1>2, <4>1, LineGives DEF Faithful
      <4> QED
        BY <2>2, <2>4, <4>2
    <3>2. Only(l, Elem \ gone) = l
      BY <2>1, <3>1, OnlyAll
    <3> QED
      BY <1>1, <2>4, <3>2, OrderWithout DEF l
  <2> QED
    BY <2>3, <2>4
<1>8. listeners' = Unlisted(gone)
  <2>1. Unlisted(gone) = [s \in Signals |-> Order!Without(listeners[s], gone)]
    BY LineGives, UnlistedIs
  <2>2. listeners' = [s \in Signals |-> listeners'[s]]
    BY <1>1
  <2> QED
    BY <1>7, <2>1, <2>2
<1>9. Queue(queue') = Queue(queue) \o <<>> /\ <<>> \in Raised
  <2>1. Queue(queue) = Targets(e) \o Queue(Tail(queue))
    BY <1>1, LineGives, QueueHead DEF e
  <2>2. <<>> \o Queue(Tail(queue)) = Queue(Tail(queue)) /\ Queue(Tail(queue)) \o <<>> = Queue(Tail(queue))
    BY <1>6
  <2> QED
    BY <1>1, <1>2, <2>1, <2>2 DEF Raised
<1>10. current'.targets = current.targets
  BY <1>1 DEF Idle
<1>11. Moves(<<>>, gone)
  <2> DEFINE new == <<>>
  <2>1. Types /\ Faithful /\ NoShares /\ new \in Raised /\ Queue(queue') = Queue(queue) \o new
    BY <1>9, LineGives
  <2> HIDE DEF new
  <2>2. Moves(new, gone)
    BY <1>1, <1>3, <1>8, <1>10, <2>1, RaisesInOrder DEF Moves, Order!Leave, OneShots
  <2> QED
    BY <2>2 DEF new
<1>12. Line \o <<>> = Line
  BY LineGives, LineType
<1>13. Ready /\ Ready'
  BY DEF TakeClose, Ready
<1>14. Order!Close(gone)
  BY <1>3, <1>11, <1>12, <1>13 DEF Moves, Order!Close, Line, Resumable, OneShots
<1>15. \E g \in SUBSET Conns : Order!Close(g)
  BY <1>3, <1>14 DEF Order!Close, Order!Leave, Line, OneShots, Resumable
<1> QED
  BY <1>15, Zenon DEF Order!Step

\* What stands at the head of a line.
LEMMA OnlyHead ==
    ASSUME NEW S, NEW c \in S, NEW s \in Seq(S), NEW T
    PROVE  Only(<<c>> \o s, T) = IF c \in T THEN <<c>> \o Only(s, T) ELSE Only(s, T)
<1> DEFINE a == <<c>>
<1>1. a \in Seq(S) /\ <<>> \in Seq(S) /\ a = Append(<<>>, c)
  OBVIOUS
<1>2. Only(a, T) = IF c \in T THEN a ELSE <<>>
  <2>1. Only(Append(<<>>, c), T) = IF c \in T THEN Append(Only(<<>>, T), c) ELSE Only(<<>>, T)
    BY <1>1, OnlyAppend
  <2> QED
    BY <1>1, <2>1, OnlyOfNone
<1> HIDE DEF a
<1>3. Only(a \o s, T) = Only(a, T) \o Only(s, T)
  <2>0. a \in Seq(S)
    BY <1>1
  <2>1. \A t \in Seq(S) : Only(a \o t, T) = Only(a, T) \o Only(t, T)
    BY <2>0, OnlyConcat
  <2> QED
    BY <2>1
<1>4. Only(s, T) \in Seq(S)
  BY OnlyType
<1>5. <<>> \o Only(s, T) = Only(s, T)
  BY <1>4
<1> QED
  BY <1>2, <1>3, <1>5 DEF a

LEMMA FirstOf ==
    ASSUME NEW S, NEW c \in S, NEW s \in Seq(S)
    PROVE  <<c>> \o s # <<>> /\ Head(<<c>> \o s) = c /\ Tail(<<c>> \o s) = s
  OBVIOUS

\* The line when c is the first of it.
LEMMA LineFirst ==
    ASSUME Types, NEW c \in Elem, NEW rest \in Seq(Elem), ToCome = <<c>> \o rest
    PROVE  /\ c \in Resumable => Line # <<>> /\ Head(Line) = c /\ Tail(Line) = Only(rest, Resumable)
           /\ c \notin Resumable => Line = Only(rest, Resumable)
<1>1. Line = IF c \in Resumable THEN <<c>> \o Only(rest, Resumable) ELSE Only(rest, Resumable)
  BY OnlyHead DEF Line
<1>2. Only(rest, Resumable) \in Seq(Elem)
  BY OnlyType
<1> QED
  BY <1>1, <1>2, FirstOf

LEMMA TakeTaskLine == ASSUME LineInv, TakeTask PROVE Order!Step
<1> DEFINE e == Head(queue)
           rest == Queue(Tail(queue))
<1>1. /\ queue # <<>> /\ current.targets = <<>> /\ e.kind = "task" /\ queue' = Tail(queue)
      /\ current' = [Idle EXCEPT !.depth = e.depth] /\ UNCHANGED <<conn, listeners>>
  BY DEF TakeTask
<1>2. /\ e \in Entry /\ rest \in Seq(Elem) /\ ToCome = Targets(e) \o rest
  BY <1>1, LineGives, NextTaken
<1>3. ToCome' = current'.targets \o rest
  BY <1>1 DEF ToCome, Queue, Rows
<1> HIDE DEF e, rest
<1>4. Targets(e) = <<e.task>> /\ e.task \in Tasks
  BY <1>1, <1>2, EntryIs DEF Targets
<1>5. ToCome' = rest
  BY <1>1, <1>2, <1>3 DEF Idle
<1>6. e.task \in Elem /\ e.task \in Resumable
  BY <1>4 DEF Elem, Resumable
<1>7. Line # <<>> /\ Head(Line) = e.task /\ Tail(Line) = Only(rest, Resumable)
  BY <1>2, <1>4, <1>6, LineGives, LineFirst
<1>8. Live' = Live /\ OneShots' = OneShots
  BY <1>1 DEF Live, OneShots
<1>9. Line' = Tail(Line)
  BY <1>5, <1>7, <1>8 DEF Line, Resumable
<1>10. Ready /\ running' = ~Suppressed(e.script, FALSE) /\ draining'
  BY DEF TakeTask, Ready, e
<1>11. CASE Suppressed(e.script, FALSE)
  <2>1. e.script \in disabled \cup destroyed \cup retired
    BY <1>11 DEF Suppressed
  <2>2. 1 \in DOMAIN queue /\ queue[1] = e
    BY <1>1, LineGives DEF e
  <2>3. e.task \in Stopped
    BY <1>1, <1>4, <2>1, <2>2 DEF Stopped
  <2>4. Ready'
    BY <1>10, <1>11 DEF Ready
  <2>5. Head(Line) \in Stopped
    BY <1>7, <2>3
  <2>6. Order!PassOver
    BY <1>1, <1>7, <1>8, <1>9, <1>10, <2>4, <2>5 DEF Order!PassOver, Line, Resumable, OneShots
  <2> QED
    BY <2>6 DEF Order!Step
<1>12. CASE ~Suppressed(e.script, FALSE)
  <2>1. ~Ready'
    BY <1>10, <1>12 DEF Ready
  <2>2. {Head(Line)} \cap OneShots = {}
    BY <1>4, <1>7, LineGives DEF OneShots, Live, NoShares
  <2>3. Tail(Line) \in Seq(Elem)
    BY <1>7, LineGives, LineType
  <2>4. Order!Leave({}) /\ Order!Without(Tail(Line), {}) = Tail(Line)
    BY <1>1, <2>3, LineGives, LeaveNone
  <2>5. Line' = Order!Without(Tail(Line), {})
    BY <1>9, <2>4
  <2> QED
    BY <1>7, <1>10, <2>1, <2>2, <2>4, <2>5, ResumeIsStep
<1> QED
  BY <1>11, <1>12

LEMMA ServeTargetLine == ASSUME LineInv, ServeTarget PROVE Order!Step
<1> DEFINE c == Head(current.targets)
           rest == Tail(current.targets) \o Queue(queue)
           gone == IF conn[c].kind = "handler" THEN {} ELSE {c}
           Served == conn' = Disconnected(gone) /\ listeners' = Unlisted(gone)
<1>1. /\ current.targets # <<>> /\ current' = [current EXCEPT !.targets = Tail(@)] /\ UNCHANGED queue
      /\ Ready /\ UNCHANGED draining
      /\ \/ c \in Live /\ Served /\ running'
         \/ /\ UNCHANGED <<conn, listeners, running>>
            /\ c \in Live => Suppressed(conn[c].script, current.hook)
  BY DEF ServeTarget
<1>2. /\ current.targets \in Seq(Conns) /\ c \in Conns /\ Tail(current.targets) \in Seq(Conns)
      /\ current.targets = <<c>> \o Tail(current.targets)
      /\ current \in Current
  <2>1. current.targets \in Seq(Conns) /\ current \in Current
    BY LineGives, CurrentIs DEF Types
  <2> QED
    BY <1>1, <2>1
<1>3. Queue(queue) \in Seq(Elem) /\ Tail(current.targets) \in Seq(Elem) /\ c \in Elem
  BY <1>2, LineGives, ToComeType DEF Elem
<1>4. rest \in Seq(Elem) /\ ToCome = <<c>> \o rest
  <2> DEFINE a == Tail(current.targets)  b == Queue(queue)
  <2>1. a \in Seq(Elem) /\ b \in Seq(Elem)
    BY <1>3
  <2>2. current.targets = <<c>> \o a
    BY <1>2
  <2> HIDE DEF a, b, c
  <2>3. a \o b \in Seq(Elem) /\ (<<c>> \o a) \o b = <<c>> \o (a \o b)
    BY <1>3, <2>1
  <2> QED
    BY <2>2, <2>3, ToComeIs DEF a, b
<1>5. ToCome' = rest
  <2>1. current'.targets = Tail(current.targets)
    BY <1>1, <1>2 DEF Current
  <2>2. ToCome' = current'.targets \o Queue(queue)
    BY <1>1 DEF ToCome, Queue, Rows
  <2> QED
    BY <2>1, <2>2
<1>6. gone = IF c \in Live THEN {c} \cap OneShots ELSE gone
  BY DEF OneShots
<1>7. /\ c \in Resumable => Line # <<>> /\ Head(Line) = c /\ Tail(Line) = Only(rest, Resumable)
      /\ c \notin Resumable => Line = Only(rest, Resumable)
  BY <1>3, <1>4, LineGives, LineFirst
<1>8. c \in Live <=> c \in Resumable
  BY <1>2, LineGives DEF Resumable, NoShares
<1>9. \/ c \in Live /\ Served /\ running'
      \/ /\ UNCHANGED <<conn, listeners, running>>
         /\ c \in Live => Suppressed(conn[c].script, current.hook)
  BY <1>1
<1> HIDE DEF c, rest, gone
<1>10. CASE /\ UNCHANGED <<conn, listeners, running>>
            /\ c \in Live => Suppressed(conn[c].script, current.hook)
  <2>1. Live' = Live /\ OneShots' = OneShots /\ Line' = Only(rest, Resumable)
    BY <1>5, <1>10 DEF Live, OneShots, Line, Resumable
  <2>0. Ready /\ Ready' = Ready
    BY <1>1, <1>10 DEF Ready
  <2>2. CASE c \in Live
    <3>1. Line # <<>> /\ Line' = Tail(Line) /\ Head(Line) = c
      BY <1>7, <1>8, <2>1, <2>2
    <3>2. Head(Line) \in Stopped
      BY <1>10, <2>2, <3>1 DEF Suppressed, Stopped
    <3>3. Order!PassOver
      BY <1>10, <2>0, <2>1, <3>1, <3>2 DEF Order!PassOver, Line, Resumable, OneShots
    <3> QED
      BY <3>3 DEF Order!Step
  <2>3. CASE c \notin Live
    <3>1. Line' = Line
      BY <1>7, <1>8, <2>1, <2>3
    <3>2. Still
      BY <1>10, <2>1, <3>1 DEF Still
    <3> QED
      BY <2>0, <3>2, StillStep
  <2> QED
    BY <2>2, <2>3
<1>11. CASE c \in Live /\ Served /\ running'
  <2>0. Ready /\ ~Ready'
    BY <1>1, <1>11 DEF Ready
  <2>1. gone = {Head(Line)} \cap OneShots /\ Line # <<>> /\ Tail(Line) = Only(rest, Resumable)
    BY <1>6, <1>7, <1>8, <1>11
  <2>2. Line' = Only(rest, Tasks \cup (Live \ gone)) /\ OneShots' = OneShots \ gone
    BY <1>5, <1>11, LineGives, OneShotsGone DEF Line
  <2>3. Order!Without(Tail(Line), gone) = Only(rest, Resumable \cap (Elem \ gone))
    <3>1. Only(Only(rest, Resumable), Elem \ gone) = Only(rest, Resumable \cap (Elem \ gone))
      BY <1>4, OnlyTwice
    <3> QED
      BY <2>1, <3>1, OrderWithout
  <2>4. Resumable \cap (Elem \ gone) = Tasks \cup (Live \ gone)
    <3>1. gone \cap Tasks = {}
      BY <2>1, LineGives DEF OneShots, Live, NoShares
    <3> QED
      BY <3>1 DEF Resumable, Elem, Live
  <2>5. listeners' = [s \in Signals |-> Order!Without(listeners[s], gone)]
    BY <1>11, LineGives, UnlistedIs
  <2>6. Order!Leave(gone)
    BY <2>2, <2>5 DEF Order!Leave, OneShots
  <2>7. Line' = Order!Without(Tail(Line), gone)
    BY <2>2, <2>3, <2>4
  <2> QED
    BY <2>0, <2>1, <2>6, <2>7, ResumeIsStep DEF Order!Leave, OneShots
<1> QED
  BY <1>9, <1>10, <1>11

LEMMA ConnectLine ==
    ASSUME LineInv, NEW c \in Conns, NEW s \in Signals, NEW kind \in {"handler", "once", "waiter"},
           NEW x \in Instances \cup {Nobody}, Connect(c, s, kind, x)
    PROVE  Order!Step
<1>1. /\ Script /\ conn[c] = Free /\ c \notin ToSet(ToCome)
      /\ conn' = [conn EXCEPT ![c] = [signal |-> s, kind |-> kind, script |-> x]]
      /\ listeners' = [listeners EXCEPT ![s] = Append(@, c)]
      /\ UNCHANGED <<queue, current>>
  BY ScriptKeeps DEF Connect
<1>2. /\ c \notin Live /\ conn'[c].kind = kind /\ conn'[c] # Free
      /\ \A d \in Conns : d # c => conn'[d] = conn[d]
  <2>1. conn \in [Conns -> Connection \cup {Free}]
    BY LineGives DEF Types, Lists
  <2>2. [signal |-> s, kind |-> kind, script |-> x] # Free
    BY DEF Free
  <2> QED
    BY <1>1, <2>1, <2>2 DEF Live
<1>3. Live' = Live \cup {c} /\ OneShots' = IF kind # "handler" THEN OneShots \cup {c} ELSE OneShots \ {c}
  <2>1. Live' = Live \cup {c}
    BY <1>2 DEF Live
  <2> QED
    BY <1>2, <2>1 DEF OneShots, Live
<1>4. ToCome' = ToCome /\ ToCome \in Seq(Elem) /\ DOMAIN ToCome = 1..Len(ToCome)
  <2>1. ToCome' = ToCome /\ ToCome \in Seq(Elem)
    BY <1>1, LineGives, ToComeType DEF ToCome
  <2> QED
    BY <2>1, LenProperties
<1>5. \A i \in 1..Len(ToCome) : ToCome[i] # c
  BY <1>1, <1>4, ToSetIs
<1>6. Line' = Line
  <2>1. \A i \in 1..Len(ToCome) : ToCome[i] \in Tasks \cup (Live \cup {c}) <=> ToCome[i] \in Resumable
    BY <1>5 DEF Resumable
  <2>2. Only(ToCome, Tasks \cup (Live \cup {c})) = Only(ToCome, Resumable)
    BY <1>4, <2>1, OnlySame
  <2> QED
    BY <1>3, <1>4, <2>2 DEF Line, Resumable
<1>7. c \notin ToSet(Line)
  <2>1. Line \in Seq(Elem) /\ \A n \in 1..Len(Line) : Line[n] # c
    BY <1>4, <1>5, OnlyMembers, LineGives, LineType DEF Line
  <2>2. DOMAIN Line = 1..Len(Line)
    BY <2>1, LenProperties
  <2> QED
    BY <2>1, <2>2, ToSetIs
<1>8. \A r \in Signals : c \notin ToSet(listeners[r])
  BY <1>2, LineGives DEF Faithful
<1>9. Order!Connect(s, c, kind # "handler")
  BY <1>1, <1>3, <1>6, <1>7, <1>8, ScriptAtWork DEF Order!Connect, Line, Resumable, OneShots, Order!ToSet, ToSet
<1>10. (kind # "handler") \in BOOLEAN
  OBVIOUS
<1> QED
  BY <1>9, <1>10 DEF Order!Step

\* A task that no entry of the queue holds is not in the line of it, and back.
LEMMA TaskInLine ==
    ASSUME NEW q \in Seq(Entry), NEW t \in Tasks, NoShares
    PROVE  (\E n \in 1..Len(Queue(q)) : Queue(q)[n] = t)
               <=> \E i \in 1..Len(q) : q[i].kind = "task" /\ q[i].task = t
<1> DEFINE r == Rows(q)
<1>1. /\ r \in Seq(Seq(Elem)) /\ Len(r) = Len(q) /\ Queue(q) \in Seq(Elem)
      /\ \A i \in 1..Len(q) : r[i] = Targets(q[i])
      /\ \A i \in 1..Len(q) : q[i] \in Entry
  BY RowsType, LenProperties, ElementOfSeq
<1>2. Queue(q) = Joined(r)
  BY DEF Queue
<1> HIDE DEF r
<1>3. ASSUME NEW n \in 1..Len(Queue(q)), Queue(q)[n] = t
      PROVE  \E i \in 1..Len(q) : q[i].kind = "task" /\ q[i].task = t
  <2>0. \A m \in 1..Len(Joined(r)) : \E i \in 1..Len(r) : \E k \in 1..Len(r[i]) : Joined(r)[m] = r[i][k]
    BY <1>1, JoinedFrom
  <2>1. PICK i \in 1..Len(q) : \E k \in 1..Len(r[i]) : t = r[i][k]
    BY <1>1, <1>2, <1>3, <2>0
  <2>2. PICK k \in 1..Len(r[i]) : t = r[i][k]
    BY <2>1
  <2>3. q[i] \in Entry /\ r[i] = Targets(q[i])
    BY <1>1
  <2>4. CASE q[i].kind = "fire"
    <3>1. r[i] \in Seq(Conns)
      BY <2>3, <2>4, EntryIs DEF Targets
    <3>2. t \in Conns
      BY <2>2, <3>1
    <3> QED
      BY <3>2 DEF NoShares
  <2>5. CASE q[i].kind = "task"
    <3>1. r[i] = <<q[i].task>>
      BY <2>3, <2>5 DEF Targets
    <3>2. t = q[i].task
      BY <2>2, <3>1
    <3> QED
      BY <2>5, <3>2
  <2>6. CASE q[i].kind = "close"
    <3>1. r[i] = <<>>
      BY <2>3, <2>6 DEF Targets
    <3> QED
      BY <2>2, <3>1
  <2> QED
    BY <2>3, <2>4, <2>5, <2>6, EntryIs
<1>4. ASSUME NEW i \in 1..Len(q), q[i].kind = "task", q[i].task = t
      PROVE  \E n \in 1..Len(Queue(q)) : Queue(q)[n] = t
  <2>1. r[i] = <<t>>
    BY <1>1, <1>4 DEF Targets
  <2>2. i \in 1..Len(r) /\ 1 \in 1..Len(r[i]) /\ r[i][1] = t
    BY <1>1, <2>1
  <2>3. \A j \in 1..Len(r) : \A k \in 1..Len(r[j]) : \E n \in 1..Len(Joined(r)) : Joined(r)[n] = r[j][k]
    BY <1>1, JoinedMembers
  <2> QED
    BY <1>2, <2>2, <2>3
<1> QED
  BY <1>3, <1>4

-----------------------------------------------------------------------------
(* No task is queued twice *)

LEMMA TasksAppend ==
    ASSUME NEW q \in Seq(Entry), NEW e \in Entry, TasksOnce(q),
           e.kind = "task" => \A i \in 1..Len(q) : q[i].kind = "task" => q[i].task # e.task
    PROVE  TasksOnce(Append(q, e))
<1> DEFINE p == Append(q, e)
<1>1. /\ Len(p) = Len(q) + 1 /\ p[Len(q) + 1] = e /\ Len(q) \in Nat
      /\ \A i \in 1..Len(q) : p[i] = q[i]
  OBVIOUS
<1> HIDE DEF p
<1>2. TasksOnce(p)
  BY <1>1 DEF TasksOnce
<1> QED
  BY <1>2 DEF p

LEMMA TasksTail ==
    ASSUME NEW q \in Seq(Entry), q # <<>>, TasksOnce(q)
    PROVE  TasksOnce(Tail(q))
<1> DEFINE p == Tail(q)
<1>1. /\ Len(p) = Len(q) - 1 /\ Len(q) \in Nat /\ \A i \in 1..Len(p) : p[i] = q[i + 1]
  OBVIOUS
<1> HIDE DEF p
<1>2. TasksOnce(p)
  <2> SUFFICES ASSUME NEW i \in 1..Len(p), NEW j \in 1..Len(p), p[i].kind = "task", p[j].kind = "task",
                      p[i].task = p[j].task
               PROVE  i = j
    BY DEF TasksOnce
  <2>1. i + 1 \in 1..Len(q) /\ j + 1 \in 1..Len(q) /\ p[i] = q[i + 1] /\ p[j] = q[j + 1]
    BY <1>1
  <2>2. i + 1 = j + 1
    BY <2>1 DEF TasksOnce
  <2> QED
    BY <2>2
<1> QED
  BY <1>2 DEF p

\* A queue with one entry taken out of it.
LEMMA RemoveAtParts ==
    ASSUME NEW q \in Seq(Entry), NEW k \in DOMAIN q
    PROVE  \E a, b \in Seq(Entry) :
               /\ q = (a \o <<q[k]>>) \o b /\ RemoveAt(q, k) = a \o b /\ Len(a) = k - 1
<1> DEFINE a == SubSeq(q, 1, k - 1)
           b == SubSeq(q, k + 1, Len(q))
           m == <<q[k]>>
<1>1. Len(q) \in Nat /\ DOMAIN q = 1..Len(q) /\ k \in 1..Len(q)
  BY LenProperties
<1>2. \A i \in 1..Len(q) : q[i] \in Entry
  BY <1>1, ElementOfSeq
<1>3. /\ a \in Seq(Entry) /\ Len(a) = k - 1 /\ \A i \in 1..(k - 1) : a[i] = q[i]
      /\ b \in Seq(Entry) /\ Len(b) = Len(q) - k /\ \A i \in 1..(Len(q) - k) : b[i] = q[k + i]
  <2>1. a \in Seq(Entry) /\ b \in Seq(Entry)
    BY <1>1, <1>2
  <2>2. Len(a) = k - 1 /\ \A i \in 1..(k - 1) : a[i] = q[i]
    BY <1>1
  <2>3. Len(b) = Len(q) - k /\ \A i \in 1..(Len(q) - k) : b[i] = q[k + i]
    BY <1>1
  <2> QED
    BY <2>1, <2>2, <2>3
<1>4. RemoveAt(q, k) = a \o b
  BY DEF RemoveAt
<1>5. m \in Seq(Entry) /\ Len(m) = 1 /\ m[1] = q[k]
  BY <1>1, <1>2
<1> HIDE DEF a, b, m
<1> DEFINE c == a \o m
<1>6. /\ c \in Seq(Entry) /\ Len(c) = k /\ \A i \in 1..(k - 1) : c[i] = q[i]
      /\ c[k] = q[k]
  <2>1. /\ c \in Seq(Entry) /\ Len(c) = Len(a) + Len(m)
        /\ \A i \in 1..Len(a) : c[i] = a[i]
        /\ \A i \in 1..Len(m) : c[Len(a) + i] = m[i]
    <3>1. a \in Seq(Entry) /\ m \in Seq(Entry)
      BY <1>3, <1>5
    <3> QED
      BY <3>1
  <2> HIDE DEF c
  <2>2. Len(c) = k /\ \A i \in 1..(k - 1) : c[i] = q[i]
    BY <1>1, <1>3, <1>5, <2>1
  <2>3. 1 \in 1..Len(m) /\ Len(a) + 1 = k
    BY <1>1, <1>3, <1>5
  <2> QED
    BY <1>5, <2>1, <2>2, <2>3
<1> HIDE DEF c
<1> DEFINE d == c \o b
<1>7. /\ d \in Seq(Entry) /\ Len(d) = Len(q)
      /\ \A i \in 1..k : d[i] = c[i]
      /\ \A i \in 1..(Len(q) - k) : d[k + i] = b[i]
  <2>1. /\ d \in Seq(Entry) /\ Len(d) = Len(c) + Len(b)
        /\ \A i \in 1..Len(c) : d[i] = c[i]
        /\ \A i \in 1..Len(b) : d[Len(c) + i] = b[i]
    <3>1. c \in Seq(Entry) /\ b \in Seq(Entry)
      BY <1>3, <1>6
    <3> QED
      BY <3>1
  <2> HIDE DEF d
  <2> QED
    BY <1>1, <1>3, <1>6, <2>1
<1> HIDE DEF d
<1>8. d = q
  <2>1. ASSUME NEW i \in 1..Len(q) PROVE d[i] = q[i]
    <3>1. CASE i \in 1..(k - 1)
      BY <1>1, <1>6, <1>7, <3>1
    <3>2. CASE i = k
      BY <1>1, <1>6, <1>7, <3>2
    <3>3. CASE i \in (k + 1)..Len(q)
      <4> DEFINE n == i - k
      <4>1. n \in 1..(Len(q) - k) /\ k + n = i
        BY <1>1, <3>3
      <4> HIDE DEF n
      <4> QED
        BY <1>3, <1>7, <4>1
    <3> QED
      BY <1>1, <3>1, <3>2, <3>3
  <2> QED
    BY <1>7, <2>1, SeqEqual
<1> QED
  BY <1>3, <1>4, <1>8 DEF d, c, m

LEMMA TasksRemove ==
    ASSUME NEW a \in Seq(Entry), NEW b \in Seq(Entry), NEW e \in Entry, TasksOnce((a \o <<e>>) \o b)
    PROVE  TasksOnce(a \o b)
           /\ (e.kind = "task" => /\ \A i \in 1..Len(a) : a[i].kind = "task" => a[i].task # e.task
                                  /\ \A i \in 1..Len(b) : b[i].kind = "task" => b[i].task # e.task)
<1> DEFINE k == Len(a) + 1
           q == (a \o <<e>>) \o b
           u == a \o b
           back == [i \in 1..Len(u) |-> IF i < k THEN i ELSE i + 1]
<1>1. /\ Len(a) \in Nat /\ Len(b) \in Nat /\ Len(q) = Len(a) + 1 + Len(b) /\ Len(u) = Len(a) + Len(b)
      /\ \A i \in 1..Len(a) : q[i] = a[i] /\ u[i] = a[i]
      /\ q[k] = e
      /\ \A i \in 1..Len(b) : q[k + i] = b[i] /\ u[Len(a) + i] = b[i]
  OBVIOUS
<1>2. TasksOnce(q)
  OBVIOUS
<1> HIDE DEF q, u
<1>3. \A i \in 1..Len(u) : back[i] \in 1..Len(q) /\ u[i] = q[back[i]]
  <2> SUFFICES ASSUME NEW i \in 1..Len(u) PROVE back[i] \in 1..Len(q) /\ u[i] = q[back[i]]
    OBVIOUS
  <2>1. CASE i < k
    <3>1. i \in 1..Len(a) /\ back[i] = i /\ i \in 1..Len(q)
      BY <1>1, <2>1
    <3>2. u[i] = a[i] /\ q[i] = a[i]
      BY <1>1, <3>1
    <3> QED
      BY <3>1, <3>2
  <2>2. CASE i >= k
    <3> DEFINE n == i - Len(a)
    <3>1. n \in 1..Len(b) /\ Len(a) + n = i /\ k + n = i + 1
      BY <1>1, <2>2
    <3> HIDE DEF n
    <3>2. back[i] = k + n /\ ~(i < k)
      BY <2>2, <3>1, <1>1
    <3>3. u[i] = b[n] /\ q[k + n] = b[n]
      BY <1>1, <3>1
    <3>4. k + n \in 1..Len(q)
      BY <1>1, <3>1
    <3> QED
      BY <3>2, <3>3, <3>4
  <2> QED
    BY <1>1, <2>1, <2>2
<1>4. \A i, j \in 1..Len(u) : back[i] = back[j] => i = j
  BY <1>1
<1>5. k \in 1..Len(q) /\ \A i \in 1..Len(a) : i \in 1..Len(q) /\ i # k
  BY <1>1
<1>6. \A i \in 1..Len(b) : k + i \in 1..Len(q) /\ k + i # k
  BY <1>1
<1> HIDE DEF back, k
<1>7. TasksOnce(u)
  <2> SUFFICES ASSUME NEW i \in 1..Len(u), NEW j \in 1..Len(u), u[i].kind = "task", u[j].kind = "task",
                      u[i].task = u[j].task
               PROVE  i = j
    BY DEF TasksOnce
  <2>1. /\ back[i] \in 1..Len(q) /\ back[j] \in 1..Len(q)
        /\ q[back[i]] = u[i] /\ q[back[j]] = u[j]
    BY <1>3
  <2>2. back[i] = back[j]
    BY <1>2, <2>1 DEF TasksOnce
  <2> QED
    BY <1>4, <2>2
<1>8. e.kind = "task" => /\ \A i \in 1..Len(a) : a[i].kind = "task" => a[i].task # e.task
                         /\ \A i \in 1..Len(b) : b[i].kind = "task" => b[i].task # e.task
  <2>1. ASSUME e.kind = "task", NEW i \in 1..Len(a), a[i].kind = "task", a[i].task = e.task PROVE FALSE
    BY <1>1, <1>2, <1>5, <2>1 DEF TasksOnce
  <2>2. ASSUME e.kind = "task", NEW i \in 1..Len(b), b[i].kind = "task", b[i].task = e.task PROVE FALSE
    BY <1>1, <1>2, <1>5, <1>6, <2>2 DEF TasksOnce
  <2> QED
    BY <2>1, <2>2
<1> QED
  BY <1>7, <1>8 DEF u

LEMMA TasksFire ==
    ASSUME Types, NEW q \in Seq(Entry), NEW s \in Signals, NEW d \in Depth, TasksOnce(q)
    PROVE  TasksOnce(Append(q, FireEntry(s, d)))
<1> DEFINE e == FireEntry(s, d)
<1>1. e \in Entry /\ e.kind = "fire"
  BY FireIsEntry DEF FireEntry
<1> HIDE DEF e
<1>2. TasksOnce(Append(q, e))
  BY <1>1, TasksAppend
<1> QED
  BY <1>2 DEF e

LEMMA TasksReport ==
    ASSUME Types, NEW q \in Seq(Entry), TasksOnce(q)
    PROVE  TasksOnce(Report(q))
<1>1. CASE Console = Nobody \/ Console \in closed
  BY <1>1 DEF Report
<1>2. CASE ~(Console = Nobody \/ Console \in closed)
  <2>1. Console \in Signals /\ current.depth \in Depth
    BY <1>2, SignalsAre, CurrentIs
  <2>2. Report(q) = Append(q, FireEntry(Console, current.depth))
    BY <1>2 DEF Report
  <2> QED
    BY <2>1, <2>2, TasksFire
<1> QED
  BY <1>1, <1>2

LEMMA TasksEnqueue ==
    ASSUME Types, NEW q \in Seq(Entry), NEW s \in Signals, TasksOnce(q)
    PROVE  TasksOnce(Enqueue(q, s))
<1> DEFINE d == RaisedDepth(current.depth)
<1>1. CASE s \in closed
  BY <1>1 DEF Enqueue
<1>2. CASE s \notin closed /\ d > MaxDeferredDepth
  <2>1. Enqueue(q, s) = Report(q)
    BY <1>2 DEF Enqueue
  <2> QED
    BY <2>1, TasksReport
<1>3. CASE s \notin closed /\ ~(d > MaxDeferredDepth)
  <2>1. Enqueue(q, s) = Append(q, FireEntry(s, d))
    BY <1>3 DEF Enqueue
  <2>2. d \in Depth
    BY <1>3, CurrentIs
  <2> HIDE DEF d
  <2> QED
    BY <2>1, <2>2, TasksFire
<1> QED
  BY <1>1, <1>2, <1>3

LEMMA TasksMarked ==
    ASSUME NEW q \in Seq(Entry), NEW s, TasksOnce(q)
    PROVE  TasksOnce(Marked(q, s))
<1> DEFINE u == Marked(q, s)
<1>1. Len(u) = Len(q) /\ \A i \in 1..Len(q) : u[i].kind = q[i].kind /\ (q[i].kind # "fire" => u[i] = q[i])
  BY MarkedParts
<1> HIDE DEF u
<1>2. TasksOnce(u)
  BY <1>1 DEF TasksOnce
<1> QED
  BY <1>2 DEF u

LEMMA TasksDestroying ==
    ASSUME Types, NEW x \in Instances, TasksOnce(queue)
    PROVE  TasksOnce(EnqueueDestroying(x))
<1> DEFINE h == CHOOSE s \in Of(x) \cap Hooks : TRUE
<1>1. queue \in Seq(Entry)
  BY DEF Types
<1>2. CASE Of(x) \cap Hooks = {}
  BY <1>2 DEF EnqueueDestroying
<1>3. CASE Of(x) \cap Hooks # {}
  <2>1. h \in Signals
    BY <1>3 DEF Of
  <2> DEFINE q == Enqueue(queue, h)
  <2>2. EnqueueDestroying(x) = Marked(q, h)
    BY <1>3 DEF EnqueueDestroying
  <2> HIDE DEF h
  <2>3. q \in Seq(Entry) /\ TasksOnce(q)
    BY <1>1, <2>1, EnqueueIs, TasksEnqueue DEF NoneClosed
  <2> HIDE DEF q
  <2> QED
    BY <2>2, <2>3, TasksMarked
<1> QED
  BY <1>2, <1>3

\* A task that is to be deferred is not in the queue.
LEMMA DeferredIsNew ==
    ASSUME Types, NoShares, NEW t \in Tasks, t \notin ToSet(ToCome), NEW i \in 1..Len(queue),
           queue[i].kind = "task"
    PROVE  queue[i].task # t
<1> SUFFICES ASSUME queue[i].task = t PROVE FALSE
  OBVIOUS
<1> DEFINE a == current.targets  b == Queue(queue)
<1>1. a \in Seq(Elem) /\ b \in Seq(Elem)
  BY ToComeType
<1>2. queue \in Seq(Entry)
  BY DEF Types
<1>3. PICK n \in 1..Len(b) : b[n] = t
  BY <1>2, TaskInLine
<1> HIDE DEF a, b
<1>4. Len(a) + n \in 1..Len(a \o b) /\ (a \o b)[Len(a) + n] = b[n] /\ DOMAIN (a \o b) = 1..Len(a \o b)
  BY <1>1
<1>5. t \in ToSet(a \o b)
  BY <1>3, <1>4, ToSetIs
<1> QED
  BY <1>5, ToComeIs DEF a, b

LEMMA DeferLine ==
    ASSUME LineInv, NEW t \in Tasks, NEW x \in Instances \cup {Nobody}, Defer(t, x)
    PROVE  Order!Step /\ TasksOnce(queue')
<1> DEFINE d == RaisedDepth(current.depth)
           e == [kind |-> "task", depth |-> d, task |-> t, script |-> x]
<1>1. t \notin ToSet(ToCome) /\ Script /\ UNCHANGED <<conn, listeners, current>>
  BY ScriptKeeps DEF Defer, Raise
<1>2. CASE d > MaxDeferredDepth
  <2>1. queue' = Report(queue)
    BY <1>2 DEF Defer
  <2>2. PICK new \in Raised : Queue(Report(queue)) = Queue(queue) \o new
    BY LineGives, ReportRaises
  <2>3. TasksOnce(Report(queue))
    BY LineGives, TasksReport DEF LineInv
  <2> QED
    BY <1>1, <2>1, <2>2, <2>3, LineGives, RaisesOnly
<1>3. CASE ~(d > MaxDeferredDepth)
  <2>1. queue' = Append(queue, e)
    BY <1>3 DEF Defer
  <2>2. d \in Depth
    BY <1>3, LineGives, CurrentIs
  <2> HIDE DEF d
  <2>3. e \in Entry /\ e.kind = "task" /\ e.task = t
    BY <2>2 DEF Entry, Deferred
  <2> HIDE DEF e
  <2>4. \A i \in 1..Len(queue) : queue[i].kind = "task" => queue[i].task # e.task
    BY <1>1, <2>3, LineGives, DeferredIsNew
  <2>5. TasksOnce(queue')
    BY <2>1, <2>3, <2>4, LineGives, TasksAppend DEF LineInv
  <2> DEFINE new == <<t>>
  <2>6. new \in Seq(Elem) /\ \A i \in 1..Len(new) : new[i] \in Resumable
    BY DEF Elem, Resumable
  <2>7. Targets(e) = new
    BY <2>3 DEF Targets
  <2> HIDE DEF new
  <2>8. Queue(Append(queue, e)) = Queue(queue) \o new
    BY <2>3, <2>7, LineGives, QueueEnd
  <2>9. ToCome' = ToCome \o new
    <3> DEFINE a == current.targets  b == Queue(queue)
    <3>1. a \in Seq(Elem) /\ b \in Seq(Elem)
      BY LineGives, ToComeType
    <3>2. ToCome' = a \o (b \o new)
      BY <1>1, <2>1, <2>8 DEF ToCome, Queue, Rows
    <3> HIDE DEF a, b
    <3>3. a \o (b \o new) = (a \o b) \o new
      BY <2>6, <3>1
    <3> QED
      BY <3>2, <3>3, ToComeIs DEF a, b
  <2>10. conn' = Disconnected({}) /\ listeners' = Unlisted({}) /\ {} \in SUBSET Conns
    BY <1>1, LineGives, NoneGone
  <2>11. Moves(new, {})
    BY <2>6, <2>9, <2>10, LineGives, RaiseMoves
  <2>12. new \in {<<u>> : u \in Tasks} /\ {} \in SUBSET (Conns \cup Tasks)
    BY DEF new
  <2>13. Order!Step
    BY <1>1, <2>11, <2>12, ScriptAtWork, RaiseIsStep
  <2> QED
    BY <2>5, <2>13
<1> QED
  BY <1>2, <1>3

LEMMA CancelLine ==
    ASSUME LineInv, NEW t \in Tasks, Cancel(t)
    PROVE  Order!Step /\ TasksOnce(queue')
<1>1. PICK k \in DOMAIN queue : queue[k].kind = "task" /\ queue[k].task = t /\ queue' = RemoveAt(queue, k)
  BY DEF Cancel
<1>2. Script /\ UNCHANGED <<conn, listeners, current>>
  BY ScriptKeeps DEF Cancel
<1> DEFINE e == queue[k]
<1>3. PICK a \in Seq(Entry), b \in Seq(Entry) : queue = (a \o <<e>>) \o b /\ queue' = a \o b
  BY <1>1, LineGives, RemoveAtParts
<1>4. e \in Entry /\ e.kind = "task" /\ e.task = t
  BY <1>1, LineGives, LenProperties, ElementOfSeq
<1> HIDE DEF e
<1>5. /\ TasksOnce(a \o b)
      /\ \A i \in 1..Len(a) : a[i].kind = "task" => a[i].task # t
      /\ \A i \in 1..Len(b) : b[i].kind = "task" => b[i].task # t
  BY <1>3, <1>4, TasksRemove DEF LineInv
<1> DEFINE h == current.targets
           u == Queue(a)
           w == Queue(b)
           m == <<t>>
<1>6. h \in Seq(Elem) /\ u \in Seq(Elem) /\ w \in Seq(Elem) /\ m \in Seq(Elem) /\ h \in Seq(Conns)
  BY RowsType, LineGives, ToComeType, CurrentIs DEF Elem
<1>7. Queue(queue) = (u \o m) \o w
  <2> DEFINE o == <<e>>
  <2>0. \A p, q \in Seq(Entry) : p \o q \in Seq(Entry) /\ Queue(p \o q) = Queue(p) \o Queue(q)
    BY RowsConcat
  <2>1. o \in Seq(Entry) /\ Queue(o) = m
    <3>1. Queue(o) = Targets(e)
      BY <1>4, QueueOne
    <3>2. Targets(e) = m
      BY <1>4 DEF Targets
    <3> QED
      BY <1>4, <3>1, <3>2
  <2> HIDE DEF o, m
  <2>2. a \o o \in Seq(Entry) /\ Queue(a \o o) = u \o m
    BY <2>0, <2>1
  <2>3. Queue((a \o o) \o b) = Queue(a \o o) \o w
    <3> DEFINE p == a \o o
    <3>1. p \in Seq(Entry)
      BY <2>2
    <3> HIDE DEF p
    <3>2. Queue(p \o b) = Queue(p) \o w
      BY <2>0, <3>1
    <3> QED
      BY <3>2 DEF p
  <2> QED
    BY <1>3, <2>2, <2>3 DEF o
<1>8. Queue(a \o b) = u \o w
  BY RowsConcat
<1>9. /\ \A i \in 1..Len(h) : h[i] # t
      /\ \A i \in 1..Len(u) : u[i] # t
      /\ \A i \in 1..Len(w) : w[i] # t
  <2>1. \A i \in 1..Len(h) : h[i] # t
    BY <1>6, LineGives DEF NoShares
  <2>2. \A i \in 1..Len(u) : u[i] # t
    BY <1>5, LineGives, TaskInLine
  <2>3. \A i \in 1..Len(w) : w[i] # t
    BY <1>5, LineGives, TaskInLine
  <2> QED
    BY <2>1, <2>2, <2>3
<1>10. ToCome = h \o ((u \o m) \o w) /\ ToCome' = h \o (u \o w)
  BY <1>2, <1>3, <1>7, <1>8, ToComeIs DEF ToCome, Queue, Rows
<1>11. UNCHANGED <<Live, OneShots, Resumable>>
  BY <1>2 DEF Live, OneShots, Resumable
<1> DEFINE G == Elem \ {t}
           R == Resumable
           U == R \cap G
<1>12. Order!Without(Line \o <<>>, {t}) = Only(ToCome, U)
  <2>1. Line \in Seq(Elem) /\ ToCome \in Seq(Elem)
    BY LineGives, LineType, ToComeType
  <2>2. Line \o <<>> = Line
    BY <2>1
  <2>3. Only(Only(ToCome, R), G) = Only(ToCome, U)
    BY <2>1, OnlyTwice
  <2> QED
    BY <2>2, <2>3, OrderWithout DEF Line
<1>13. Line' = Only(h \o (u \o w), R)
  BY <1>10, <1>11 DEF Line
<1>14. Elem \ {t} = G /\ t \notin U /\ (\A y \in Elem : y # t => (y \in U <=> y \in R))
  OBVIOUS
<1> HIDE DEF h, u, w, m, G, R, U
<1>15. Only(h \o ((u \o m) \o w), U) = Only(h \o (u \o w), R)
  <2> DEFINE um  == u \o m
             umw == um \o w
             uw  == u \o w
  <2>1. um \in Seq(Elem) /\ umw \in Seq(Elem) /\ uw \in Seq(Elem)
    BY <1>6
  <2>0. /\ \A x, y \in Seq(Elem) : Only(x \o y, U) = Only(x, U) \o Only(y, U)
        /\ \A x, y \in Seq(Elem) : Only(x \o y, R) = Only(x, R) \o Only(y, R)
    BY OnlyConcat
  <2>4. Only(um, U) = Only(u, U) \o Only(m, U)
    BY <1>6, <2>0
  <2>7. Only(uw, R) = Only(u, R) \o Only(w, R)
    BY <1>6, <2>0
  <2> HIDE DEF um, uw
  <2>3. Only(umw, U) = Only(um, U) \o Only(w, U)
    BY <1>6, <2>0, <2>1
  <2> HIDE DEF umw
  <2>2. Only(h \o umw, U) = Only(h, U) \o Only(umw, U)
    BY <1>6, <2>0, <2>1
  <2>6. Only(h \o uw, R) = Only(h, R) \o Only(uw, R)
    BY <1>6, <2>0, <2>1
  <2>5. Only(m, U) = <<>>
    <3> DEFINE z == <<>>
    <3>1. z \in Seq(Elem) /\ t \in Elem /\ m = Append(z, t)
      BY DEF m, Elem
    <3> HIDE DEF z
    <3>2. Only(Append(z, t), U) = IF t \in U THEN Append(Only(z, U), t) ELSE Only(z, U)
      BY <3>1, OnlyAppend
    <3>3. Only(z, U) = <<>>
      BY OnlyOfNone DEF z
    <3> QED
      BY <1>14, <3>1, <3>2, <3>3
  <2>8. Only(h, U) = Only(h, R) /\ Only(u, U) = Only(u, R) /\ Only(w, U) = Only(w, R)
    <3>1. \A s \in Seq(Elem) : (\A i \in 1..Len(s) : s[i] # t) => \A i \in 1..Len(s) : s[i] \in U <=> s[i] \in R
      BY <1>14
    <3>2. \A i \in 1..Len(h) : h[i] \in U <=> h[i] \in R
      BY <1>6, <1>9, <3>1
    <3>3. \A i \in 1..Len(u) : u[i] \in U <=> u[i] \in R
      BY <1>6, <1>9, <3>1
    <3>4. \A i \in 1..Len(w) : w[i] \in U <=> w[i] \in R
      BY <1>6, <1>9, <3>1
    <3>5. Only(h, U) = Only(h, R)
      BY <1>6, <3>2, OnlySame
    <3>6. Only(u, U) = Only(u, R)
      BY <1>6, <3>3, OnlySame
    <3>7. Only(w, U) = Only(w, R)
      BY <1>6, <3>4, OnlySame
    <3> QED
      BY <3>5, <3>6, <3>7
  <2>9. Only(u, R) \in Seq(Elem) /\ Only(w, R) \in Seq(Elem)
    BY <1>6, OnlyType
  <2>10. Only(u, R) \o <<>> = Only(u, R)
    BY <2>9
  <2> QED
    BY <2>2, <2>3, <2>4, <2>5, <2>6, <2>7, <2>8, <2>10 DEF um, umw, uw
<1>16. Line' = Order!Without(Line \o <<>>, {t})
  BY <1>10, <1>12, <1>13, <1>15
<1>17. OneShots' = OneShots \ {t}
  BY <1>11, LineGives DEF OneShots, Live, NoShares
<1>18. listeners' = [s \in Signals |-> Order!Without(listeners[s], {t})]
  <2>1. ASSUME NEW s \in Signals PROVE Order!Without(listeners[s], {t}) = listeners[s]
    <3> DEFINE l == listeners[s]
    <3>1. l \in Seq(Conns) /\ l \in Seq(Elem)
      BY LineGives DEF Types, Lists, Elem
    <3> HIDE DEF l
    <3>2. \A i \in 1..Len(l) : l[i] \in Elem \ {t}
      BY <3>1, LineGives DEF NoShares, Elem
    <3>3. Only(l, Elem \ {t}) = l
      BY <3>1, <3>2, OnlyAll
    <3> QED
      BY <3>3, OrderWithout DEF l
  <2>2. listeners = [s \in Signals |-> listeners[s]]
    BY LineGives DEF Types, Lists
  <2> QED
    BY <1>2, <2>1, <2>2
<1>19. Moves(<<>>, {t})
  BY <1>16, <1>17, <1>18 DEF Moves, Order!Leave, OneShots
<1>20. {t} \in SUBSET (Conns \cup Tasks)
  OBVIOUS
<1>21. Order!Step
  BY <1>2, <1>19, <1>20, ScriptAtWork, RaiseIsStep
<1> QED
  BY <1>3, <1>5, <1>21

\* What a step that raises nothing does to the queue.
LEMMA TasksStay ==
    ASSUME TasksOnce(queue), UNCHANGED queue
    PROVE  TasksOnce(queue')
  OBVIOUS

LEMMA ServedOnce ==
    ASSUME LineInv, TakeFire \/ TakeTask \/ TakeClose
    PROVE  TasksOnce(queue')
<1>1. queue # <<>> /\ queue' = Tail(queue)
  BY DEF TakeFire, TakeTask, TakeClose
<1> QED
  BY <1>1, LineGives, TasksTail DEF LineInv

\* Init of the one is Init of the other.
LEMMA LineInit ==
    ASSUME ~LateConnect, Init
    PROVE  LineInv /\ Order!Init
<1>1. SignalInv /\ Faithful /\ Open
  BY InitInv DEF SignalInv
<1>2. queue = <<>> /\ current.targets = <<>> /\ Live = {} /\ listeners = [s \in Signals |-> <<>>]
  BY DEF Init, Idle, Live
<1>3. TasksOnce(queue)
  BY <1>2 DEF TasksOnce
<1>4. OneShots = {} /\ Line = <<>>
  <2>1. <<>> \o Queue(<<>>) = <<>>
    BY QueueNone
  <2>2. ToCome = <<>>
    BY <1>2, <2>1, ToComeIs
  <2> QED
    BY <1>2, <2>2, OnlyOfNone DEF OneShots, Line
<1>5. Stopped = {}
  BY <1>2 DEF Stopped
<1>6. Ready = FALSE
  BY DEF Init, Ready
<1> QED
  BY <1>1, <1>2, <1>3, <1>4, <1>5, <1>6 DEF LineInv, Order!Init, Line, Resumable, OneShots

LEMMA LineStep ==
    ASSUME ~LateConnect, LineInv, [Next]_vars
    PROVE  LineInv' /\ [Order!Next]_(Order!vars)
<1>0. SignalInv /\ TasksOnce(queue)
  BY DEF LineInv
<1>1. SignalInv' /\ Faithful' /\ Open'
  <2>1. SignalInv'
    BY <1>0, NextInv
  <2> QED
    BY <2>1 DEF SignalInv
<1> DEFINE Good == TasksOnce(queue') /\ [Order!Next]_(Order!vars)
           Steps == TasksOnce(queue') /\ Order!Step
<1>2. ASSUME NEW s \in Signals, Fire(s) PROVE Steps
  <2>1. TasksOnce(Enqueue(queue, s)) /\ queue' = Enqueue(queue, s)
    BY <1>0, <1>2, LineGives, TasksEnqueue DEF Fire
  <2> QED
    BY <1>2, <2>1, FireLine
<1>3. ASSUME NEW s \in Signals, NEW close \in BOOLEAN, EndSignal(s, close) PROVE Steps
  BY <1>0, <1>3, EndSignalLine, TasksStay DEF EndSignal
<1>4. ASSUME NEW t \in Tasks, Cancel(t) PROVE Steps
  BY <1>4, CancelLine
<1>5. ASSUME NEW t \in Tasks, NEW x \in Instances \cup {Nobody}, Defer(t, x) PROVE Steps
  BY <1>5, DeferLine
<1>6. ASSUME NEW c \in Conns, Disconnect(c) PROVE Steps
  BY <1>0, <1>6, DisconnectLine, TasksStay DEF Disconnect
<1>7. ASSUME NEW c \in Conns, NEW s \in Signals, NEW kind \in {"handler", "once", "waiter"},
             NEW x \in Instances \cup {Nobody}, Connect(c, s, kind, x)
      PROVE Steps
  BY <1>0, <1>7, ConnectLine, TasksStay DEF Connect
<1>8. ASSUME NEW x \in Instances, SetEnabled(x) PROVE Steps
  BY <1>0, <1>8, SetEnabledLine, TasksStay DEF SetEnabled
<1>9. ASSUME NEW x \in Instances, Destroy(x) PROVE Steps
  <2> DEFINE e == [kind |-> "close", owner |-> x]
             q == EnqueueDestroying(x)
  <2>1. queue' = Append(q, e)
    BY <1>9 DEF Destroy
  <2>2. e \in Entry /\ e.kind = "close"
    BY DEF Entry, Closing
  <2>3. q \in Seq(Entry) /\ TasksOnce(q)
    BY <1>0, LineGives, EnqueueDestroyingIs, TasksDestroying DEF NoneClosed
  <2> HIDE DEF e, q
  <2>4. TasksOnce(Append(q, e))
    BY <2>2, <2>3, TasksAppend
  <2> QED
    BY <1>9, <2>1, <2>4, DestroyLine
<1>10. ASSUME Say PROVE Steps
  <2>1. TasksOnce(Report(queue)) /\ queue' = Report(queue)
    BY <1>0, <1>10, LineGives, TasksReport DEF Say
  <2> QED
    BY <1>10, <2>1, SayLine
<1>11. ASSUME Return \/ StartDrain PROVE Steps
  <2>1. UNCHANGED queue
    BY <1>11 DEF Return, StartDrain
  <2> QED
    BY <1>0, <1>11, <2>1, ReturnLine, TasksStay
<1>12. ASSUME ServeTarget PROVE Steps
  BY <1>0, <1>12, ServeTargetLine, TasksStay DEF ServeTarget
<1>13. ASSUME TakeFire PROVE Steps
  BY <1>13, TakeFireLine, ServedOnce
<1>14. ASSUME TakeTask PROVE Steps
  BY <1>14, TakeTaskLine, ServedOnce
<1>15. ASSUME TakeClose PROVE Steps
  BY <1>15, TakeCloseLine, ServedOnce
<1>16. ASSUME EndDrain PROVE Steps
  <2>1. UNCHANGED queue
    BY <1>16 DEF EndDrain
  <2> QED
    BY <1>0, <1>16, <2>1, EndDrainLine, TasksStay
<1>17. ASSUME UNCHANGED vars PROVE Steps
  <2>1. UNCHANGED <<conn, listeners, queue, current>> /\ Ready' = Ready
    BY <1>17 DEF vars, Ready
  <2> QED
    BY <1>0, <2>1, QuietLine, StillStep, TasksStay
<1>18. Steps
  BY <1>2, <1>3, <1>4, <1>5, <1>6, <1>7, <1>8, <1>9, <1>10, <1>11, <1>12, <1>13, <1>14, <1>15, <1>16,
     <1>17 DEF Next, Drain
<1>19. Good
  BY <1>18, StepIsNext
<1> QED
  BY <1>1, <1>19 DEF LineInv

\* OneOrder: as long as no script connects to what has been closed, whatever
\* handlers fire, defer, cancel, disconnect, close and destroy, and however deep,
\* the targets of all that is queued are resumed in the one order in which they
\* were raised; only those that disconnected first, or whose script has been
\* stopped, are left out; and a drain goes on until nobody is in line.
THEOREM OneOrderHolds ==
    ASSUME ~LateConnect
    PROVE  Spec => OneOrder
<1>1. Init => LineInv /\ Order!Init
  BY LineInit
<1>2. LineInv /\ [Next]_vars => LineInv' /\ [Order!Next]_(Order!vars)
  BY LineStep
<1> QED
  BY <1>1, <1>2, PTL DEF Spec, OneOrder, Order!Spec

-----------------------------------------------------------------------------
(* The slot map: what its steps keep *)

Made(n)  == {i \in Index : i < n}
Held(v)  == {i \in Index : v[i] # None}
Highest(i) == Bigger(gen[i], ceiling[i])

\* A copy is a map in order, and its map has not shrunk since.
CopyExact(s) ==
    /\ s.size <= size
    /\ s.free = Made(s.size) \ Held(s.value)
    /\ \A i \in Held(s.value) : i < s.size
    /\ s.liveCount = Cardinality(Held(s.value))

CopiesExact == \A s \in saved : CopyExact(s)

\* No generation has been used above the highest known ...
Bounded  == \A h \in issued : h.index < size /\ h.generation <= Highest(h.index)
\* ... and that of a free slot is above every one ever used.
FreeFresh == \A h \in issued : value[h.index] = None => h.generation < gen[h.index]
\* What is in a slot was put there under the slot's generation.
HeldIssued == \A i \in Occupied : Handle(i) \in issued
CopiesIssued == \A s \in saved : \A i \in Held(s.value) :
                   [index |-> i, generation |-> s.gen[i], object |-> s.value[i]] \in issued
\* A name was given once.
Unique == \A h, k \in issued : h.index = k.index /\ h.generation = k.generation => h = k

Names == Bounded /\ FreeFresh /\ HeldIssued /\ CopiesIssued /\ Unique

SlotInv == SlotTypeOK /\ FreeExact /\ CopiesExact /\ (~wrapped => Names)

-----------------------------------------------------------------------------
(* The slot map: lemmas *)

LEMMA HeldFinite ==
    \A v : IsFiniteSet(Held(v)) /\ Cardinality(Held(v)) \in Nat
<1> TAKE v
<1>1. IsFiniteSet(Index)
  BY FS_Interval, SlotAssumption DEF Index
<1>2. Held(v) \in SUBSET Index
  BY DEF Held
<1> QED
  BY <1>1, <1>2, FS_Subset, FS_CardinalityType

LEMMA OccupiedIsHeld == Occupied = Held(value)
BY DEF Occupied, Held

LEMMA BiggerBounds ==
    ASSUME NEW a \in Nat, NEW b \in Nat
    PROVE  /\ Bigger(a, b) \in Nat /\ a <= Bigger(a, b) /\ b <= Bigger(a, b)
           /\ Bigger(a, b) \in {a, b}
BY DEF Bigger

\* The next generation is never 0, and above both numbers unless it wraps.
LEMMA NextGenerationMovesOn ==
    ASSUME NEW g \in Nat \ {0}, NEW c \in Nat
    PROVE  /\ NextGeneration(g, c) \in Nat \ {0}
           /\ ~Wraps(g, c) => g < NextGeneration(g, c) /\ c < NextGeneration(g, c)
BY SlotAssumption DEF NextGeneration, Wraps

LEMMA IndexIsNat == \A i \in Index : i \in Nat
BY SlotAssumption DEF Index

-----------------------------------------------------------------------------
(* The slot map: the inductive invariant *)

LEMMA SlotInitInv == SlotInit => SlotInv
<1> SUFFICES ASSUME SlotInit PROVE SlotInv
  OBVIOUS
<1>1. SlotTypeOK
  <2>1. wrapped \in BOOLEAN
    BY Zenon DEF SlotInit
  <2>2. size \in 0..MaxSlots
    BY SlotAssumption DEF SlotInit
  <2> QED
    BY <2>1, <2>2 DEF SlotInit, SlotTypeOK
<1>2. FreeExact
  <2>1. Occupied = {} /\ free = {} /\ liveCount = 0 /\ size = 0
    BY DEF SlotInit, Occupied
  <2>2. {i \in Index : i < size} = {}
    BY <2>1, IndexIsNat
  <2>3. liveCount = Cardinality(Occupied)
    BY <2>1, FS_EmptySet
  <2> QED
    BY <2>1, <2>2, <2>3 DEF FreeExact
<1>3. CopiesExact
  BY DEF SlotInit, CopiesExact
<1>4. Names
  BY DEF SlotInit, Names, Bounded, FreeFresh, HeldIssued, CopiesIssued, Unique, Occupied
<1> QED
  BY <1>1, <1>2, <1>3, <1>4 DEF SlotInv

\* The slot an insert takes, and its new handle.
InsertInto(i, o) ==
    /\ value' = [value EXCEPT ![i] = o]
    /\ free' = free \ {i}
    /\ size' = IF i = size THEN size + 1 ELSE size
    /\ issued' = issued \cup {[index |-> i, generation |-> gen[i], object |-> o]}

\* The slot is empty, and its generation has not been used.
LEMMA InsertSlot ==
    ASSUME SlotInv, NEW o \in Objects, Insert(o)
    PROVE  \E i \in Index :
             /\ InsertInto(i, o)
             /\ i \notin Occupied /\ i <= size
             /\ (i \in free /\ i # size) \/ (free = {} /\ i = size)
             /\ ~wrapped => \A h \in issued : h.index = i => h.generation < gen[i]
<1>1. PICK i \in free \cup (IF free = {} /\ size < MaxSlots THEN {size} ELSE {}) :
         InsertInto(i, o)
  BY DEF Insert, InsertInto
<1>2. CASE i \in free
  <2>1. i \in Index /\ i < size /\ i \notin Occupied
    BY <1>2 DEF SlotInv, FreeExact
  <2>2. i <= size /\ i # size
    BY <2>1, IndexIsNat DEF SlotInv, SlotTypeOK
  <2>3. ~wrapped => \A h \in issued : h.index = i => h.generation < gen[i]
    BY <2>1 DEF SlotInv, Names, FreeFresh, Occupied
  <2> QED
    BY <1>1, <1>2, <2>1, <2>2, <2>3
<1>3. CASE free = {} /\ size < MaxSlots /\ i = size
  <2>1. i \in Index /\ i <= size
    BY <1>3, SlotAssumption DEF Index, SlotInv, SlotTypeOK
  <2>2. i \notin Occupied
    BY <1>3, <2>1, IndexIsNat DEF SlotInv, FreeExact
  <2>3. ~wrapped => \A h \in issued : h.index = i => h.generation < gen[i]
    BY <1>3, IndexIsNat DEF SlotInv, Names, Bounded, SlotTypeOK, HandleType
  <2> QED
    BY <1>1, <1>3, <2>1, <2>2, <2>3
<1> QED
  BY <1>1, <1>2, <1>3

LEMMA InsertKeeps == ASSUME SlotInv, NEW o \in Objects, Insert(o) PROVE SlotInv'
<1>1. PICK i \in Index :
         /\ InsertInto(i, o)
         /\ i \notin Occupied /\ i <= size
         /\ (i \in free /\ i # size) \/ (free = {} /\ i = size)
         /\ ~wrapped => \A h \in issued : h.index = i => h.generation < gen[i]
  BY InsertSlot
<1>2. UNCHANGED <<gen, ceiling, saved, restores, wrapped>> /\ liveCount' = liveCount + 1
  BY DEF Insert
<1>3. size' \in 0..MaxSlots /\ size <= size' /\ i < size'
  BY <1>1, SlotAssumption DEF InsertInto, SlotInv, SlotTypeOK, Index
<1>4. [index |-> i, generation |-> gen[i], object |-> o] \in HandleType
  BY DEF SlotInv, SlotTypeOK, HandleType
<1>5. Occupied' = Occupied \cup {i}
  BY <1>1, SlotAssumption DEF InsertInto, Occupied, SlotInv, SlotTypeOK
<1>6. SlotTypeOK'
  BY <1>1, <1>2, <1>3, <1>4 DEF InsertInto, SlotInv, SlotTypeOK
<1>7. FreeExact'
  <2>1. liveCount' = Cardinality(Occupied')
    BY <1>1, <1>2, <1>5, HeldFinite, OccupiedIsHeld, FS_AddElement DEF SlotInv, FreeExact
  <2>2. free' = {k \in Index : k < size'} \ Occupied'
    <3>1. free' = ({k \in Index : k < size} \ Occupied) \ {i}
      BY <1>1 DEF InsertInto, SlotInv, FreeExact
    <3>2. \A k \in Index : k # i => (k < size' <=> k < size)
      BY <1>1, IndexIsNat DEF InsertInto, SlotInv, SlotTypeOK
    <3> QED
      BY <3>1, <3>2, <1>5
  <2>3. \A k \in Occupied' : k < size'
    BY <1>3, <1>5, IndexIsNat DEF Occupied, SlotInv, SlotTypeOK, FreeExact
  <2> QED
    BY <2>1, <2>2, <2>3 DEF FreeExact
<1>8. CopiesExact'
  BY <1>2, <1>3 DEF SlotInv, SlotTypeOK, CopyType, CopiesExact, CopyExact
<1>9. ASSUME ~wrapped' PROVE Names'
  <2>1. ~wrapped /\ Names
    BY <1>2, <1>9 DEF SlotInv
  <2>2. Bounded'
    <3>1. Highest(i)' = Highest(i) /\ gen[i] <= Highest(i)
      BY <1>2, BiggerBounds DEF Highest, SlotInv, SlotTypeOK
    <3>2. \A h \in issued : h.index < size' /\ h.generation <= Highest(h.index)'
      BY <1>2, <1>3, <2>1, IndexIsNat DEF Names, Bounded, Highest, SlotInv, SlotTypeOK, HandleType
    <3> QED
      BY <1>1, <1>3, <3>1, <3>2 DEF InsertInto, Bounded
  <2>3. FreeFresh'
    BY <1>1, <1>2, <2>1, SlotAssumption DEF InsertInto, Names, FreeFresh, SlotInv, SlotTypeOK, HandleType
  <2>4. HeldIssued'
    BY <1>1, <1>2, <1>5, <2>1 DEF InsertInto, Names, HeldIssued, Handle, SlotInv, SlotTypeOK
  <2>5. CopiesIssued'
    BY <1>1, <1>2, <2>1 DEF InsertInto, Names, CopiesIssued
  <2>6. Unique'
    BY <1>1, <1>2, <2>1 DEF InsertInto, Names, Unique, SlotInv, SlotTypeOK, HandleType
  <2> QED
    BY <2>2, <2>3, <2>4, <2>5, <2>6 DEF Names
<1> QED
  BY <1>6, <1>7, <1>8, <1>9 DEF SlotInv

\* What erase and clear have in common: the slots of B are emptied and move on.
EmptyOut(B) ==
    /\ value' = [i \in Index |-> IF i \in B THEN None ELSE value[i]]
    /\ gen' = [i \in Index |-> IF i \in B THEN NextGeneration(gen[i], ceiling[i]) ELSE gen[i]]
    /\ wrapped' = (wrapped \/ \E i \in B : Wraps(gen[i], ceiling[i]))
    /\ free' = free \cup B
    /\ UNCHANGED <<size, ceiling, saved, restores, issued>>

LEMMA EmptyOutKeeps ==
    ASSUME SlotInv, NEW B \in SUBSET Occupied, EmptyOut(B), liveCount' = Cardinality(Occupied')
    PROVE  SlotInv'
<1>1. B \subseteq Index
  BY DEF Occupied
<1>0. /\ value' = [i \in Index |-> IF i \in B THEN None ELSE value[i]]
      /\ gen' = [i \in Index |-> IF i \in B THEN NextGeneration(gen[i], ceiling[i]) ELSE gen[i]]
      /\ free' = free \cup B
      /\ UNCHANGED <<size, ceiling, saved, restores, issued>>
  BY Zenon DEF EmptyOut
<1>2. Occupied' = Occupied \ B
  BY <1>0, <1>1, SlotAssumption DEF Occupied
<1>3. \A i \in Index :
         /\ gen'[i] \in Nat \ {0}
         /\ i \notin B => gen'[i] = gen[i]
  BY <1>0, <1>1, NextGenerationMovesOn DEF SlotInv, SlotTypeOK
<1>4. SlotTypeOK'
  <2>1. liveCount' \in Nat
    BY HeldFinite DEF Held, Occupied
  <2>2. wrapped' \in BOOLEAN
    BY Zenon DEF EmptyOut
  <2>3. gen' \in [Index -> Nat \ {0}] /\ value' \in [Index -> Objects \cup {None}]
    BY <1>0, <1>3 DEF SlotInv, SlotTypeOK
  <2> QED
    BY <1>0, <1>1, <2>1, <2>2, <2>3 DEF SlotInv, SlotTypeOK
<1>5. FreeExact'
  <2>1. free' = {i \in Index : i < size'} \ Occupied'
    BY <1>0, <1>1, <1>2 DEF SlotInv, FreeExact
  <2> QED
    BY <1>0, <1>2, <2>1 DEF SlotInv, FreeExact
<1>6. CopiesExact'
  BY <1>0 DEF SlotInv, CopiesExact, CopyExact
<1>7. ASSUME ~wrapped' PROVE Names'
  <2>0. ~wrapped /\ \A i \in B : ~Wraps(gen[i], ceiling[i])
    BY Zenon, <1>7 DEF EmptyOut
  <2>1. Names
    BY <2>0 DEF SlotInv
  <2>9. \A i \in B : gen[i] < gen'[i] /\ ceiling[i] < gen'[i]
    BY <1>0, <1>1, <2>0, NextGenerationMovesOn DEF SlotInv, SlotTypeOK
  <2>2. \A i \in Index : Highest(i) <= Highest(i)' /\ Highest(i) \in Nat /\ Highest(i)' \in Nat
    <3> TAKE i \in Index
    <3>1. gen[i] \in Nat /\ gen'[i] \in Nat /\ ceiling[i] \in Nat /\ ceiling'[i] = ceiling[i]
      BY <1>0, <1>3 DEF SlotInv, SlotTypeOK
    <3>2. gen[i] <= gen'[i]
      BY <1>3, <2>9, <3>1
    <3> QED
      BY <3>1, <3>2 DEF Highest, Bigger
  <2>3. Bounded'
    BY <1>0, <2>1, <2>2 DEF Names, Bounded, SlotInv, SlotTypeOK, HandleType
  <2>4. FreeFresh'
    <3> SUFFICES ASSUME NEW h \in issued, value'[h.index] = None
                 PROVE  h.generation < gen'[h.index]
      BY <1>0 DEF FreeFresh
    <3>1. h.index \in Index /\ h.generation \in Nat
      BY DEF SlotInv, SlotTypeOK, HandleType
    <3>2. CASE h.index \notin B
      BY <1>0, <1>3, <2>1, <3>1, <3>2 DEF Names, FreeFresh
    <3>3. CASE h.index \in B
      <4>1. h.generation <= Highest(h.index) /\ Highest(h.index) < gen'[h.index]
        BY <1>3, <2>1, <2>9, <3>1, <3>3 DEF Names, Bounded, Highest, Bigger
      <4> QED
        BY <1>3, <2>2, <3>1, <4>1
    <3> QED
      BY <3>2, <3>3
  <2>5. HeldIssued'
    BY <1>0, <1>1, <1>2, <1>3, <2>1 DEF Names, HeldIssued, Handle, Occupied
  <2>6. CopiesIssued' /\ Unique'
    BY <1>0, <2>1 DEF Names, CopiesIssued, Unique
  <2> QED
    BY <2>3, <2>4, <2>5, <2>6 DEF Names
<1> QED
  BY <1>4, <1>5, <1>6, <1>7 DEF SlotInv

LEMMA EraseKeeps == ASSUME SlotInv, NEW h \in issued, Erase(h) PROVE SlotInv'
<1>1. h.index \in Occupied /\ h.index \in Index
  BY DEF Erase, Resolves, Occupied, SlotInv, SlotTypeOK, HandleType
<1>2. EmptyOut({h.index})
  BY <1>1 DEF Erase, EmptyOut, SlotInv, SlotTypeOK
<1>3. Occupied' = Occupied \ {h.index}
  BY <1>1, SlotAssumption DEF Erase, Occupied, SlotInv, SlotTypeOK
<1>4. liveCount' = Cardinality(Occupied')
  BY <1>1, <1>3, HeldFinite, OccupiedIsHeld, FS_RemoveElement DEF Erase, SlotInv, FreeExact
<1> QED
  BY <1>1, <1>2, <1>4, EmptyOutKeeps

LEMMA ClearKeeps == ASSUME SlotInv, Clear PROVE SlotInv'
<1>1. EmptyOut(Occupied)
  BY DEF Clear, EmptyOut, Occupied
<1>2. liveCount' = Cardinality(Occupied')
  <2>1. Occupied' = {}
    BY DEF Clear, Occupied
  <2> QED
    BY <2>1, FS_EmptySet DEF Clear
<1> QED
  BY <1>1, <1>2, EmptyOutKeeps

LEMMA CopyKeeps == ASSUME SlotInv, Copy PROVE SlotInv'
<1>3. [size |-> size, value |-> value, gen |-> gen, free |-> free, liveCount |-> liveCount] \in CopyType
  BY DEF SlotInv, SlotTypeOK, CopyType
<1>1. PICK s \in CopyType :
         /\ saved' = saved \cup {s}
         /\ s = [size |-> size, value |-> value, gen |-> gen, free |-> free, liveCount |-> liveCount]
  BY <1>3 DEF Copy
<1>2. UNCHANGED <<size, value, gen, free, ceiling, liveCount, restores, issued, wrapped>>
  BY DEF Copy
<1>4. SlotTypeOK'
  BY <1>1, <1>2, <1>3 DEF SlotInv, SlotTypeOK
<1>5. Occupied' = Occupied /\ FreeExact'
  BY <1>2 DEF SlotInv, FreeExact, Occupied
<1>6. CopiesExact'
  <2>1. \A u \in saved : CopyExact(u)'
    BY <1>2 DEF SlotInv, CopiesExact, CopyExact
  <2>2. CopyExact(s)'
    BY <1>1, <1>2, OccupiedIsHeld DEF SlotInv, SlotTypeOK, FreeExact, CopyExact, Made
  <2> QED
    BY <1>1, <2>1, <2>2 DEF CopiesExact
<1>7. ASSUME ~wrapped' PROVE Names'
  <2>1. Names
    BY <1>2, <1>7 DEF SlotInv
  <2>2. CopiesIssued'
    <3>1. \A i \in Held(s.value) :
             [index |-> i, generation |-> s.gen[i], object |-> s.value[i]] \in issued
      BY <1>1, <2>1, OccupiedIsHeld DEF Names, HeldIssued, Handle
    <3> QED
      BY <1>1, <1>2, <2>1, <3>1 DEF Names, CopiesIssued
  <2>3. Bounded' /\ FreeFresh' /\ HeldIssued' /\ Unique'
    BY <1>2, <1>5, <2>1 DEF Names, Bounded, FreeFresh, HeldIssued, Unique, Highest, Handle
  <2> QED
    BY <2>2, <2>3 DEF Names
<1> QED
  BY <1>4, <1>5, <1>6, <1>7 DEF SlotInv

\* The vectors a restore works with.
High(s)   == [i \in Index |-> Bigger(ceiling[i], Bigger(gen[i], s.gen[i]))]
Back(s)   == [i \in Index |-> IF i < s.size THEN s.gen[i] ELSE gen[i]]
Vacant(s) == {i \in Index : i < size /\ s.value[i] = None}

LEMMA RestoreSteps ==
    ASSUME SlotInv, NEW s \in saved, RestoreFrom(s)
    PROVE  /\ ceiling' = [i \in Index |-> IF i < size THEN High(s)[i] ELSE ceiling[i]]
           /\ gen' = [i \in Index |-> IF i \in Vacant(s) THEN NextGeneration(Back(s)[i], High(s)[i])
                                     ELSE Back(s)[i]]
           /\ free' = s.free \cup {i \in Index : s.size <= i /\ i < size}
           /\ value' = s.value /\ liveCount' = s.liveCount
           /\ restores' = restores + 1
           /\ UNCHANGED <<size, saved, issued>>
BY Zenon DEF RestoreFrom, High, Back, Vacant

LEMMA RestoreWraps ==
    ASSUME SlotInv, NEW s \in saved, RestoreFrom(s)
    PROVE  /\ wrapped' \in BOOLEAN
           /\ ~wrapped' => ~wrapped /\ \A i \in Vacant(s) : ~Wraps(Back(s)[i], High(s)[i])
BY Zenon DEF RestoreFrom, High, Back, Vacant

\* The ceiling is above all the map and the copy ever were.
LEMMA HighBounds ==
    ASSUME SlotInv, NEW s \in saved, NEW i \in Index
    PROVE  /\ s \in CopyType
           /\ High(s)[i] \in Nat /\ Back(s)[i] \in Nat \ {0}
           /\ gen[i] <= High(s)[i] /\ ceiling[i] <= High(s)[i] /\ s.gen[i] <= High(s)[i]
<1>1. s \in CopyType
  BY DEF SlotInv, SlotTypeOK
<1>2. gen[i] \in Nat \ {0} /\ ceiling[i] \in Nat /\ s.gen[i] \in Nat \ {0}
  BY <1>1 DEF SlotInv, SlotTypeOK, CopyType
<1> QED
  BY <1>1, <1>2 DEF High, Back, Bigger

LEMMA RestoreKeeps == ASSUME SlotInv, NEW s \in saved, RestoreFrom(s) PROVE SlotInv'
<1>1. s \in CopyType /\ CopyExact(s)
  BY DEF SlotInv, SlotTypeOK, CopiesExact
<1>2. Occupied' = Held(s.value)
  BY RestoreSteps DEF Occupied, Held
<1>3. \A i \in Index :
         /\ gen'[i] \in Nat \ {0} /\ ceiling'[i] \in Nat
         /\ s.value[i] # None => gen'[i] = s.gen[i]
  <2> TAKE i \in Index
  <2>1. High(s)[i] \in Nat /\ Back(s)[i] \in Nat \ {0} /\ ceiling[i] \in Nat
    BY HighBounds DEF SlotInv, SlotTypeOK
  <2>2. gen'[i] \in Nat \ {0} /\ ceiling'[i] \in Nat
    BY <2>1, RestoreSteps, NextGenerationMovesOn
  <2>3. s.value[i] # None => gen'[i] = s.gen[i]
    BY <1>1, RestoreSteps DEF CopyExact, Held, Vacant, Back
  <2> QED
    BY <2>2, <2>3
<1>4. SlotTypeOK'
  <2>1. gen' \in [Index -> Nat \ {0}] /\ ceiling' \in [Index -> Nat]
    BY <1>3, RestoreSteps
  <2>2. value' \in [Index -> Objects \cup {None}] /\ free' \in SUBSET Index /\ liveCount' \in Nat
    BY <1>1, RestoreSteps DEF CopyType
  <2> QED
    BY <2>1, <2>2, RestoreSteps, RestoreWraps DEF SlotInv, SlotTypeOK
<1>5. FreeExact'
  <2>1. \A i \in Index : i < size <=> i < s.size \/ (s.size <= i /\ i < size)
    BY <1>1, IndexIsNat DEF CopyExact, CopyType, SlotInv, SlotTypeOK
  <2>2. free' = {i \in Index : i < size'} \ Occupied'
    <3>1. free' = (Made(s.size) \ Held(s.value)) \cup {i \in Index : s.size <= i /\ i < size}
      BY <1>1, RestoreSteps DEF CopyExact
    <3>2. \A i \in Index : s.size <= i => i \notin Held(s.value)
      BY <1>1, IndexIsNat DEF CopyExact, CopyType, Held
    <3> QED
      BY <1>2, <2>1, <3>1, <3>2, RestoreSteps DEF Made
  <2>3. \A i \in Occupied' : i < size'
    BY <1>1, <1>2, <2>1, RestoreSteps DEF CopyExact, Held
  <2> QED
    BY <1>1, <1>2, <2>2, <2>3, RestoreSteps DEF CopyExact, FreeExact
<1>6. CopiesExact'
  BY RestoreSteps DEF SlotInv, CopiesExact, CopyExact
<1>7. ASSUME ~wrapped' PROVE Names'
  <2>1. ~wrapped /\ \A i \in Vacant(s) : ~Wraps(Back(s)[i], High(s)[i])
    BY <1>7, RestoreWraps
  <2>2. Names
    BY <2>1 DEF SlotInv
  <2>3. \A h \in issued : /\ h.index \in Index /\ h.index < size
                          /\ h.generation \in Nat /\ h.generation <= High(s)[h.index]
    <3> TAKE h \in issued
    <3>1. /\ h.index \in Index /\ h.generation \in Nat
          /\ h.index < size /\ h.generation <= Highest(h.index)
      BY <2>2 DEF Names, Bounded, SlotInv, SlotTypeOK, HandleType
    <3>2. gen[h.index] \in Nat /\ ceiling[h.index] \in Nat
      BY <3>1 DEF SlotInv, SlotTypeOK
    <3> QED
      BY <3>1, <3>2, HighBounds DEF Highest, Bigger
  <2>4. Bounded'
    <3>1. \A h \in issued : h.generation <= Highest(h.index)'
      <4> TAKE h \in issued
      <4>1. ceiling'[h.index] = High(s)[h.index]
        BY <2>3, RestoreSteps
      <4>2. gen'[h.index] \in Nat /\ ceiling'[h.index] \in Nat
        BY <1>3, <2>3
      <4> QED
        BY <2>3, <4>1, <4>2 DEF Highest, Bigger
    <3> QED
      BY <2>3, <3>1, RestoreSteps DEF Bounded
  <2>5. FreeFresh'
    <3> SUFFICES ASSUME NEW h \in issued, s.value[h.index] = None
                 PROVE  h.generation < gen'[h.index]
      BY RestoreSteps DEF FreeFresh
    <3>1. h.index \in Vacant(s)
      BY <2>3 DEF Vacant
    <3>2. gen'[h.index] = NextGeneration(Back(s)[h.index], High(s)[h.index])
      BY <2>3, <3>1, RestoreSteps
    <3>3. High(s)[h.index] < gen'[h.index]
      BY <2>1, <2>3, <3>1, <3>2, HighBounds, NextGenerationMovesOn
    <3> QED
      BY <1>3, <2>3, <3>3, HighBounds
  <2>6. HeldIssued'
    BY <1>2, <1>3, <2>2, RestoreSteps DEF Names, CopiesIssued, HeldIssued, Handle, Held
  <2>7. CopiesIssued' /\ Unique'
    BY <2>2, RestoreSteps DEF Names, CopiesIssued, Unique
  <2> QED
    BY <2>4, <2>5, <2>6, <2>7 DEF Names
<1> QED
  BY <1>4, <1>5, <1>6, <1>7 DEF SlotInv

LEMMA SlotStepInv == SlotInv /\ [SlotNext]_slotVars => SlotInv'
<1> SUFFICES ASSUME SlotInv, [SlotNext]_slotVars PROVE SlotInv'
  OBVIOUS
<1>1. CASE \E o \in Objects : Insert(o)
  BY <1>1, InsertKeeps
<1>2. CASE \E h \in issued : Erase(h)
  BY <1>2, EraseKeeps
<1>3. CASE Clear
  BY <1>3, ClearKeeps
<1>4. CASE Copy
  BY <1>4, CopyKeeps
<1>5. CASE \E s \in saved : RestoreFrom(s)
  BY <1>5, RestoreKeeps
<1>6. CASE UNCHANGED slotVars
  BY <1>6 DEF slotVars, SlotInv, SlotTypeOK, FreeExact, CopiesExact, CopyExact, Names, Bounded, FreeFresh,
              HeldIssued, CopiesIssued, Unique, Highest, Handle, Occupied
<1> QED
  BY <1>1, <1>2, <1>3, <1>4, <1>5, <1>6 DEF SlotNext

LEMMA SlotInvHolds == SlotSpec => []SlotInv
BY SlotInitInv, SlotStepInv, PTL DEF SlotSpec

-----------------------------------------------------------------------------
(* What is proved of the slot map *)

\* Every vector of the map, and of every copy kept of it, stays in its type; the
\* live count is never taken below zero by an erase.
THEOREM TypeCorrect == SlotSpec => []SlotTypeOK
<1>1. SlotInv => SlotTypeOK
  BY DEF SlotInv
<1> QED
  BY <1>1, SlotInvHolds, PTL

\* A slot is occupied or free and never both, and size() counts the occupied
\* ones, whatever was erased, cleared or put back.
THEOREM SlotsExact == SlotSpec => []FreeExact
<1>1. SlotInv => FreeExact
  BY DEF SlotInv
<1> QED
  BY <1>1, SlotInvHolds, PTL

\* A handle resolves to the object it was issued for or to nothing.
THEOREM NeverAliased == SlotSpec => []Unaliased
<1>1. SlotInv => Unaliased
  <2> SUFFICES ASSUME SlotInv, ~wrapped, NEW h \in issued, Resolves(h)
               PROVE  value[h.index] = h.object
    BY DEF Unaliased
  <2>1. Names /\ h.index \in Occupied
    BY DEF SlotInv, SlotTypeOK, HandleType, Resolves, Occupied
  <2>2. Handle(h.index) \in issued
    BY <2>1 DEF Names, HeldIssued
  <2>3. Handle(h.index) = h
    BY <2>1, <2>2 DEF Names, Unique, Handle, Resolves
  <2> QED
    BY <2>3 DEF Handle
<1> QED
  BY <1>1, SlotInvHolds, PTL

-----------------------------------------------------------------------------
(* The slot map implements HandleTable *)

LiveHandles == {Handle(i) : i \in Occupied}
LiveIn(s) == {[index |-> i, generation |-> s.gen[i], object |-> s.value[i]] :
                  i \in {j \in Index : s.value[j] # None}}
Copies == {LiveIn(s) : s \in saved}

USE DEF LiveHandles, LiveIn, Copies

LEMMA TableInsert ==
    ASSUME SlotInv, ~wrapped, NEW o \in Objects, Insert(o)
    PROVE  \E h \in issued' : Handles!Insert(h)
<1>1. PICK i \in Index :
         /\ InsertInto(i, o)
         /\ i \notin Occupied /\ i <= size
         /\ (i \in free /\ i # size) \/ (free = {} /\ i = size)
         /\ ~wrapped => \A h \in issued : h.index = i => h.generation < gen[i]
  BY InsertSlot
<1> DEFINE h == [index |-> i, generation |-> gen[i], object |-> o]
<1>2. UNCHANGED <<gen, saved>>
  BY DEF Insert
<1>3. \A k \in issued : k.index = i => k.generation # gen[i]
  BY <1>1 DEF SlotInv, SlotTypeOK, HandleType
<1>4. \A k \in LiveHandles : k.index # i
  BY <1>1 DEF Handle
<1>5. LiveHandles' = LiveHandles \cup {h}
  <2>1. Occupied' = Occupied \cup {i} /\ value'[i] = o
    BY <1>1, SlotAssumption DEF InsertInto, Occupied, SlotInv, SlotTypeOK
  <2>2. \A k \in Occupied : Handle(k)' = Handle(k)
    BY <1>1, <1>2 DEF InsertInto, Handle, Occupied, SlotInv, SlotTypeOK
  <2>3. Handle(i)' = h
    BY <1>2, <2>1 DEF Handle
  <2> QED
    BY <2>1, <2>2, <2>3
<1>6. issued' = issued \cup {h} /\ Copies' = Copies
  BY <1>1, <1>2 DEF InsertInto
<1>7. h.index = i /\ h.generation = gen[i]
  OBVIOUS
<1>8. (\A k \in issued : ~(h.index = k.index /\ h.generation = k.generation))
      /\ (\A k \in LiveHandles : h.index # k.index)
  BY <1>3, <1>4, <1>7
<1> HIDE DEF h
<1>9. Handles!Insert(h)
  BY <1>5, <1>6, <1>8 DEF Handles!Insert, Handles!SameName
<1> QED
  BY <1>6, <1>9

LEMMA TableErase ==
    ASSUME SlotInv, ~wrapped, NEW h \in issued, Erase(h)
    PROVE  \E k \in LiveHandles : Handles!Erase(k)
<1>1. h.index \in Occupied /\ h.index \in Index
  BY DEF Erase, Resolves, Occupied, SlotInv, SlotTypeOK, HandleType
<1>2. Handle(h.index) = h
  BY <1>1 DEF SlotInv, Names, HeldIssued, Unique, Handle, Erase, Resolves
<1>3. Occupied' = Occupied \ {h.index}
  BY <1>1, SlotAssumption DEF Erase, Occupied, SlotInv, SlotTypeOK
<1>4. \A k \in Occupied : k # h.index => Handle(k)' = Handle(k)
  BY <1>1 DEF Erase, Handle, Occupied, SlotInv, SlotTypeOK
<1>5. LiveHandles' = LiveHandles \ {h}
  <2>1. LiveHandles' = {Handle(k) : k \in Occupied \ {h.index}}
    BY <1>3, <1>4
  <2>2. \A k \in Occupied : k # h.index => Handle(k) # h
    BY DEF Handle
  <2> QED
    BY <1>1, <1>2, <2>1, <2>2
<1>6. issued' = issued /\ Copies' = Copies
  BY DEF Erase
<1> QED
  BY <1>1, <1>2, <1>5, <1>6 DEF Handles!Erase

LEMMA TableStep ==
    SlotInv /\ ~wrapped /\ [SlotNext]_slotVars => [Handles!Next]_Handles!table
<1> SUFFICES ASSUME SlotInv, ~wrapped, [SlotNext]_slotVars PROVE [Handles!Next]_Handles!table
  OBVIOUS
<1>1. CASE \E o \in Objects : Insert(o)
  BY <1>1, TableInsert DEF Handles!Next
<1>2. CASE \E h \in issued : Erase(h)
  BY <1>2, TableErase DEF Handles!Next
<1>3. CASE Clear
  <2>1. LiveHandles' = {}
    BY <1>3 DEF Clear, Occupied
  <2> QED
    BY <1>3, <2>1 DEF Clear, Handles!Next, Handles!Clear
<1>4. CASE Copy
  <2>1. LiveHandles' = LiveHandles
    BY <1>4 DEF Copy, Handle, Occupied
  <2>2. Copies' = Copies \cup {LiveHandles}
    <3>1. PICK s : /\ saved' = saved \cup {s}
                   /\ s = [size |-> size, value |-> value, gen |-> gen, free |-> free,
                           liveCount |-> liveCount]
      BY <1>4 DEF Copy
    <3>2. LiveIn(s) = LiveHandles
      BY <3>1 DEF Handle, Occupied
    <3> QED
      BY <3>1, <3>2
  <2> QED
    BY <1>4, <2>1, <2>2 DEF Copy, Handles!Next, Handles!Copy
<1>5. CASE \E s \in saved : RestoreFrom(s)
  <2>1. PICK s \in saved : RestoreFrom(s)
    BY <1>5
  <2>2. Occupied' = Held(s.value) /\ value' = s.value
    BY <2>1, RestoreSteps DEF Occupied, Held
  <2>3. \A i \in Held(s.value) : gen'[i] = s.gen[i]
    BY <2>1, RestoreSteps DEF Held, Back, Vacant, SlotInv, CopiesExact, CopyExact
  <2>4. LiveHandles' = LiveIn(s)
    BY <2>2, <2>3 DEF Handle, Held
  <2>5. LiveIn(s) \in Copies /\ Copies' = Copies /\ issued' = issued
    BY <2>1, RestoreSteps
  <2> QED
    BY <2>4, <2>5 DEF Handles!Next, Handles!Restore
<1>6. CASE UNCHANGED slotVars
  BY <1>6 DEF slotVars, Handles!table, Handle, Occupied
<1> QED
  BY <1>1, <1>2, <1>3, <1>4, <1>5, <1>6 DEF SlotNext

\* Until a slot has used up its generations, the slots, the free list and the
\* ceilings together keep the promise of HandleTable: a fresh name for every
\* insert, and a restore that brings back what was live and nothing else.
THEOREM MapImplementsTable == SlotSpec /\ []~wrapped => ImplementsHandles
<1>1. SlotInit => Handles!Init
  BY DEF SlotInit, Handles!Init, Occupied
<1> QED
  BY <1>1, TableStep, SlotInvHolds, PTL DEF SlotSpec, ImplementsHandles, Handles!Spec
=============================================================================
