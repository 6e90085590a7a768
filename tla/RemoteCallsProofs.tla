-------------------------- MODULE RemoteCallsProofs --------------------------
(* Theorems about RemoteCalls, for any number of questions, remotes, messages *)
(* and connections, any waits, and any bounds on what waits and is polled.    *)
EXTENDS RemoteCalls, SublistProofs, SequenceTheorems

-----------------------------------------------------------------------------
(* Types.                                                                    *)

Ask     == [call : Call, player : Nat]
Waiting == [call : Call, life : Nat, waited : Nat]

\* A message of an event is known by its number, an answer by its question.
Message == [remote : Event, call : {0}, n : Nat, waited : Nat]
           \cup [remote : {Fn}, call : Call, n : {0}, waited : Nat]
Sent    == [kind : {"Fired"}, remote : Event, call : {0}, n : Nat]
           \cup [kind : {"Answer"}, remote : {Fn}, call : Call, n : {0}]
ToRep   == Sent \cup [kind : {"Spawn", "Despawn"}, ids : SUBSET Remote] \cup [kind : {"Gone", "Welcome"}]
ToAuth  == [kind : {"Gone"}] \cup [kind : {"Hello"}, conn : Nat] \cup [kind : {"Question"}, call : Call]

PeerType == [welcomed : BOOLEAN, player : Nat, known : SUBSET Remote, held : Seq(Message)]
RepType  == [conn : Nat, life : Nat, welcomed : BOOLEAN, lost : BOOLEAN, locals : SUBSET Remote,
             inbox : Seq(Sent), outbox : Seq(Waiting), next : Nat \ {0}, waiters : SUBSET Call]

WorldTypes ==
    /\ born \subseteq Remote /\ alive \subseteq born /\ ids \subseteq Remote /\ near \subseteq Remote
    /\ phase \in {"idle", "inbox", "resume"} /\ handled \in BOOLEAN /\ enabled \in BOOLEAN
    /\ inbox \in Seq(Ask) /\ running \in Seq(Ask) /\ ended \subseteq Call
    /\ timers \in Seq(Timer) /\ due \in Seq(Timer)
    /\ outbox \in Seq(Message) /\ fired \in Nat /\ changes \in Nat /\ excused \subseteq Call
WireTypes ==
    /\ peer \in PeerType /\ rep \in RepType /\ \A c \in rep.waiters : c < rep.next
    /\ up \in BOOLEAN /\ toRep \in Seq(ToRep) /\ toAuth \in Seq(ToAuth)
    /\ heard \in Seq([remote : Event, n : Nat])
Types == WorldTypes /\ WireTypes

-----------------------------------------------------------------------------
(* Lists.                                                                    *)

LEMMA ConcatIs ==
    ASSUME NEW A, NEW a \in Seq(A), NEW b \in Seq(A)
    PROVE  /\ a \o b \in Seq(A) /\ Len(a \o b) = Len(a) + Len(b)
           /\ Len(a) \in Nat /\ Len(b) \in Nat
           /\ DOMAIN (a \o b) = 1..(Len(a) + Len(b))
           /\ DOMAIN a = 1..Len(a) /\ DOMAIN b = 1..Len(b)
           /\ \A i \in 1..Len(a) : (a \o b)[i] = a[i]
           /\ \A i \in 1..Len(b) : (a \o b)[Len(a) + i] = b[i]
           /\ \A i \in 1..(Len(a) + Len(b)) :
                  (i \in 1..Len(a)) \/ (i - Len(a) \in 1..Len(b) /\ (a \o b)[i] = b[i - Len(a)])
<1>1. /\ a \o b \in Seq(A) /\ Len(a \o b) = Len(a) + Len(b)
      /\ \A i \in 1..(Len(a) + Len(b)) : (a \o b)[i] = IF i <= Len(a) THEN a[i] ELSE b[i - Len(a)]
  BY ConcatProperties
<1>2. Len(a) \in Nat /\ Len(b) \in Nat /\ DOMAIN a = 1..Len(a) /\ DOMAIN b = 1..Len(b)
  BY LenProperties
<1>3. DOMAIN (a \o b) = 1..(Len(a) + Len(b))
  BY <1>1, LenProperties
<1> DEFINE g == a \o b
<1> HIDE DEF g
<1>4. \A i \in 1..(Len(a) + Len(b)) : g[i] = IF i <= Len(a) THEN a[i] ELSE b[i - Len(a)]
  BY <1>1 DEF g
<1>5. \A i \in 1..Len(a) : g[i] = a[i]
  BY <1>2, <1>4
<1>6. \A i \in 1..Len(b) : g[Len(a) + i] = b[i]
  <2> SUFFICES ASSUME NEW i \in 1..Len(b) PROVE g[Len(a) + i] = b[i]
    OBVIOUS
  <2>1. Len(a) + i \in 1..(Len(a) + Len(b)) /\ ~(Len(a) + i <= Len(a)) /\ (Len(a) + i) - Len(a) = i
    BY <1>2
  <2> QED
    BY <1>4, <2>1
<1>7. \A i \in 1..(Len(a) + Len(b)) :
          (i \in 1..Len(a)) \/ (i - Len(a) \in 1..Len(b) /\ g[i] = b[i - Len(a)])
  BY <1>2, <1>4
<1> QED
  BY <1>1, <1>2, <1>3, <1>5, <1>6, <1>7 DEF g

LEMMA AppendIs ==
    ASSUME NEW A, NEW a \in Seq(A), NEW e \in A
    PROVE  /\ Append(a, e) \in Seq(A) /\ Len(Append(a, e)) = Len(a) + 1 /\ Len(a) \in Nat
           /\ DOMAIN a = 1..Len(a) /\ DOMAIN Append(a, e) = 1..(Len(a) + 1)
           /\ \A i \in 1..Len(a) : Append(a, e)[i] = a[i]
           /\ Append(a, e)[Len(a) + 1] = e
  BY AppendProperties, LenProperties

\* The two ends of a list.
LEMMA CutIs ==
    ASSUME NEW A, NEW s \in Seq(A), NEW k \in 0..Len(s)
    PROVE  LET a == SubSeq(s, 1, k)
               b == SubSeq(s, k + 1, Len(s))
           IN  /\ a \in Seq(A) /\ b \in Seq(A) /\ Len(a) = k /\ Len(b) = Len(s) - k
               /\ DOMAIN a = 1..k /\ DOMAIN b = 1..(Len(s) - k) /\ Len(s) \in Nat
               /\ \A i \in 1..k : a[i] = s[i]
               /\ \A i \in 1..(Len(s) - k) : b[i] = s[k + i]
<1>1. Len(s) \in Nat /\ k \in Nat /\ k <= Len(s) /\ \A i \in 1..Len(s) : s[i] \in A
  OBVIOUS
<1> DEFINE a == SubSeq(s, 1, k)
           b == SubSeq(s, k + 1, Len(s))
<1>2. a \in Seq(A) /\ Len(a) = k /\ \A i \in 1..k : a[i] = s[i]
  BY <1>1
<1>3. b \in Seq(A) /\ Len(b) = Len(s) - k /\ \A i \in 1..(Len(s) - k) : b[i] = s[k + i]
  <2>1. \A i \in (k + 1)..Len(s) : s[i] \in A
    BY <1>1
  <2> QED
    BY <1>1, <2>1
<1> HIDE DEF a, b
<1>4. DOMAIN a = 1..k /\ DOMAIN b = 1..(Len(s) - k)
  BY <1>2, <1>3, LenProperties
<1> QED
  BY <1>1, <1>2, <1>3, <1>4 DEF a, b

LEMMA TailIs ==
    ASSUME NEW A, NEW s \in Seq(A), s # <<>>
    PROVE  /\ Head(s) \in A /\ Tail(s) \in Seq(A) /\ Len(s) \in Nat \ {0} /\ Head(s) = s[1]
           /\ Len(Tail(s)) = Len(s) - 1 /\ DOMAIN s = 1..Len(s) /\ DOMAIN Tail(s) = 1..(Len(s) - 1)
           /\ \A i \in 1..(Len(s) - 1) : Tail(s)[i] = s[i + 1]
<1>1. Len(s) \in Nat \ {0} /\ DOMAIN s = 1..Len(s)
  BY EmptySeq, LenProperties
<1>2. /\ Head(s) \in A /\ Tail(s) \in Seq(A) /\ Len(Tail(s)) = Len(s) - 1
      /\ \A i \in 1..Len(Tail(s)) : Tail(s)[i] = s[i + 1]
  BY HeadTailProperties
<1>3. DOMAIN Tail(s) = 1..(Len(s) - 1)
  BY <1>2, LenProperties
<1>4. Head(s) = s[1]
  OBVIOUS
<1> QED
  BY <1>1, <1>2, <1>3, <1>4

LEMMA CallsAre ==
    \E n \in Nat : Call = 1..n /\ 0 \notin Call /\ Call \subseteq Nat
<1> DEFINE n == Cardinality(Call)
<1>1. n \in Nat
  BY RemoteAssumption, FS_CardinalityType
<1>2. Call = 1..n
  BY RemoteAssumption
<1> HIDE DEF n
<1>3. 0 \notin Call /\ Call \subseteq Nat
  BY <1>1, <1>2
<1> QED
  BY <1>1, <1>2, <1>3

LEMMA SublistIn ==
    ASSUME NEW A, NEW s \in Seq(A), NEW I \in SUBSET DOMAIN s
    PROVE  /\ Sublist(s, I) \in Seq(A) /\ Len(Sublist(s, I)) \in Nat
           /\ Len(Sublist(s, I)) = Cardinality(I) /\ DOMAIN Sublist(s, I) = 1..Cardinality(I)
<1>1. I \in SUBSET (1..Len(s))
  OBVIOUS
<1>2. Sublist(s, I) \in Seq(A) /\ Len(Sublist(s, I)) = Cardinality(I) /\ Cardinality(I) \in Nat
  BY <1>1, SublistIsExact
<1>3. DOMAIN Sublist(s, I) = 1..Len(Sublist(s, I))
  BY <1>2, LenProperties
<1> QED
  BY <1>2, <1>3

\* Every place of a sublist comes from a place of the list, later ones from later
\* ones, and every place asked for is there.
LEMMA SublistFrom ==
    ASSUME NEW A, NEW s \in Seq(A), NEW I \in SUBSET DOMAIN s
    PROVE  /\ \A n \in DOMAIN Sublist(s, I) : Place(I, n) \in I /\ Sublist(s, I)[n] = s[Place(I, n)]
           /\ \A n, k \in DOMAIN Sublist(s, I) : n < k => Place(I, n) < Place(I, k)
           /\ \A i \in I : \E n \in DOMAIN Sublist(s, I) : Place(I, n) = i
<1>1. I \in SUBSET (1..Len(s))
  OBVIOUS
<1>2. DOMAIN Sublist(s, I) = 1..Cardinality(I)
  BY SublistIn
<1>3. /\ \A n \in 1..Cardinality(I) : Place(I, n) \in I /\ Sublist(s, I)[n] = s[Place(I, n)]
      /\ \A n, k \in 1..Cardinality(I) : n < k => Place(I, n) < Place(I, k)
      /\ \A i \in I : \E n \in 1..Cardinality(I) : Place(I, n) = i
  BY <1>1, SublistIsExact
<1> QED
  BY <1>2, <1>3

LEMMA PlaceIsInt ==
    ASSUME NEW A, NEW s \in Seq(A), NEW I \in SUBSET DOMAIN s, NEW n \in DOMAIN Sublist(s, I)
    PROVE  Place(I, n) \in 1..Len(s)
<1>1. Place(I, n) \in I
  BY SublistFrom
<1> QED
  BY <1>1

LEMMA WiredIs ==
    ASSUME NEW s \in Seq(Message)
    PROVE  /\ Wired(s) \in Seq(Sent) /\ DOMAIN Wired(s) = DOMAIN s
           /\ \A i \in DOMAIN s : /\ Wired(s)[i].kind = IF s[i].call = 0 THEN "Fired" ELSE "Answer"
                                  /\ Wired(s)[i].remote = s[i].remote
                                  /\ Wired(s)[i].call = s[i].call /\ Wired(s)[i].n = s[i].n
<1>1. 0 \notin Call
  BY CallsAre
<1>2. ASSUME NEW i \in DOMAIN s PROVE OnWire(s[i]) \in Sent
  <2>1. s[i] \in Message
    OBVIOUS
  <2> QED
    BY <1>1, <2>1 DEF OnWire, Message, Sent
<1>3. Wired(s) = [i \in DOMAIN s |-> OnWire(s[i])]
  BY DEF Wired
<1>4. Wired(s) \in Seq(Sent) /\ DOMAIN Wired(s) = DOMAIN s
  BY <1>2, <1>3
<1>5. \A i \in DOMAIN s : Wired(s)[i] = OnWire(s[i])
  BY <1>3
<1> QED
  BY <1>4, <1>5 DEF OnWire

\* The answers are of what is answered, to those who are here.
Answering(done) == {i \in DOMAIN done : Here(done[i].player)}
LEMMA AnswersIs ==
    ASSUME NEW done \in Seq(Ask)
    PROVE  /\ Answers(done) \in Seq(Message) /\ Len(Answers(done)) \in Nat
           /\ DOMAIN Answers(done) = 1..Len(Answers(done))
           /\ DOMAIN Answers(done) = DOMAIN Sublist(done, Answering(done))
           /\ \A n \in DOMAIN Answers(done) :
                  /\ Answers(done)[n].call = Sublist(done, Answering(done))[n].call
                  /\ Answers(done)[n].call \in Call /\ Answers(done)[n].remote = Fn
<1> DEFINE to == Sublist(done, Answering(done))
<1>1. to \in Seq(Ask)
  BY SublistIn DEF Answering
<1>2. Answers(done) = [n \in DOMAIN to |-> [remote |-> Fn, call |-> to[n].call, n |-> 0, waited |-> 0]]
  BY DEF Answers, Answering
<1> HIDE DEF to
<1>3. \A n \in DOMAIN to : to[n].call \in Call
  <2>1. \A n \in DOMAIN to : to[n] \in Ask
    BY <1>1
  <2> QED
    BY <2>1 DEF Ask
<1>4. \A n \in DOMAIN to : [remote |-> Fn, call |-> to[n].call, n |-> 0, waited |-> 0] \in Message
  BY <1>3 DEF Message
<1>5. Answers(done) \in Seq(Message) /\ DOMAIN Answers(done) = DOMAIN to
  BY <1>1, <1>2, <1>4
<1>6. \A n \in DOMAIN to : Answers(done)[n] = [remote |-> Fn, call |-> to[n].call, n |-> 0, waited |-> 0]
  BY <1>2
<1>7. Len(Answers(done)) \in Nat /\ DOMAIN Answers(done) = 1..Len(Answers(done))
  BY <1>5, LenProperties
<1> QED
  BY <1>3, <1>5, <1>6, <1>7 DEF to

-----------------------------------------------------------------------------
(* The timers.                                                               *)

\* A timer in the list is as far from its tick as it still has to wait, and the
\* list is in the order of the ticks, and of age among those of one tick.
Timed(s)   == \A i \in DOMAIN s : s[i].left + s[i].since = s[i].asked
Sorted(s)  == \A i, j \in DOMAIN s : i < j =>
                  s[i].left < s[j].left \/ (s[i].left = s[j].left /\ s[i].since >= s[j].since)
NotBefore(s, first) == \A i \in DOMAIN s : s[i].left >= first

LEMMA TimerIs ==
    ASSUME NEW s \in Seq(Timer)
    PROVE  /\ Len(s) \in Nat /\ DOMAIN s = 1..Len(s)
           /\ \A i \in DOMAIN s : /\ s[i] \in Timer /\ s[i].thread \in Thread /\ s[i].left \in Int
                                  /\ s[i].since \in Nat /\ s[i].asked \in Nat
<1>1. Len(s) \in Nat /\ DOMAIN s = 1..Len(s) /\ \A i \in DOMAIN s : s[i] \in Timer
  BY LenProperties
<1> QED
  BY <1>1 DEF Timer

\* A new timer goes behind those that are due no later, and stands in front of
\* those that are due later.
LEMMA InsertTimerIs ==
    ASSUME NEW s \in Seq(Timer), Timed(s), Sorted(s), NEW thread \in Thread, NEW wait \in Nat
    PROVE  LET t == InsertTimer(s, thread, wait)
           IN  /\ t \in Seq(Timer) /\ Timed(t) /\ Sorted(t)
               /\ \A first \in 0..1 : NotBefore(s, first) => NotBefore(t, first)
               /\ Threads(t) = Threads(s) \cup {thread}
<1> DEFINE e == [thread |-> thread, left |-> TicksFor(wait), since |-> 0, asked |-> TicksFor(wait)]
           I == {i \in DOMAIN s : s[i].left <= e.left}
           h == Leading(s, I)
           a == After(s, h)
           t == Append(h, e) \o a
<1>1. InsertTimer(s, thread, wait) = t
  BY DEF InsertTimer
<1>2. e \in Timer /\ e.left > 0 /\ e.left + e.since = e.asked /\ e.since = 0 /\ e.thread = thread
  <2>1. TicksFor(wait) \in Nat /\ TicksFor(wait) > 0
    BY DEF TicksFor
  <2> QED
    BY <2>1 DEF Timer
<1> HIDE DEF e
<1>3. /\ h \in Seq(Timer) /\ a \in Seq(Timer) /\ Len(h) \in 0..Len(s) /\ Len(a) = Len(s) - Len(h)
      /\ \A i \in 1..Len(h) : h[i] = s[i] /\ i \in I
      /\ Len(h) < Len(s) => Len(h) + 1 \notin I
      /\ \A i \in 1..Len(a) : a[i] = s[Len(h) + i]
  <2> HIDE DEF I
  <2> QED BY LeadingIs
<1> HIDE DEF h, a
<1>4. /\ t \in Seq(Timer) /\ Len(t) = Len(s) + 1 /\ Len(h) \in Nat
      /\ \A i \in 1..Len(t) : t[i] = IF i <= Len(h) THEN s[i] ELSE IF i = Len(h) + 1 THEN e ELSE s[i - 1]
  <2> DEFINE g == Append(h, e)
  <2>1. /\ g \in Seq(Timer) /\ Len(g) = Len(h) + 1 /\ \A i \in 1..Len(h) : g[i] = h[i]
        /\ g[Len(h) + 1] = e
    BY <1>2, <1>3, AppendIs
  <2> HIDE DEF g
  <2>2. g \in Seq(Timer) /\ a \in Seq(Timer)
    BY <1>3, <2>1
  <2> DEFINE u == g \o a
  <2>3. /\ u \in Seq(Timer) /\ Len(u) = Len(g) + Len(a)
        /\ \A i \in 1..Len(g) : u[i] = g[i]
        /\ \A i \in 1..Len(a) : u[Len(g) + i] = a[i]
    BY <2>2, ConcatIs
  <2> HIDE DEF u
  <2>4. Len(s) \in Nat /\ Len(h) \in Nat /\ Len(h) <= Len(s)
    BY <1>3
  <2>5. ASSUME NEW i \in 1..(Len(s) + 1)
        PROVE  u[i] = IF i <= Len(h) THEN s[i] ELSE IF i = Len(h) + 1 THEN e ELSE s[i - 1]
    <3>1. CASE i <= Len(h)
      <4>1. i \in 1..Len(h) /\ i \in 1..Len(g)
        BY <2>1, <2>4, <3>1
      <4> QED
        BY <1>3, <2>1, <2>3, <3>1, <4>1
    <3>2. CASE i = Len(h) + 1
      <4>1. i \in 1..Len(g) /\ ~(i <= Len(h))
        BY <2>1, <2>4, <3>2
      <4> QED
        BY <2>1, <2>3, <3>2, <4>1
    <3>3. CASE i > Len(h) + 1
      <4> DEFINE j == i - (Len(h) + 1)
      <4>1. j \in 1..Len(a) /\ i = Len(g) + j /\ i - 1 = Len(h) + j /\ ~(i <= Len(h)) /\ i # Len(h) + 1
        BY <1>3, <2>1, <2>4, <3>3
      <4> HIDE DEF j
      <4>2. u[Len(g) + j] = a[j] /\ a[j] = s[Len(h) + j]
        BY <1>3, <2>3, <4>1
      <4> QED
        BY <4>1, <4>2
    <3> QED
      BY <2>4, <3>1, <3>2, <3>3
  <2>6. Len(u) = Len(s) + 1
    BY <1>3, <2>1, <2>3, <2>4
  <2>7. t = u
    BY DEF u, g
  <2> HIDE DEF t
  <2> QED
    BY <2>3, <2>4, <2>5, <2>6, <2>7
<1> HIDE DEF t
<1>5. /\ Len(s) \in Nat /\ DOMAIN s = 1..Len(s) /\ DOMAIN t = 1..(Len(s) + 1) /\ Len(h) <= Len(s)
      /\ \A i \in DOMAIN s : s[i].left \in Int /\ s[i].since \in Nat
      /\ e.left \in Int
  <2>1. DOMAIN t = 1..Len(t)
    BY <1>4, LenProperties
  <2>2. e.left \in Int
    BY <1>2 DEF Timer
  <2>3. Len(h) <= Len(s)
    BY <1>3
  <2> QED
    BY <1>4, <2>1, <2>2, <2>3, TimerIs
<1>11. \A i \in DOMAIN t :
           /\ (i <= Len(h)) => i \in DOMAIN s /\ t[i] = s[i]
           /\ (i = Len(h) + 1) => t[i] = e
           /\ (i > Len(h) + 1) => i - 1 \in DOMAIN s /\ t[i] = s[i - 1]
  <2> SUFFICES ASSUME NEW i \in 1..(Len(s) + 1)
               PROVE  /\ (i <= Len(h)) => i \in DOMAIN s /\ t[i] = s[i]
                      /\ (i = Len(h) + 1) => t[i] = e
                      /\ (i > Len(h) + 1) => i - 1 \in DOMAIN s /\ t[i] = s[i - 1]
    BY <1>5
  <2>1. t[i] = IF i <= Len(h) THEN s[i] ELSE IF i = Len(h) + 1 THEN e ELSE s[i - 1]
    BY <1>4
  <2> QED
    BY <1>4, <1>5, <2>1
<1>12. \A i \in DOMAIN t : i <= Len(h) \/ i = Len(h) + 1 \/ i > Len(h) + 1
  BY <1>5
<1>6. ASSUME NEW i \in DOMAIN s PROVE i <= Len(h) <=> s[i].left <= e.left
  <2>1. i <= Len(h) => s[i].left <= e.left
    BY <1>3, <1>5
  <2>2. ASSUME i > Len(h) PROVE s[i].left > e.left
    <3>1. Len(h) + 1 \in DOMAIN s /\ s[Len(h) + 1].left > e.left
      BY <1>3, <1>4, <1>5, <2>2
    <3>2. ASSUME Len(h) + 1 # i PROVE s[Len(h) + 1].left <= s[i].left
      <4>1. Len(h) + 1 < i
        BY <1>4, <1>5, <2>2, <3>2
      <4>2. s[Len(h) + 1].left < s[i].left \/ s[Len(h) + 1].left = s[i].left
        BY <3>1, <4>1 DEF Sorted
      <4> QED
        BY <1>5, <3>1, <4>2
    <3> QED
      BY <1>5, <3>1, <3>2
  <2> QED
    BY <1>4, <1>5, <2>1, <2>2
<1>7. Timed(t) /\ \A first \in 0..1 : NotBefore(s, first) => NotBefore(t, first)
  <2>1. \A i \in DOMAIN t : t[i] = e \/ (\E j \in DOMAIN s : t[i] = s[j])
    BY <1>11, <1>12
  <2>2. e.left \in Int /\ e.left > 0 /\ e.left + e.since = e.asked
    BY <1>2 DEF Timer
  <2>3. Timed(t)
    BY <2>1, <2>2 DEF Timed
  <2>4. \A first \in 0..1 : NotBefore(s, first) => NotBefore(t, first)
    BY <2>1, <2>2 DEF NotBefore
  <2> QED
    BY <2>3, <2>4
<1>8. Sorted(t)
  <2> SUFFICES ASSUME NEW i \in DOMAIN t, NEW j \in DOMAIN t, i < j
               PROVE  t[i].left < t[j].left \/ (t[i].left = t[j].left /\ t[i].since >= t[j].since)
    BY DEF Sorted
  <2>1. CASE i # Len(h) + 1 /\ j # Len(h) + 1
    <3> DEFINE at(x) == IF x <= Len(h) THEN x ELSE x - 1
    <3>1. at(i) \in DOMAIN s /\ at(j) \in DOMAIN s /\ t[i] = s[at(i)] /\ t[j] = s[at(j)] /\ at(i) < at(j)
      BY <1>4, <1>5, <1>11, <2>1
    <3> QED
      BY <3>1 DEF Sorted
  <2>2. CASE i = Len(h) + 1
    <3>1. t[i] = e /\ j - 1 \in DOMAIN s /\ t[j] = s[j - 1] /\ ~(j - 1 <= Len(h))
      BY <1>4, <1>5, <2>2
    <3> QED
      BY <1>5, <1>6, <3>1
  <2>3. CASE j = Len(h) + 1
    <3>1. t[j] = e /\ i \in DOMAIN s /\ t[i] = s[i] /\ i <= Len(h)
      BY <1>4, <1>5, <2>3
    <3> QED
      BY <1>2, <1>5, <1>6, <3>1
  <2> QED
    BY <2>1, <2>2, <2>3
<1>9. Threads(t) = Threads(s) \cup {thread}
  <2>1. ASSUME NEW i \in DOMAIN t PROVE t[i].thread \in Threads(s) \cup {thread}
    <3>1. t[i] = e \/ (\E j \in DOMAIN s : t[i] = s[j])
      BY <1>11, <1>12
    <3> QED
      BY <1>2, <3>1 DEF Threads
  <2>2. ASSUME NEW i \in DOMAIN s PROVE \E j \in DOMAIN t : t[j] = s[i]
    <3>1. CASE i <= Len(h)
      BY <1>4, <1>5, <3>1
    <3>2. CASE i > Len(h)
      <4>1. i + 1 \in DOMAIN t /\ t[i + 1] = s[i]
        BY <1>4, <1>5, <3>2
      <4> QED
        BY <4>1
    <3> QED
      BY <1>4, <1>5, <3>1, <3>2
  <2>3. Len(h) + 1 \in DOMAIN t /\ t[Len(h) + 1] = e
    BY <1>3, <1>4, <1>5
  <2>4. \A r \in Threads(s) : r \in Threads(t)
    BY <2>2 DEF Threads
  <2>5. thread \in Threads(t)
    BY <1>2, <2>3 DEF Threads
  <2>6. \A r \in Threads(t) : r \in Threads(s) \cup {thread}
    BY <2>1 DEF Threads
  <2> QED
    BY <2>4, <2>5, <2>6
<1> QED
  BY <1>1, <1>4, <1>7, <1>8, <1>9

LEMMA AgedOne ==
    ASSUME NEW t \in Timer
    PROVE  LET a == [t EXCEPT !.left = @ - 1, !.since = @ + 1]
           IN  /\ a \in Timer /\ a.left = t.left - 1 /\ a.since = t.since + 1
               /\ a.asked = t.asked /\ a.thread = t.thread
<1> DEFINE b == [t EXCEPT !.left = @ - 1]
           a == [b EXCEPT !.since = @ + 1]
<1>1. b \in Timer /\ b.left = t.left - 1 /\ b.since = t.since /\ b.asked = t.asked /\ b.thread = t.thread
  BY DEF Timer
<1> HIDE DEF b
<1>2. a \in Timer /\ a.left = b.left /\ a.since = b.since + 1 /\ a.asked = b.asked /\ a.thread = b.thread
  BY <1>1 DEF Timer
<1>3. a = [t EXCEPT !.left = @ - 1, !.since = @ + 1]
  BY DEF b
<1> HIDE DEF a
<1> QED
  BY <1>1, <1>2, <1>3

\* When the tick is counted up, every timer is one nearer to its tick, and the list
\* stands as it stood.
LEMMA AgedIs ==
    ASSUME NEW s \in Seq(Timer)
    PROVE  LET g == Aged(s)
           IN  /\ g \in Seq(Timer) /\ Threads(g) = Threads(s)
               /\ Timed(s) => Timed(g)
               /\ Sorted(s) => Sorted(g)
               /\ NotBefore(s, 1) => NotBefore(g, 0)
<1> DEFINE g == Aged(s)
<1>1. /\ Len(s) \in Nat /\ DOMAIN s = 1..Len(s)
      /\ \A i \in DOMAIN s : s[i] \in Timer /\ s[i].left \in Int /\ s[i].since \in Nat /\ s[i].asked \in Nat
  BY TimerIs
<1>2. /\ DOMAIN g = DOMAIN s
      /\ \A i \in DOMAIN s : /\ g[i].left = s[i].left - 1 /\ g[i].since = s[i].since + 1
                             /\ g[i].asked = s[i].asked /\ g[i].thread = s[i].thread /\ g[i] \in Timer
  <2>1. DOMAIN g = DOMAIN s /\ \A i \in DOMAIN s : g[i] = [s[i] EXCEPT !.left = @ - 1, !.since = @ + 1]
    BY DEF Aged
  <2> HIDE DEF g
  <2>2. ASSUME NEW i \in DOMAIN s
        PROVE  /\ g[i].left = s[i].left - 1 /\ g[i].since = s[i].since + 1
               /\ g[i].asked = s[i].asked /\ g[i].thread = s[i].thread /\ g[i] \in Timer
    BY <1>1, <2>1, AgedOne
  <2> QED
    BY <2>1, <2>2
<1>3. g \in Seq(Timer)
  <2>1. g = [i \in 1..Len(s) |-> g[i]]
    BY <1>1 DEF Aged
  <2>2. \A i \in 1..Len(s) : g[i] \in Timer
    BY <1>1, <1>2
  <2> HIDE DEF g
  <2>3. [i \in 1..Len(s) |-> g[i]] \in Seq(Timer)
    BY <1>1, <2>2
  <2> QED
    BY <2>1, <2>3
<1> HIDE DEF g
<1>4. ASSUME Timed(s) PROVE Timed(g)
  BY <1>1, <1>2, <1>4 DEF Timed
<1>5. ASSUME Sorted(s) PROVE Sorted(g)
  <2> SUFFICES ASSUME NEW i \in DOMAIN s, NEW j \in DOMAIN s, i < j
               PROVE  g[i].left < g[j].left \/ (g[i].left = g[j].left /\ g[i].since >= g[j].since)
    BY <1>2 DEF Sorted
  <2>1. s[i].left < s[j].left \/ (s[i].left = s[j].left /\ s[i].since >= s[j].since)
    BY <1>5 DEF Sorted
  <2> QED
    BY <1>1, <1>2, <2>1
<1>6. ASSUME NotBefore(s, 1) PROVE NotBefore(g, 0)
  BY <1>1, <1>2, <1>6 DEF NotBefore
<1>7. Threads(g) = Threads(s)
  BY <1>2 DEF Threads
<1> QED
  BY <1>3, <1>4, <1>5, <1>6, <1>7 DEF g

\* What is due is exactly what has no tick left: the head of the list.
LEMMA DueIs ==
    ASSUME NEW g \in Seq(Timer), Timed(g), Sorted(g), NotBefore(g, 0)
    PROVE  LET d == Due(g)
               r == NotDue(g)
           IN  /\ d \in Seq(Timer) /\ r \in Seq(Timer) /\ Timed(r) /\ Sorted(r) /\ NotBefore(r, 1)
               /\ \A i \in DOMAIN d : d[i].since = d[i].asked
               /\ \A i, j \in DOMAIN d : i < j => d[i].since >= d[j].since
               /\ Threads(g) = Threads(d) \cup Threads(r)
<1> DEFINE I == {i \in DOMAIN g : g[i].left <= 0}
           d == Due(g)
           r == NotDue(g)
<1>4. /\ Timed(g) /\ Sorted(g)
      /\ \A i \in DOMAIN g : /\ g[i].left >= 0 /\ g[i].left \in Int /\ g[i].since \in Nat /\ g[i].asked \in Nat
  BY TimerIs DEF NotBefore
<1>5. /\ d \in Seq(Timer) /\ r \in Seq(Timer) /\ Len(d) \in 0..Len(g) /\ Len(r) = Len(g) - Len(d)
      /\ \A i \in 1..Len(d) : d[i] = g[i] /\ i \in I
      /\ Len(d) < Len(g) => Len(d) + 1 \notin I
      /\ \A i \in 1..Len(r) : r[i] = g[Len(d) + i]
  <2>1. d = Leading(g, I) /\ r = After(g, Leading(g, I))
    BY DEF Due, NotDue
  <2> HIDE DEF I, d, r
  <2>2. LET h == Leading(g, I)
            t == After(g, h)
        IN  /\ h \in Seq(Timer) /\ t \in Seq(Timer) /\ Len(h) \in 0..Len(g) /\ Len(t) = Len(g) - Len(h)
            /\ \A i \in 1..Len(h) : h[i] = g[i] /\ i \in I
            /\ Len(h) < Len(g) => Len(h) + 1 \notin I
            /\ \A i \in 1..Len(t) : t[i] = g[Len(h) + i]
    BY LeadingIs
  <2> QED
    BY <2>1, <2>2
<1> HIDE DEF d, r
<1>6. /\ DOMAIN g = 1..Len(g) /\ Len(g) \in Nat /\ DOMAIN d = 1..Len(d) /\ DOMAIN r = 1..Len(r)
      /\ Len(d) \in Nat /\ Len(r) \in Nat
  BY <1>5, LenProperties
<1>7. ASSUME NEW i \in DOMAIN d PROVE i \in DOMAIN g /\ d[i] = g[i] /\ g[i].left = 0
  <2>1. i \in DOMAIN g /\ d[i] = g[i] /\ g[i].left <= 0
    BY <1>5, <1>6
  <2> QED
    BY <1>4, <2>1
<1>8. ASSUME NEW i \in DOMAIN r PROVE Len(d) + i \in DOMAIN g /\ r[i] = g[Len(d) + i] /\ g[Len(d) + i].left > 0
  <2>1. Len(d) + i \in DOMAIN g /\ r[i] = g[Len(d) + i] /\ Len(d) + 1 \in DOMAIN g
    BY <1>5, <1>6
  <2>2. g[Len(d) + 1].left > 0
    <3>1. Len(d) + 1 \notin I /\ g[Len(d) + 1].left \in Int
      BY <1>4, <1>5, <1>6, <2>1
    <3> QED
      BY <2>1, <3>1 DEF I
  <2>3. i = 1 \/ g[Len(d) + 1].left <= g[Len(d) + i].left
    <3>1. i = 1 \/ Len(d) + 1 < Len(d) + i
      BY <1>6
    <3>2. \A m, n \in DOMAIN g : m < n => g[m].left < g[n].left \/ g[m].left = g[n].left
      BY <1>4 DEF Sorted
    <3>3. g[Len(d) + 1].left \in Int /\ g[Len(d) + i].left \in Int
      BY <1>4, <2>1
    <3> QED
      BY <2>1, <3>1, <3>2, <3>3
  <2> QED
    BY <1>4, <2>1, <2>2, <2>3
<1>9. \A i \in DOMAIN d : d[i].since = d[i].asked
  <2>1. \A i \in DOMAIN g : g[i].left = 0 => g[i].since = g[i].asked
    BY <1>4 DEF Timed
  <2> QED
    BY <1>7, <2>1
<1>10. \A i, j \in DOMAIN d : i < j => d[i].since >= d[j].since
  BY <1>4, <1>7 DEF Sorted
<1>11. Timed(r) /\ NotBefore(r, 1)
  BY <1>4, <1>8 DEF Timed, NotBefore
<1>12. Sorted(r)
  BY <1>4, <1>6, <1>8 DEF Sorted
<1>13. Threads(g) = Threads(d) \cup Threads(r)
  <2>1. \A i \in DOMAIN d : \E j \in DOMAIN g : d[i].thread = g[j].thread
    BY <1>7
  <2>2. \A i \in DOMAIN r : \E j \in DOMAIN g : r[i].thread = g[j].thread
    BY <1>8
  <2>3. ASSUME NEW j \in DOMAIN g
        PROVE  (\E i \in DOMAIN d : d[i].thread = g[j].thread) \/ (\E i \in DOMAIN r : r[i].thread = g[j].thread)
    <3>1. j \in 1..Len(g)
      BY <1>6
    <3>2. CASE j <= Len(d)
      BY <1>5, <1>6, <3>1, <3>2
    <3>3. CASE j > Len(d)
      <4>1. j - Len(d) \in DOMAIN r /\ r[j - Len(d)] = g[j]
        BY <1>5, <1>6, <3>1, <3>3
      <4> QED
        BY <3>1, <4>1
    <3> QED
      BY <1>6, <3>1, <3>2, <3>3
  <2> QED
    BY <2>1, <2>2, <2>3 DEF Threads
<1> QED
  BY <1>5, <1>9, <1>10, <1>11, <1>12, <1>13 DEF d, r

\* Cancelling takes one timer out, and the thread's only.
LEMMA CancelledIs ==
    ASSUME NEW s \in Seq(Timer), Timed(s), Sorted(s), NEW thread \in Threads(s)
    PROVE  LET t == Cancelled(s, thread)
           IN  /\ t \in Seq(Timer) /\ Timed(t) /\ Sorted(t)
               /\ \A first \in 0..1 : NotBefore(s, first) => NotBefore(t, first)
               /\ Threads(t) \subseteq Threads(s) /\ Threads(s) \subseteq Threads(t) \cup {thread}
<1> DEFINE First(i) == s[i].thread = thread /\ \A j \in 1..(i - 1) : s[j].thread # thread
           k == CHOOSE i \in DOMAIN s : First(i)
           t == RemoveAt(s, k)
<1>1. /\ Len(s) \in Nat /\ DOMAIN s = 1..Len(s)
      /\ \A i \in DOMAIN s : s[i] \in Timer /\ s[i].left \in Int /\ s[i].since \in Nat
  BY TimerIs
<1>2. k \in DOMAIN s /\ s[k].thread = thread
  <2> DEFINE J == {i \in DOMAIN s : s[i].thread = thread}
  <2>1. J \in SUBSET Int /\ J # {} /\ J \in SUBSET (1..Len(s))
    BY <1>1 DEF Threads
  <2>2. IsFiniteSet(J)
    <3>1. IsFiniteSet(1..Len(s))
      BY <1>1, FS_Interval
    <3> HIDE DEF J
    <3> QED BY <2>1, <3>1, FS_Subset
  <2>3. PICK f \in J : \A j \in J : f <= j
    <3> HIDE DEF J
    <3> QED BY <2>1, <2>2, FirstPlace
  <2>4. First(f)
    BY <1>1, <2>1, <2>3
  <2>5. \E i \in DOMAIN s : First(i)
    BY <2>3, <2>4
  <2>6. k \in DOMAIN s /\ First(k)
    BY <2>5
  <2> QED
    BY <2>6
<1>3. Cancelled(s, thread) = t
  BY DEF Cancelled
<1> HIDE DEF k
<1>4. /\ t \in Seq(Timer) /\ Len(t) = Len(s) - 1 /\ k \in 1..Len(s)
      /\ \A i \in 1..Len(t) : t[i] = IF i < k THEN s[i] ELSE s[i + 1]
  <2> DEFINE a == SubSeq(s, 1, k - 1)
             b == SubSeq(s, k + 1, Len(s))
  <2>1. k \in 1..Len(s) /\ k \in 0..Len(s) /\ k - 1 \in 0..Len(s)
    BY <1>1, <1>2
  <2>2. a \in Seq(Timer) /\ Len(a) = k - 1 /\ \A i \in 1..(k - 1) : a[i] = s[i]
    BY <2>1, CutIs
  <2>3. b \in Seq(Timer) /\ Len(b) = Len(s) - k /\ \A i \in 1..(Len(s) - k) : b[i] = s[k + i]
    BY <2>1, CutIs
  <2>4. t = a \o b
    BY DEF RemoveAt
  <2> HIDE DEF a, b, t
  <2>5. /\ t \in Seq(Timer) /\ Len(t) = Len(a) + Len(b)
        /\ \A i \in 1..Len(a) : t[i] = a[i]
        /\ \A i \in 1..Len(b) : t[Len(a) + i] = b[i]
    <3>1. a \in Seq(Timer) /\ b \in Seq(Timer)
      BY <2>2, <2>3
    <3> QED
      BY <2>4, <3>1, ConcatIs
  <2>6. ASSUME NEW i \in 1..(Len(s) - 1) PROVE t[i] = IF i < k THEN s[i] ELSE s[i + 1]
    <3>1. CASE i < k
      <4>1. i \in 1..(k - 1) /\ i \in 1..Len(a)
        BY <1>1, <2>1, <2>2, <3>1
      <4> QED
        BY <2>2, <2>5, <3>1, <4>1
    <3>2. CASE i >= k
      <4> DEFINE j == i - (k - 1)
      <4>1. j \in 1..(Len(s) - k) /\ j \in 1..Len(b) /\ i = Len(a) + j /\ k + j = i + 1 /\ ~(i < k)
        BY <1>1, <2>1, <2>2, <2>3, <3>2
      <4> HIDE DEF j
      <4>2. t[Len(a) + j] = b[j] /\ b[j] = s[k + j]
        BY <2>3, <2>5, <4>1
      <4> QED
        BY <4>1, <4>2
    <3> QED
      BY <1>1, <2>1, <3>1, <3>2
  <2>7. Len(t) = Len(s) - 1
    BY <1>1, <2>1, <2>2, <2>3, <2>5
  <2> QED
    BY <2>1, <2>5, <2>6, <2>7
<1> HIDE DEF t
<1>5. DOMAIN t = 1..(Len(s) - 1)
  BY <1>1, <1>4, LenProperties
<1>6. /\ \A i \in DOMAIN t : \E j \in DOMAIN s : t[i] = s[j]
      /\ \A i, l \in DOMAIN t : i < l => \E j, m \in DOMAIN s : j < m /\ t[i] = s[j] /\ t[l] = s[m]
      /\ \A j \in DOMAIN s : j # k => \E i \in DOMAIN t : t[i] = s[j]
  <2>1. ASSUME NEW i \in DOMAIN t PROVE \E j \in DOMAIN s : t[i] = s[j]
    <3>1. i \in DOMAIN s /\ i + 1 \in DOMAIN s
      BY <1>1, <1>5
    <3> QED
      BY <1>4, <1>5, <1>1, <3>1
  <2>2. ASSUME NEW i \in DOMAIN t, NEW l \in DOMAIN t, i < l
        PROVE  \E j, m \in DOMAIN s : j < m /\ t[i] = s[j] /\ t[l] = s[m]
    <3> DEFINE at(x) == IF x < k THEN x ELSE x + 1
    <3>1. at(i) \in DOMAIN s /\ at(l) \in DOMAIN s /\ at(i) < at(l)
      BY <1>1, <1>4, <1>5, <2>2
    <3>2. t[i] = s[at(i)] /\ t[l] = s[at(l)]
      BY <1>1, <1>4, <1>5
    <3> QED
      BY <3>1, <3>2
  <2>3. ASSUME NEW j \in DOMAIN s, j # k PROVE \E i \in DOMAIN t : t[i] = s[j]
    <3> DEFINE i == IF j < k THEN j ELSE j - 1
    <3>1. i \in DOMAIN t /\ t[i] = s[j]
      BY <1>1, <1>4, <1>5, <2>3
    <3> QED
      BY <3>1
  <2> QED
    BY <2>1, <2>2, <2>3
<1>7. Timed(t) /\ \A first \in 0..1 : NotBefore(s, first) => NotBefore(t, first)
  BY <1>6 DEF Timed, NotBefore
<1>8. Sorted(t)
  <2> SUFFICES ASSUME NEW i \in DOMAIN t, NEW l \in DOMAIN t, i < l
               PROVE  t[i].left < t[l].left \/ (t[i].left = t[l].left /\ t[i].since >= t[l].since)
    BY DEF Sorted
  <2>1. PICK j \in DOMAIN s, m \in DOMAIN s : j < m /\ t[i] = s[j] /\ t[l] = s[m]
    BY <1>6
  <2> QED
    BY <2>1 DEF Sorted
<1>9. Threads(t) \subseteq Threads(s)
  BY <1>6 DEF Threads
<1>10. Threads(s) \subseteq Threads(t) \cup {thread}
  BY <1>2, <1>6 DEF Threads
<1> QED
  BY <1>3, <1>4, <1>7, <1>8, <1>9, <1>10

-----------------------------------------------------------------------------
(* What is sent.                                                             *)

LEMMA MessageIs ==
    ASSUME NEW m \in Message
    PROVE  /\ m.remote \in Remote /\ m.call \in Call \cup {0} /\ m.n \in Nat /\ m.waited \in Nat
           /\ m.call = 0 <=> m.remote \in Event
           /\ m.call # 0 => m.remote = Fn /\ m.call \in Call
<1>1. 0 \notin Call /\ Fn \notin Event
  BY CallsAre, RemoteAssumption
<1> QED
  BY <1>1 DEF Message, Remote

LEMMA MessageAgain ==
    ASSUME NEW m \in Message, NEW w \in Nat
    PROVE  LET a == [m EXCEPT !.waited = w]
           IN  a \in Message /\ a.remote = m.remote /\ a.call = m.call /\ a.n = m.n
  BY DEF Message

LEMMA SentIs ==
    ASSUME NEW m \in Sent
    PROVE  /\ m \in ToRep /\ m.kind \in {"Fired", "Answer"} /\ m.remote \in Remote /\ m.n \in Nat
           /\ m.kind = "Fired" => m.remote \in Event /\ m.call = 0
           /\ m.kind = "Answer" => m.remote = Fn /\ m.call \in Call
  BY DEF Sent, ToRep, Remote

LEMMA ToRepIs ==
    ASSUME NEW m \in ToRep
    PROVE  /\ m.kind \in {"Fired", "Answer", "Spawn", "Despawn", "Gone", "Welcome"}
           /\ m.kind \in {"Fired", "Answer"} => m \in Sent
           /\ m.kind \in {"Spawn", "Despawn"} => m.ids \in SUBSET Remote
  BY DEF Sent, ToRep

LEMMA ToAuthIs ==
    ASSUME NEW m \in ToAuth
    PROVE  /\ m.kind \in {"Gone", "Hello", "Question"}
           /\ m.kind = "Hello" => m.conn \in Nat
           /\ m.kind = "Question" => m.call \in Call
  BY DEF ToAuth

\* Two lists of the same messages, whatever they have waited.
Alike(s, t) == DOMAIN s = DOMAIN t /\ \A i \in DOMAIN t : /\ s[i].remote = t[i].remote
                                                          /\ s[i].call = t[i].call /\ s[i].n = t[i].n

\* The queue of a peer is cut where its loop stops.
LEMMA FlushedIs ==
    ASSUME NEW held \in Seq(Message), NEW known
    PROVE  LET f == Flushed(held, known)
               r == Rest(held, known)
           IN  /\ f \in Seq(Message) /\ r \in Seq(Message)
               /\ Len(f) \in 0..Len(held) /\ Len(r) = Len(held) - Len(f)
               /\ \A i \in 1..Len(f) : f[i] = held[i]
               /\ \A i \in 1..Len(r) : /\ r[i].remote = held[Len(f) + i].remote
                                       /\ r[i].call = held[Len(f) + i].call /\ r[i].n = held[Len(f) + i].n
<1> DEFINE I == Known(held, known) \cup {i \in DOMAIN held : held[i].waited >= MaxHeld}
           f == Flushed(held, known)
           a == After(held, f)
           r == Rest(held, known)
<1>1. /\ f \in Seq(Message) /\ a \in Seq(Message) /\ Len(f) \in 0..Len(held) /\ Len(a) = Len(held) - Len(f)
      /\ \A i \in 1..Len(f) : f[i] = held[i]
      /\ \A i \in 1..Len(a) : a[i] = held[Len(f) + i]
  <2>1. f = Leading(held, I)
    BY DEF Flushed
  <2> HIDE DEF I, f
  <2> QED
    BY <2>1, LeadingIs
<1>2. r = IF a = <<>> THEN a ELSE [a EXCEPT ![1].waited = @ + 1]
  BY DEF Rest
<1> HIDE DEF f, a, r
<1>3. /\ r \in Seq(Message) /\ Len(r) = Len(a)
      /\ \A i \in 1..Len(r) : r[i].remote = a[i].remote /\ r[i].call = a[i].call /\ r[i].n = a[i].n
  <2>1. CASE a = <<>>
    BY <1>1, <1>2, <2>1
  <2>2. CASE a # <<>>
    <3>1. Len(a) \in Nat \ {0} /\ DOMAIN a = 1..Len(a) /\ 1 \in 1..Len(a) /\ a[1] \in Message
      BY <1>1, <2>2, EmptySeq, LenProperties
    <3> DEFINE e == [a[1] EXCEPT !.waited = @ + 1]
    <3>2. e \in Message /\ e.remote = a[1].remote /\ e.call = a[1].call /\ e.n = a[1].n
      <4>1. a[1].waited + 1 \in Nat
        BY <3>1, MessageIs
      <4> QED
        BY <3>1, <4>1, MessageAgain
    <3>3. r = [a EXCEPT ![1] = e]
      BY <1>2, <2>2
    <3> HIDE DEF e
    <3>4. r \in Seq(Message) /\ Len(r) = Len(a) /\ \A i \in 1..Len(a) : r[i] = IF i = 1 THEN e ELSE a[i]
      BY <1>1, <3>1, <3>2, <3>3, ExceptSeq
    <3> QED
      BY <3>2, <3>4
  <2> QED
    BY <2>1, <2>2
<1>4. \A i \in 1..Len(r) : /\ r[i].remote = held[Len(f) + i].remote
                          /\ r[i].call = held[Len(f) + i].call /\ r[i].n = held[Len(f) + i].n
  BY <1>1, <1>3
<1> QED
  BY <1>1, <1>3, <1>4 DEF f, r

LEMMA ListedMessages ==
    ASSUME NEW s \in Seq(Message), NEW t, DOMAIN t = DOMAIN s, t = [i \in DOMAIN s |-> t[i]],
           \A i \in DOMAIN s : t[i] \in Message
    PROVE  t \in Seq(Message) /\ Len(t) = Len(s)
<1>1. Len(s) \in Nat /\ DOMAIN s = 1..Len(s)
  BY LenProperties
<1>2. t = [i \in 1..Len(s) |-> t[i]] /\ \A i \in 1..Len(s) : t[i] \in Message
  BY <1>1
<1>3. t \in Seq(Message)
  BY <1>1, <1>2
<1>4. DOMAIN t = 1..Len(t) /\ Len(t) \in Nat
  BY <1>3, LenProperties
<1> QED
  BY <1>1, <1>3, <1>4

LEMMA WaitedOnce ==
    ASSUME NEW s \in Seq(Message)
    PROVE  LET t == [i \in DOMAIN s |-> [s[i] EXCEPT !.waited = @ + 1]]
           IN  t \in Seq(Message) /\ Alike(t, s) /\ Len(t) = Len(s)
<1> DEFINE t == [i \in DOMAIN s |-> [s[i] EXCEPT !.waited = @ + 1]]
<1>1. DOMAIN t = DOMAIN s /\ t = [i \in DOMAIN s |-> t[i]]
  OBVIOUS
<1>2. \A i \in DOMAIN s : t[i] = [s[i] EXCEPT !.waited = @ + 1] /\ s[i] \in Message
  OBVIOUS
<1> HIDE DEF t
<1>3. ASSUME NEW i \in DOMAIN s
      PROVE  t[i] \in Message /\ t[i].remote = s[i].remote /\ t[i].call = s[i].call /\ t[i].n = s[i].n
  <2>1. s[i] \in Message /\ s[i].waited + 1 \in Nat
    BY <1>2, MessageIs
  <2>2. t[i] = [s[i] EXCEPT !.waited = s[i].waited + 1]
    BY <1>2
  <2> QED
    BY <2>1, <2>2, MessageAgain
<1>4. t \in Seq(Message) /\ Len(t) = Len(s)
  BY <1>1, <1>3, ListedMessages
<1> QED
  BY <1>1, <1>3, <1>4 DEF Alike, t

LEMMA NotWaited ==
    ASSUME NEW s \in Seq(Message)
    PROVE  LET t == [i \in DOMAIN s |-> [s[i] EXCEPT !.waited = 0]]
           IN  t \in Seq(Message) /\ Alike(t, s) /\ Len(t) = Len(s)
<1> DEFINE t == [i \in DOMAIN s |-> [s[i] EXCEPT !.waited = 0]]
<1>1. DOMAIN t = DOMAIN s /\ t = [i \in DOMAIN s |-> t[i]]
  OBVIOUS
<1>2. \A i \in DOMAIN s : t[i] = [s[i] EXCEPT !.waited = 0] /\ s[i] \in Message
  OBVIOUS
<1> HIDE DEF t
<1>3. \A i \in DOMAIN s : t[i] \in Message /\ t[i].remote = s[i].remote /\ t[i].call = s[i].call /\ t[i].n = s[i].n
  <2> SUFFICES ASSUME NEW i \in DOMAIN s
               PROVE  t[i] \in Message /\ t[i].remote = s[i].remote /\ t[i].call = s[i].call /\ t[i].n = s[i].n
    OBVIOUS
  <2>1. s[i] \in Message /\ t[i] = [s[i] EXCEPT !.waited = 0] /\ 0 \in Nat
    BY <1>2
  <2> QED
    BY <2>1, MessageAgain
<1>4. t \in Seq(Message) /\ Len(t) = Len(s)
  BY <1>1, <1>3, ListedMessages
<1> QED
  BY <1>1, <1>3, <1>4 DEF Alike, t

\* The end of a tick, in its stages.
Numbered(capture) == IF capture THEN alive ELSE ids
KnownNow(capture) == IF capture /\ peer.welcomed THEN alive \cap near ELSE peer.known
Flush(capture)    == Flushed(peer.held, KnownNow(capture))
Left(capture)     == Rest(peer.held, KnownNow(capture))
Going(capture)    == Sublist(Flush(capture), Known(Flush(capture), KnownNow(capture)))
New(capture)      == Sublist(outbox, Known(outbox, Numbered(capture)))
Named(capture)    == [i \in DOMAIN New(capture) |-> [New(capture)[i] EXCEPT !.waited = 0]]
AtOnce(capture)   == Sendable(Left(capture), Named(capture), KnownNow(capture))
Later(capture)    == After(Named(capture), AtOnce(capture))
Unnamed(capture)  == {i \in Known(outbox, alive \ Numbered(capture)) : outbox[i].waited < MaxHeld}
Again(capture)    == Sublist(outbox, Unnamed(capture))
News(capture)     == ListOf("Despawn", peer.known \ KnownNow(capture))
                     \o ListOf("Spawn", KnownNow(capture) \ peer.known)
Outgoing(capture) == News(capture) \o Wired(Going(capture)) \o Wired(AtOnce(capture))
Discarded(capture) == {Flush(capture)[i].call :
                          i \in DOMAIN Flush(capture) \ Known(Flush(capture), KnownNow(capture))}

LEMMA TickEndsIs ==
    ASSUME NEW capture \in BOOLEAN, TickEnds(capture)
    PROVE  /\ phase = "resume" /\ due = <<>> /\ phase' = "idle" /\ ids' = Numbered(capture)
           /\ outbox' = [i \in DOMAIN Again(capture) |-> [Again(capture)[i] EXCEPT !.waited = @ + 1]]
           /\ peer' = IF peer.welcomed
                      THEN [peer EXCEPT !.known = KnownNow(capture), !.held = Left(capture) \o Later(capture)]
                      ELSE peer
           /\ toRep' = IF up /\ Here(rep.conn) THEN toRep \o Outgoing(capture) ELSE toRep
           /\ excused' = IF peer.welcomed THEN excused \cup (Discarded(capture) \cap Call) ELSE excused
           /\ UNCHANGED <<born, alive, near, handled, enabled, timers, fired, changes, inbox, running, ended,
                          due, rep, up, toAuth, heard>>
  BY DEF TickEnds, Numbered, KnownNow, Flush, Left, Going, New, Named, AtOnce, Later, Unnamed, Again, News,
         Outgoing, Discarded

LEMMA ListOfIs ==
    ASSUME NEW kind \in {"Spawn", "Despawn"}, NEW S \in SUBSET Remote
    PROVE  /\ ListOf(kind, S) \in Seq(ToRep) /\ Len(ListOf(kind, S)) \in {0, 1}
           /\ DOMAIN ListOf(kind, S) = 1..Len(ListOf(kind, S))
           /\ \A i \in DOMAIN ListOf(kind, S) : ListOf(kind, S)[i] = [kind |-> kind, ids |-> S]
           /\ S # {} => Len(ListOf(kind, S)) = 1
<1>1. [kind |-> kind, ids |-> S] \in ToRep
  BY DEF ToRep
<1>2. CASE S = {}
  <2>1. ListOf(kind, S) = <<>>
    BY <1>2 DEF ListOf
  <2> DEFINE l == ListOf(kind, S)
  <2>2. l \in Seq(ToRep) /\ Len(l) = 0
    BY <2>1
  <2> HIDE DEF l
  <2>3. DOMAIN l = 1..Len(l)
    BY <2>2, LenProperties
  <2>4. \A i \in DOMAIN l : FALSE
    BY <2>2, <2>3
  <2> QED
    BY <1>2, <2>2, <2>3, <2>4 DEF l
<1>3. CASE S # {}
  <2> DEFINE e == [kind |-> kind, ids |-> S]
  <2>1. ListOf(kind, S) = <<e>>
    BY <1>3 DEF ListOf
  <2> HIDE DEF e
  <2>2. e \in ToRep
    BY <1>1 DEF e
  <2>3. /\ <<e>> \in Seq(ToRep) /\ Len(<<e>>) = 1 /\ DOMAIN <<e>> = 1..1
        /\ \A i \in 1..1 : <<e>>[i] = e
    BY <2>2
  <2> QED
    BY <2>1, <2>3 DEF e
<1> QED
  BY <1>2, <1>3

\* What is known and held of it is a peer's.
LEMMA PeerIs ==
    ASSUME peer \in PeerType
    PROVE  /\ peer.welcomed \in BOOLEAN /\ peer.player \in Nat /\ peer.known \in SUBSET Remote
           /\ peer.held \in Seq(Message)
  BY DEF PeerType

LEMMA RepIs ==
    ASSUME rep \in RepType
    PROVE  /\ rep.conn \in Nat /\ rep.life \in Nat /\ rep.welcomed \in BOOLEAN /\ rep.lost \in BOOLEAN
           /\ rep.locals \in SUBSET Remote /\ rep.inbox \in Seq(Sent) /\ rep.outbox \in Seq(Waiting)
           /\ rep.next \in Nat \ {0} /\ rep.waiters \in SUBSET Call
  BY DEF RepType

\* The queue a tick leaves, and what it sends at once, are of what was held and what
\* the scripts have fired.
LEMMA TickLists ==
    ASSUME Types, NEW capture \in BOOLEAN
    PROVE  /\ Numbered(capture) \in SUBSET Remote /\ KnownNow(capture) \in SUBSET Remote
           /\ Flush(capture) \in Seq(Message) /\ Left(capture) \in Seq(Message)
           /\ Known(Flush(capture), KnownNow(capture)) \in SUBSET DOMAIN Flush(capture)
           /\ Going(capture) \in Seq(Message)
           /\ Known(outbox, Numbered(capture)) \in SUBSET DOMAIN outbox
           /\ New(capture) \in Seq(Message)
           /\ Named(capture) \in Seq(Message) /\ Alike(Named(capture), New(capture))
           /\ Len(Named(capture)) = Len(New(capture))
           /\ Unnamed(capture) \in SUBSET DOMAIN outbox /\ Again(capture) \in Seq(Message)
<1>1. /\ alive \in SUBSET Remote /\ ids \in SUBSET Remote /\ near \in SUBSET Remote
      /\ outbox \in Seq(Message) /\ peer \in PeerType
  BY DEF Types, WorldTypes, WireTypes
<1>2. Numbered(capture) \in SUBSET Remote /\ KnownNow(capture) \in SUBSET Remote
  BY <1>1, PeerIs DEF Numbered, KnownNow
<1>3. Flush(capture) \in Seq(Message) /\ Left(capture) \in Seq(Message)
  <2>1. peer.held \in Seq(Message)
    BY <1>1, PeerIs
  <2> QED
    BY <2>1, FlushedIs DEF Flush, Left
<1>4. Known(Flush(capture), KnownNow(capture)) \in SUBSET DOMAIN Flush(capture)
  BY DEF Known
<1>5. Going(capture) \in Seq(Message)
  BY <1>3, <1>4, SublistIn DEF Going
<1>6. Known(outbox, Numbered(capture)) \in SUBSET DOMAIN outbox
  BY DEF Known
<1>7. New(capture) \in Seq(Message)
  BY <1>1, <1>6, SublistIn DEF New
<1>8. /\ Named(capture) \in Seq(Message) /\ Alike(Named(capture), New(capture))
      /\ Len(Named(capture)) = Len(New(capture))
  BY <1>7, NotWaited DEF Named
<1>9. Unnamed(capture) \in SUBSET DOMAIN outbox
  BY DEF Unnamed, Known
<1>10. Again(capture) \in Seq(Message)
  BY <1>1, <1>9, SublistIn DEF Again
<1> QED
  BY <1>2, <1>3, <1>4, <1>5, <1>6, <1>7, <1>8, <1>9, <1>10

\* New messages go at once from the head of the list, or not at all while others wait.
LEMMA TickCuts ==
    ASSUME Types, NEW capture \in BOOLEAN
    PROVE  /\ AtOnce(capture) \in Seq(Message) /\ Later(capture) \in Seq(Message)
           /\ Len(AtOnce(capture)) \in 0..Len(Named(capture))
           /\ Len(Later(capture)) = Len(Named(capture)) - Len(AtOnce(capture))
           /\ \A i \in 1..Len(AtOnce(capture)) :
                  /\ AtOnce(capture)[i] = Named(capture)[i]
                  /\ Named(capture)[i].remote \in KnownNow(capture)
           /\ \A i \in 1..Len(Later(capture)) :
                  Later(capture)[i] = Named(capture)[Len(AtOnce(capture)) + i]
           /\ Len(AtOnce(capture)) = 0 \/ Left(capture) = <<>>
<1> DEFINE s == Named(capture)
           I == Known(s, KnownNow(capture))
           h == AtOnce(capture)
           t == Later(capture)
<1>1. s \in Seq(Message) /\ Len(s) \in Nat
  BY TickLists, LenProperties
<1>2. h = (IF Left(capture) = <<>> THEN Leading(s, I) ELSE <<>>) /\ t = After(s, h)
  BY DEF AtOnce, Later, Sendable
<1>3. \A i \in I : s[i].remote \in KnownNow(capture)
  BY DEF Known
<1> HIDE DEF s, I, h, t
<1>4. CASE Left(capture) = <<>>
  <2>1. h = Leading(s, I)
    BY <1>2, <1>4
  <2>2. /\ h \in Seq(Message) /\ t \in Seq(Message) /\ Len(h) \in 0..Len(s) /\ Len(t) = Len(s) - Len(h)
        /\ \A i \in 1..Len(h) : h[i] = s[i] /\ i \in I
        /\ \A i \in 1..Len(t) : t[i] = s[Len(h) + i]
    <3>1. LET u == Leading(s, I)
              v == After(s, u)
          IN  /\ u \in Seq(Message) /\ v \in Seq(Message) /\ Len(u) \in 0..Len(s) /\ Len(v) = Len(s) - Len(u)
              /\ \A i \in 1..Len(u) : u[i] = s[i] /\ i \in I
              /\ Len(u) < Len(s) => Len(u) + 1 \notin I
              /\ \A i \in 1..Len(v) : v[i] = s[Len(u) + i]
      BY <1>1, LeadingIs
    <3> QED
      BY <1>2, <2>1, <3>1
  <2> QED
    BY <1>3, <1>4, <2>2 DEF s, I, h, t
<1>5. CASE Left(capture) # <<>>
  <2>1. h = <<>> /\ t = SubSeq(s, 0 + 1, Len(s))
    BY <1>2, <1>5 DEF After
  <2>2. /\ t \in Seq(Message) /\ Len(t) = Len(s) - 0
        /\ \A i \in 1..(Len(s) - 0) : t[i] = s[0 + i]
    BY <1>1, <2>1, CutIs
  <2>3. h \in Seq(Message) /\ Len(h) = 0
    BY <2>1
  <2> QED
    BY <1>1, <2>2, <2>3 DEF s, I, h, t
<1> QED
  BY <1>4, <1>5

LEMMA OutgoingIs ==
    ASSUME Types, NEW capture \in BOOLEAN
    PROVE  /\ News(capture) \in Seq(ToRep) /\ Wired(Going(capture)) \in Seq(ToRep)
           /\ Wired(AtOnce(capture)) \in Seq(ToRep) /\ Outgoing(capture) \in Seq(ToRep)
           /\ News(capture) \o Wired(Going(capture)) \in Seq(ToRep)
<1>1. KnownNow(capture) \in SUBSET Remote /\ peer.known \in SUBSET Remote
  BY TickLists, PeerIs DEF Types, WireTypes
<1>2. /\ ListOf("Despawn", peer.known \ KnownNow(capture)) \in Seq(ToRep)
      /\ ListOf("Spawn", KnownNow(capture) \ peer.known) \in Seq(ToRep)
  BY <1>1, ListOfIs
<1>3. News(capture) \in Seq(ToRep)
  BY <1>2, ConcatIs DEF News
<1>4. Wired(Going(capture)) \in Seq(Sent) /\ Wired(AtOnce(capture)) \in Seq(Sent)
  BY TickLists, TickCuts, WiredIs
<1>5. Wired(Going(capture)) \in Seq(ToRep) /\ Wired(AtOnce(capture)) \in Seq(ToRep)
  <2>1. Sent \subseteq ToRep
    BY DEF ToRep
  <2> QED
    BY <1>4, <2>1, SeqMonotonic
<1>6. News(capture) \o Wired(Going(capture)) \in Seq(ToRep)
  BY <1>3, <1>5, ConcatIs
<1> QED
  BY <1>3, <1>5, <1>6, ConcatIs DEF Outgoing

LEMMA TypesInit ==
    ASSUME Init PROVE Types
<1>1. WorldTypes
  <2>1. /\ born \in SUBSET Remote /\ alive = born /\ ids = {} /\ near = Remote
        /\ phase = "idle" /\ inbox = <<>> /\ outbox = <<>> /\ handled = TRUE /\ enabled = TRUE
        /\ running = <<>> /\ ended = {} /\ timers = <<>> /\ due = <<>>
        /\ fired = 0 /\ changes = 0 /\ excused = {}
    BY DEF Init
  <2> QED
    BY <2>1 DEF WorldTypes
<1>2. peer \in PeerType
  <2>1. peer = [welcomed |-> FALSE, player |-> 0, known |-> {}, held |-> <<>>]
    BY DEF Init, Nobody
  <2> QED
    BY <2>1 DEF PeerType
<1>3. rep \in RepType /\ rep.waiters = {}
  <2>1. rep = [conn |-> 0, life |-> 0, welcomed |-> FALSE, lost |-> TRUE, locals |-> {},
               inbox |-> <<>>, outbox |-> <<>>, next |-> 1, waiters |-> {}]
    BY DEF Init
  <2> QED
    BY <2>1 DEF RepType
<1>4. up = FALSE /\ toRep = <<>> /\ toAuth = <<>> /\ heard = <<>>
  BY DEF Init
<1>5. up \in BOOLEAN /\ toRep \in Seq(ToRep) /\ toAuth \in Seq(ToAuth) /\ heard \in Seq([remote : Event, n : Nat])
  BY <1>4, EmptySeq
<1>6. \A c \in rep.waiters : c < rep.next
  BY <1>3
<1> QED
  BY <1>1, <1>2, <1>3, <1>5, <1>6 DEF Types, WireTypes

LEMMA TypesGive ==
    ASSUME Types
    PROVE  WorldTypes /\ WireTypes /\ peer \in PeerType /\ rep \in RepType
  BY DEF Types, WireTypes

LEMMA DialTypes ==
    ASSUME Types, Dial PROVE Types'
<1> DEFINE h == [kind |-> "Hello", conn |-> rep.conn + 1]
<1>1. /\ toAuth' = Append(toAuth, h) /\ up' = TRUE
      /\ rep' = [rep EXCEPT !.conn = @ + 1, !.lost = FALSE]
      /\ UNCHANGED <<scripts, tick, ids, peer, toRep, heard, excused>>
  BY DEF Dial
<1>2. h \in ToAuth /\ toAuth \in Seq(ToAuth)
  <2>1. rep.conn + 1 \in Nat
    BY TypesGive, RepIs
  <2> QED
    BY <2>1, TypesGive DEF ToAuth, WireTypes
<1> HIDE DEF h
<1>3. toAuth' \in Seq(ToAuth)
  BY <1>1, <1>2, AppendIs
<1>4. rep' \in RepType /\ rep'.waiters = rep.waiters /\ rep'.next = rep.next
  <2> DEFINE r == [rep EXCEPT !.conn = @ + 1]
  <2>1. rep \in RepType
    BY TypesGive
  <2>2. r \in RepType /\ r.waiters = rep.waiters /\ r.next = rep.next
    BY <2>1 DEF RepType
  <2>3. rep' = [r EXCEPT !.lost = FALSE]
    BY <1>1
  <2> HIDE DEF r
  <2> QED
    BY <2>2, <2>3 DEF RepType
<1>5. WorldTypes'
  BY <1>1, TypesGive DEF WorldTypes, scripts, tick
<1>6. WireTypes'
  BY <1>1, <1>3, <1>4, TypesGive DEF WireTypes
<1> QED
  BY <1>5, <1>6 DEF Types

LEMMA BreakTypes ==
    ASSUME Types, Break PROVE Types'
<1>1. /\ up' = FALSE /\ toRep' = <<Gone>> /\ toAuth' = <<Gone>> /\ changes' = changes + 1
      /\ excused' = excused \cup rep.waiters
      /\ UNCHANGED <<born, alive, near, handled, enabled, timers, outbox, fired, tick, ids, peer, rep, heard>>
  BY DEF Break, Changing
<1>2. Gone \in ToRep /\ Gone \in ToAuth
  BY DEF Gone, ToRep, ToAuth
<1>3. toRep' \in Seq(ToRep) /\ toAuth' \in Seq(ToAuth)
  BY <1>1, <1>2
<1>4. rep.waiters \in SUBSET Call
  BY TypesGive, RepIs
<1>5. WorldTypes'
  BY <1>1, <1>4, TypesGive DEF WorldTypes, tick
<1>6. WireTypes'
  BY <1>1, <1>3, TypesGive DEF WireTypes
<1> QED
  BY <1>5, <1>6 DEF Types

\* What the authority reads of a poll.
Hellos(k) == Kind(Polled(k), "Hello")
Who(k)    == IF Hellos(k) # {} THEN toAuth[Place(Hellos(k), 1)].conn ELSE peer.player
Taken(k)  == IF Fn \in ids \cap alive THEN Questions(k) ELSE <<>>
Noted(k)  == [i \in DOMAIN Taken(k) |-> [call |-> Taken(k)[i].call, player |-> Who(k)]]

LEMMA ReceiveIs ==
    ASSUME NEW k, AuthorityReceive(k)
    PROVE  /\ phase = "idle" /\ k > 0 /\ toAuth' = SubSeq(toAuth, k + 1, Len(toAuth))
           /\ peer' = IF Hellos(k) # {} THEN [Nobody EXCEPT !.welcomed = TRUE, !.player = Who(k)]
                      ELSE IF Kind(Polled(k), "Gone") # {} THEN Nobody ELSE peer
           /\ toRep' = IF Hellos(k) # {} /\ up THEN Append(toRep, [kind |-> "Welcome"]) ELSE toRep
           /\ inbox' = inbox \o Noted(k)
           /\ excused' = excused \cup (CallsOf(Polled(k)) \ CallsOf(Taken(k)))
           /\ UNCHANGED <<scripts, phase, running, ended, due, ids, rep, up, heard>>
  BY DEF AuthorityReceive, Hellos, Who, Taken, Noted

LEMMA PollIs ==
    ASSUME Types, NEW k \in 1..Len(toAuth)
    PROVE  /\ Polled(k) \in Seq(ToAuth) /\ Len(Polled(k)) = k /\ DOMAIN Polled(k) = 1..k
           /\ \A i \in 1..k : Polled(k)[i] = toAuth[i]
           /\ toAuth \in Seq(ToAuth) /\ Len(toAuth) \in Nat /\ k \in Nat /\ k <= Len(toAuth)
           /\ Hellos(k) \in SUBSET (1..k)
           /\ Hellos(k) # {} => /\ Place(Hellos(k), 1) \in Hellos(k)
                                /\ \A i \in Hellos(k) : Place(Hellos(k), 1) <= i
<1>1. toAuth \in Seq(ToAuth) /\ Len(toAuth) \in Nat /\ k \in Nat /\ k <= Len(toAuth)
  <2>1. toAuth \in Seq(ToAuth)
    BY TypesGive DEF WireTypes
  <2> QED
    BY <2>1
<1>2. k \in 0..Len(toAuth)
  BY <1>1
<1>3. /\ Polled(k) \in Seq(ToAuth) /\ Len(Polled(k)) = k /\ DOMAIN Polled(k) = 1..k
      /\ \A i \in 1..k : Polled(k)[i] = toAuth[i]
  BY <1>1, <1>2, CutIs DEF Polled
<1>4. Hellos(k) \in SUBSET (1..k)
  BY <1>3 DEF Hellos, Kind
<1>5. IsFiniteSet(Hellos(k)) /\ Hellos(k) \in SUBSET Int
  <2>1. IsFiniteSet(1..k)
    BY <1>1, FS_Interval
  <2>2. IsFiniteSet(Hellos(k))
    BY <1>4, <2>1, FS_Subset
  <2> QED
    BY <1>1, <1>4, <2>2
<1>6. Hellos(k) # {} => /\ Place(Hellos(k), 1) \in Hellos(k)
                        /\ \A i \in Hellos(k) : Place(Hellos(k), 1) <= i
  BY <1>5, FirstPlace
<1> QED
  BY <1>1, <1>3, <1>4, <1>6

\* A poll takes so many questions, in their order.
LEMMA QuestionsAre ==
    ASSUME Types, NEW k \in 1..Len(toAuth)
    PROVE  LET Q == Kind(Polled(k), "Question")
           IN  /\ Q \in SUBSET DOMAIN Polled(k) /\ Q \in SUBSET (1..k)
               /\ Questions(k) \in Seq(ToAuth) /\ Len(Questions(k)) \in 0..Cardinality(Q)
               /\ Cardinality(Q) \in Nat /\ DOMAIN Questions(k) = 1..Len(Questions(k))
               /\ \A n \in 1..Len(Questions(k)) :
                      /\ n \in DOMAIN Sublist(Polled(k), Q) /\ Questions(k)[n] = Sublist(Polled(k), Q)[n]
                      /\ Place(Q, n) \in Q /\ Questions(k)[n] = Polled(k)[Place(Q, n)]
                      /\ Questions(k)[n].kind = "Question" /\ Questions(k)[n].call \in Call
<1> DEFINE Q == Kind(Polled(k), "Question")
           a == Sublist(Polled(k), Q)
           l == IF Len(a) < MaxPerPoll THEN Len(a) ELSE MaxPerPoll
<1>1. Polled(k) \in Seq(ToAuth) /\ DOMAIN Polled(k) = 1..k
  BY PollIs
<1>2. Q \in SUBSET DOMAIN Polled(k) /\ \A i \in Q : Polled(k)[i].kind = "Question"
  BY DEF Kind
<1>3. Questions(k) = SubSeq(a, 1, l)
  BY DEF Questions
<1> HIDE DEF Q
<1>4. a \in Seq(ToAuth) /\ Len(a) = Cardinality(Q) /\ Len(a) \in Nat /\ DOMAIN a = 1..Cardinality(Q)
  BY <1>1, <1>2, SublistIn
<1>5. \A n \in DOMAIN a : Place(Q, n) \in Q /\ a[n] = Polled(k)[Place(Q, n)]
  BY <1>1, <1>2, SublistFrom
<1> HIDE DEF a
<1>6. l \in 0..Len(a)
  BY <1>4, RemoteAssumption
<1> HIDE DEF l
<1>7. /\ Questions(k) \in Seq(ToAuth) /\ Len(Questions(k)) = l /\ DOMAIN Questions(k) = 1..l
      /\ \A n \in 1..l : Questions(k)[n] = a[n]
  BY <1>3, <1>4, <1>6, CutIs
<1>8. ASSUME NEW n \in 1..l
      PROVE  /\ n \in DOMAIN a /\ Questions(k)[n] = a[n]
             /\ Place(Q, n) \in Q /\ Questions(k)[n] = Polled(k)[Place(Q, n)]
             /\ Questions(k)[n].kind = "Question" /\ Questions(k)[n].call \in Call
  <2>1. n \in DOMAIN a /\ Questions(k)[n] = a[n]
    BY <1>4, <1>6, <1>7
  <2>2. Place(Q, n) \in Q /\ Questions(k)[n] = Polled(k)[Place(Q, n)]
    BY <1>5, <2>1
  <2>3. Polled(k)[Place(Q, n)] \in ToAuth /\ Polled(k)[Place(Q, n)].kind = "Question"
    BY <1>1, <1>2, <2>2
  <2> QED
    BY <2>1, <2>2, <2>3, ToAuthIs
<1> QED
  BY <1>1, <1>2, <1>4, <1>6, <1>7, <1>8 DEF Q, a

LEMMA NewPeer ==
    ASSUME NEW p \in Nat
    PROVE  LET n == [Nobody EXCEPT !.welcomed = TRUE, !.player = p]
           IN  n \in PeerType /\ n.welcomed = TRUE /\ n.player = p /\ n.known = {} /\ n.held = <<>>
<1> DEFINE x == Nobody
           y == [x EXCEPT !.welcomed = TRUE]
           n == [y EXCEPT !.player = p]
<1>1. x \in PeerType /\ x.known = {} /\ x.held = <<>>
  BY DEF Nobody, PeerType
<1> HIDE DEF x
<1>2. y \in PeerType /\ y.welcomed = TRUE /\ y.known = x.known /\ y.held = x.held
  BY <1>1 DEF PeerType
<1> HIDE DEF y
<1>3. n \in PeerType /\ n.welcomed = y.welcomed /\ n.player = p /\ n.known = y.known /\ n.held = y.held
  BY <1>2 DEF PeerType
<1>4. n = [Nobody EXCEPT !.welcomed = TRUE, !.player = p]
  BY DEF y, x
<1> HIDE DEF n
<1> QED
  BY <1>1, <1>2, <1>3, <1>4

LEMMA ReceiveTypes ==
    ASSUME Types, NEW k \in 1..Len(toAuth), AuthorityReceive(k) PROVE Types'
<1>1. /\ toAuth' = SubSeq(toAuth, k + 1, Len(toAuth))
      /\ peer' = IF Hellos(k) # {} THEN [Nobody EXCEPT !.welcomed = TRUE, !.player = Who(k)]
                 ELSE IF Kind(Polled(k), "Gone") # {} THEN Nobody ELSE peer
      /\ toRep' = IF Hellos(k) # {} /\ up THEN Append(toRep, [kind |-> "Welcome"]) ELSE toRep
      /\ inbox' = inbox \o Noted(k)
      /\ excused' = excused \cup (CallsOf(Polled(k)) \ CallsOf(Taken(k)))
      /\ UNCHANGED <<scripts, phase, running, ended, due, ids, rep, up, heard>>
  BY ReceiveIs
<1>2. Who(k) \in Nat
  <2>1. CASE Hellos(k) # {}
    <3> DEFINE i == Place(Hellos(k), 1)
    <3>1. i \in Hellos(k) /\ i \in 1..k /\ Polled(k)[i] = toAuth[i] /\ Polled(k)[i] \in ToAuth
      BY <2>1, PollIs
    <3>2. Polled(k)[i].kind = "Hello"
      BY <3>1 DEF Hellos, Kind
    <3>3. toAuth[i].conn \in Nat
      BY <3>1, <3>2, ToAuthIs
    <3> QED
      BY <2>1, <3>3 DEF Who
  <2>2. CASE Hellos(k) = {}
    BY <2>2, TypesGive, PeerIs DEF Who
  <2> QED
    BY <2>1, <2>2
<1>3. peer' \in PeerType
  <2>1. Nobody \in PeerType
    BY DEF Nobody, PeerType
  <2>2. [Nobody EXCEPT !.welcomed = TRUE, !.player = Who(k)] \in PeerType
    BY <1>2, NewPeer
  <2> QED
    BY <1>1, <2>1, <2>2, TypesGive
<1>4. toAuth' \in Seq(ToAuth)
  <2>1. k \in 0..Len(toAuth) /\ toAuth \in Seq(ToAuth)
    BY PollIs
  <2> QED
    BY <1>1, <2>1, CutIs
<1>5. toRep' \in Seq(ToRep)
  <2>1. [kind |-> "Welcome"] \in ToRep
    BY DEF ToRep
  <2>2. toRep \in Seq(ToRep)
    BY TypesGive DEF WireTypes
  <2> QED
    BY <1>1, <2>1, <2>2, AppendIs
<1>6. inbox' \in Seq(Ask)
  <2>1. /\ Taken(k) \in Seq(ToAuth) /\ \A n \in DOMAIN Taken(k) : Taken(k)[n].call \in Call
    <3>1. CASE Fn \in ids \cap alive
      BY <3>1, QuestionsAre DEF Taken
    <3>2. CASE Fn \notin ids \cap alive
      BY <3>2 DEF Taken
    <3> QED
      BY <3>1, <3>2
  <2>2. \A n \in DOMAIN Taken(k) : [call |-> Taken(k)[n].call, player |-> Who(k)] \in Ask
    BY <1>2, <2>1 DEF Ask
  <2>3. Noted(k) \in Seq(Ask)
    <3>1. DOMAIN Taken(k) = 1..Len(Taken(k)) /\ Len(Taken(k)) \in Nat
      BY <2>1, LenProperties
    <3> QED
      BY <2>2, <3>1 DEF Noted
  <2>4. inbox \in Seq(Ask)
    BY TypesGive DEF WorldTypes
  <2> QED
    BY <1>1, <2>3, <2>4, ConcatIs
<1>7. excused' \in SUBSET Call
  <2>1. ASSUME NEW i \in Kind(Polled(k), "Question") PROVE Polled(k)[i].call \in Call
    <3>1. i \in DOMAIN Polled(k) /\ Polled(k)[i].kind = "Question"
      BY DEF Kind
    <3>2. Polled(k)[i] \in ToAuth
      BY <3>1, PollIs
    <3> QED
      BY <3>1, <3>2, ToAuthIs
  <2>2. CallsOf(Polled(k)) \in SUBSET Call
    BY <2>1 DEF CallsOf
  <2>3. excused \in SUBSET Call
    BY TypesGive DEF WorldTypes
  <2> QED
    BY <1>1, <2>2, <2>3
<1>8. WorldTypes'
  BY <1>1, <1>6, <1>7, TypesGive DEF WorldTypes, scripts
<1>9. WireTypes'
  BY <1>1, <1>3, <1>4, <1>5, TypesGive DEF WireTypes
<1> QED
  BY <1>8, <1>9 DEF Types

LEMMA TickStartsTypes ==
    ASSUME Types, TickStarts PROVE Types'
<1>1. /\ phase' = "inbox" /\ outbox' = outbox \o Answers(Sublist(running, Finished))
      /\ running' = Sublist(running, DOMAIN running \ Finished) /\ ended' = {}
      /\ timers' = Aged(timers)
      /\ UNCHANGED <<born, alive, near, handled, enabled, fired, changes, inbox, due, ids, peer,
                     rep, network, heard, excused>>
  BY DEF TickStarts
<1>2. running \in Seq(Ask) /\ outbox \in Seq(Message)
  BY TypesGive DEF WorldTypes
<1>3. Finished \in SUBSET DOMAIN running /\ (DOMAIN running \ Finished) \in SUBSET DOMAIN running
  BY DEF Finished
<1>4. Sublist(running, Finished) \in Seq(Ask) /\ running' \in Seq(Ask)
  BY <1>1, <1>2, <1>3, SublistIn
<1>5. Answers(Sublist(running, Finished)) \in Seq(Message)
  BY <1>4, AnswersIs
<1>6. outbox' \in Seq(Message)
  BY <1>1, <1>2, <1>5, ConcatIs
<1>7. timers' \in Seq(Timer)
  <2>1. timers \in Seq(Timer)
    BY TypesGive DEF WorldTypes
  <2> QED
    BY <1>1, <2>1, AgedIs
<1>8. WorldTypes'
  BY <1>1, <1>4, <1>6, <1>7, TypesGive DEF WorldTypes
<1>9. WireTypes'
  BY <1>1, TypesGive DEF WireTypes, network
<1> QED
  BY <1>8, <1>9 DEF Types

\* A timer is due after exactly what was asked for, in the order the timers were made.
TimersFit ==
    /\ Timed(timers) /\ Sorted(timers) /\ NotBefore(timers, Soonest)
    /\ \A i \in DOMAIN due : due[i].since = due[i].asked
    /\ \A i, j \in DOMAIN due : i < j => due[i].since >= due[j].since

LEMMA SoonestOne == Soonest \in 0..1
  BY DEF Soonest

LEMMA SoonestIs ==
    /\ phase = "inbox" => Soonest = 0
    /\ phase # "inbox" => Soonest = 1
    /\ phase' = phase => Soonest' = Soonest
    /\ phase' = "inbox" => Soonest' = 0
    /\ phase' # "inbox" => Soonest' = 1
  BY DEF Soonest

LEMMA TickStartsFit ==
    ASSUME Types, TimersFit, TickStarts
    PROVE  TimersFit' /\ Threads(timers') = Threads(timers)
<1>1. phase = "idle" /\ phase' = "inbox" /\ timers' = Aged(timers) /\ due' = due
  BY DEF TickStarts
<1>2. timers \in Seq(Timer) /\ Timed(timers) /\ Sorted(timers) /\ NotBefore(timers, 1)
  BY <1>1, SoonestIs, TypesGive DEF WorldTypes, TimersFit
<1>3. Timed(timers') /\ Sorted(timers') /\ NotBefore(timers', 0) /\ Threads(timers') = Threads(timers)
  BY <1>1, <1>2, AgedIs
<1>4. Soonest' = 0
  BY <1>1, SoonestIs
<1> QED
  BY <1>1, <1>3, <1>4 DEF TimersFit

LEMMA HandleTypes ==
    ASSUME Types, TimersFit, NEW wait \in Waits, Handle(wait)
    PROVE  /\ Types' /\ TimersFit' /\ due' = due
           /\ Head(inbox) \in Ask /\ inbox # <<>> /\ inbox' = Tail(inbox)
           /\ Threads(timers) \subseteq Threads(timers')
<1> DEFINE q == Head(inbox)
<1>1. /\ inbox # <<>> /\ inbox' = Tail(inbox)
      /\ \/ UNCHANGED <<outbox, running, timers>>
         \/ outbox' = outbox \o Answers(<<q>>) /\ UNCHANGED <<running, timers>>
         \/ /\ running' = Append(running, q)
            /\ timers' = InsertTimer(timers, q.call, wait) /\ UNCHANGED outbox
      /\ UNCHANGED <<born, alive, near, handled, enabled, fired, changes, phase, ended, due, ids, peer,
                     rep, network, heard, excused>>
  BY DEF Handle
<1>2. inbox \in Seq(Ask) /\ running \in Seq(Ask) /\ outbox \in Seq(Message) /\ timers \in Seq(Timer)
  BY TypesGive DEF WorldTypes
<1>3. q \in Ask /\ inbox' \in Seq(Ask)
  BY <1>1, <1>2, TailIs
<1> HIDE DEF q
<1>4. outbox' \in Seq(Message)
  <2>1. <<q>> \in Seq(Ask)
    BY <1>3
  <2>2. Answers(<<q>>) \in Seq(Message)
    BY <2>1, AnswersIs
  <2> QED
    <3>1. outbox \o Answers(<<q>>) \in Seq(Message)
      BY <1>2, <2>2, ConcatIs
    <3> QED
      BY <1>1, <1>2, <3>1
<1>5. running' \in Seq(Ask)
  <2>1. Append(running, q) \in Seq(Ask)
    BY <1>2, <1>3, AppendIs
  <2> QED
    BY <1>1, <1>2, <2>1
<1>6. /\ timers' \in Seq(Timer) /\ Timed(timers') /\ Sorted(timers') /\ NotBefore(timers', Soonest)
      /\ Threads(timers) \subseteq Threads(timers')
  <2>1. q.call \in Thread /\ wait \in Nat
    BY <1>3, RemoteAssumption DEF Ask
  <2>2. CASE timers' = timers
    BY <1>2, <2>2 DEF TimersFit
  <2>3. CASE timers' = InsertTimer(timers, q.call, wait)
    BY <1>2, <2>1, <2>3, InsertTimerIs, SoonestOne DEF TimersFit
  <2> QED
    BY <1>1, <2>2, <2>3
<1>7. WorldTypes'
  BY <1>1, <1>3, <1>4, <1>5, <1>6, TypesGive DEF WorldTypes
<1>8. WireTypes'
  BY <1>1, TypesGive DEF WireTypes, network
<1>9. TimersFit'
  <2>1. Soonest' = Soonest
    BY <1>1, SoonestIs
  <2> QED
    BY <1>1, <1>6, <2>1 DEF TimersFit
<1> QED
  BY <1>1, <1>3, <1>6, <1>7, <1>8, <1>9 DEF Types, q

LEMMA TimersDueTypes ==
    ASSUME Types, TimersFit, TimersDue
    PROVE  Types' /\ TimersFit' /\ Threads(timers) = Threads(due') \cup Threads(timers')
<1>1. /\ phase = "inbox" /\ phase' = "resume" /\ due' = Due(timers) /\ timers' = NotDue(timers)
      /\ UNCHANGED <<born, alive, near, handled, enabled, outbox, fired, changes, inbox, running, ended,
                     ids, peer, rep, network, heard, excused>>
  BY DEF TimersDue
<1>2. timers \in Seq(Timer) /\ Timed(timers) /\ Sorted(timers) /\ NotBefore(timers, 0)
  BY <1>1, SoonestIs, TypesGive DEF WorldTypes, TimersFit
<1>3. /\ due' \in Seq(Timer) /\ timers' \in Seq(Timer) /\ Timed(timers') /\ Sorted(timers') /\ NotBefore(timers', 1)
      /\ \A i \in DOMAIN due' : due'[i].since = due'[i].asked
      /\ \A i, j \in DOMAIN due' : i < j => due'[i].since >= due'[j].since
      /\ Threads(timers) = Threads(due') \cup Threads(timers')
  <2>1. LET d == Due(timers)
            r == NotDue(timers)
        IN  /\ d \in Seq(Timer) /\ r \in Seq(Timer) /\ Timed(r) /\ Sorted(r) /\ NotBefore(r, 1)
            /\ \A i \in DOMAIN d : d[i].since = d[i].asked
            /\ \A i, j \in DOMAIN d : i < j => d[i].since >= d[j].since
            /\ Threads(timers) = Threads(d) \cup Threads(r)
    BY <1>2, DueIs
  <2> QED
    BY <1>1, <2>1
<1>4. WorldTypes'
  BY <1>1, <1>3, TypesGive DEF WorldTypes
<1>5. WireTypes'
  BY <1>1, TypesGive DEF WireTypes, network
<1>6. Soonest' = 1
  BY <1>1, SoonestIs
<1> QED
  BY <1>3, <1>4, <1>5, <1>6 DEF Types, TimersFit

LEMMA ResumeTimerIs ==
    ASSUME ResumeTimer
    PROVE  LET thread == Head(due).thread
           IN  /\ phase = "resume" /\ phase' = phase /\ due # <<>> /\ due' = Tail(due)
               /\ \/ /\ ended' = ended \cup ({thread} \cap Call) /\ UNCHANGED <<timers, changes, excused>>
                  \/ /\ \E wait \in Waits : timers' = InsertTimer(timers, thread, wait)
                     /\ changes' = changes + 1 /\ UNCHANGED <<ended, excused>>
                  \/ /\ excused' = excused \cup ({thread} \cap Call) /\ UNCHANGED <<timers, changes, ended>>
               /\ UNCHANGED <<born, alive, near, handled, enabled, outbox, fired, inbox, running, ids, peer,
                              rep, network, heard>>
  BY DEF ResumeTimer, Changing

LEMMA ResumeTimerTypes ==
    ASSUME Types, TimersFit, ResumeTimer
    PROVE  LET thread == Head(due).thread
           IN  /\ Types' /\ TimersFit' /\ due # <<>> /\ thread \in Thread
               /\ Threads(due) \subseteq Threads(due') \cup {thread}
               /\ Threads(timers) \subseteq Threads(timers')
               /\ \/ ended' = ended \cup ({thread} \cap Call) /\ excused' = excused
                  \/ thread \in Threads(timers') /\ ended' = ended /\ excused' = excused
                  \/ excused' = excused \cup ({thread} \cap Call) /\ ended' = ended
<1> DEFINE thread == Head(due).thread
<1>1. /\ phase = "resume" /\ phase' = phase /\ due # <<>> /\ due' = Tail(due)
      /\ \/ /\ ended' = ended \cup ({thread} \cap Call) /\ UNCHANGED <<timers, changes, excused>>
         \/ /\ \E wait \in Waits : timers' = InsertTimer(timers, thread, wait)
            /\ changes' = changes + 1 /\ UNCHANGED <<ended, excused>>
         \/ /\ excused' = excused \cup ({thread} \cap Call) /\ UNCHANGED <<timers, changes, ended>>
      /\ UNCHANGED <<born, alive, near, handled, enabled, outbox, fired, inbox, running, ids, peer,
                     rep, network, heard>>
  BY ResumeTimerIs
<1>2. due \in Seq(Timer) /\ timers \in Seq(Timer)
  BY TypesGive DEF WorldTypes
<1>3. /\ due' \in Seq(Timer) /\ Head(due) = due[1] /\ DOMAIN due = 1..Len(due) /\ Len(due) \in Nat \ {0}
      /\ DOMAIN due' = 1..(Len(due) - 1) /\ \A i \in 1..(Len(due) - 1) : due'[i] = due[i + 1]
  BY <1>1, <1>2, TailIs
<1>4. thread \in Thread
  BY <1>2, <1>3, TimerIs
<1> HIDE DEF thread
<1>5. ended' \subseteq Call /\ excused' \subseteq Call
  BY <1>1, TypesGive DEF WorldTypes
<1>6. /\ timers' \in Seq(Timer) /\ Timed(timers') /\ Sorted(timers') /\ NotBefore(timers', Soonest)
      /\ Threads(timers) \subseteq Threads(timers')
  <2>1. CASE timers' = timers
    BY <1>2, <2>1 DEF TimersFit
  <2>2. ASSUME NEW wait \in Waits, timers' = InsertTimer(timers, thread, wait)
        PROVE  /\ timers' \in Seq(Timer) /\ Timed(timers') /\ Sorted(timers') /\ NotBefore(timers', Soonest)
               /\ Threads(timers') = Threads(timers) \cup {thread}
    <3>1. wait \in Nat /\ Timed(timers) /\ Sorted(timers) /\ NotBefore(timers, Soonest)
      BY RemoteAssumption DEF TimersFit
    <3> QED
      BY <1>2, <1>4, <2>2, <3>1, InsertTimerIs, SoonestOne
  <2> QED
    BY <1>1, <2>1, <2>2
<1>7. changes' \in Nat
  BY <1>1, TypesGive DEF WorldTypes
<1>8. WorldTypes'
  BY <1>1, <1>3, <1>5, <1>6, <1>7, TypesGive DEF WorldTypes
<1>9. WireTypes'
  BY <1>1, TypesGive DEF WireTypes, network
<1>10. \A i \in DOMAIN due' : i + 1 \in DOMAIN due /\ due'[i] = due[i + 1] /\ i \in Int
  BY <1>3
<1>11. TimersFit'
  <2>1. \A i \in DOMAIN due' : due'[i].since = due'[i].asked
    BY <1>10 DEF TimersFit
  <2>2. \A i, j \in DOMAIN due' : i < j => due'[i].since >= due'[j].since
    <3> SUFFICES ASSUME NEW i \in DOMAIN due', NEW j \in DOMAIN due', i < j
                 PROVE  due'[i].since >= due'[j].since
      OBVIOUS
    <3>1. i + 1 \in DOMAIN due /\ j + 1 \in DOMAIN due /\ i + 1 < j + 1
      BY <1>10
    <3>2. due[i + 1].since >= due[j + 1].since
      BY <3>1 DEF TimersFit
    <3> QED
      BY <1>10, <3>2
  <2>3. Soonest' = Soonest
    BY <1>1, SoonestIs
  <2> QED
    BY <1>6, <2>1, <2>2, <2>3 DEF TimersFit
<1>12. Threads(due) \subseteq Threads(due') \cup {thread}
  <2>1. ASSUME NEW i \in DOMAIN due PROVE due[i].thread \in Threads(due') \cup {thread}
    <3>1. CASE i = 1
      BY <1>3, <3>1 DEF thread
    <3>2. CASE i # 1
      <4>1. i - 1 \in DOMAIN due' /\ due'[i - 1] = due[i]
        BY <1>3, <3>2
      <4> QED
        BY <4>1 DEF Threads
    <3> QED
      BY <3>1, <3>2
  <2> QED
    BY <2>1 DEF Threads
<1>13. \/ ended' = ended \cup ({thread} \cap Call) /\ excused' = excused
       \/ thread \in Threads(timers') /\ ended' = ended /\ excused' = excused
       \/ excused' = excused \cup ({thread} \cap Call) /\ ended' = ended
  <2>1. ASSUME NEW wait \in Waits, timers' = InsertTimer(timers, thread, wait) PROVE thread \in Threads(timers')
    <3>1. wait \in Nat /\ Timed(timers) /\ Sorted(timers) /\ NotBefore(timers, Soonest)
      BY RemoteAssumption DEF TimersFit
    <3>2. Threads(timers') = Threads(timers) \cup {thread}
      BY <1>2, <1>4, <2>1, <3>1, InsertTimerIs, SoonestOne
    <3> QED
      BY <3>2
  <2> QED
    BY <1>1, <2>1
<1> QED
  BY <1>1, <1>4, <1>6, <1>8, <1>9, <1>11, <1>12, <1>13 DEF Types, thread

\* What the scripts do between two resumptions changes one or two of their lists.
LEMMA FireClientTypes ==
    ASSUME Types, NEW e \in Event, FireClient(e)
    PROVE  LET m == [remote |-> e, call |-> 0, n |-> fired + 1, waited |-> 0]
           IN  /\ Types' /\ m \in Message /\ outbox' = Append(outbox, m) /\ fired' = fired + 1
               /\ UNCHANGED <<born, alive, near, handled, enabled, timers, changes, excused>>
               /\ UNCHANGED <<tick, ids, peer, rep, network, heard>>
<1> DEFINE m == [remote |-> e, call |-> 0, n |-> fired + 1, waited |-> 0]
<1>1. /\ outbox' = Append(outbox, m) /\ fired' = fired + 1
      /\ UNCHANGED <<born, alive, near, handled, enabled, timers, changes, excused>>
      /\ UNCHANGED <<tick, ids, peer, rep, network, heard>>
  BY DEF FireClient, BesideScript
<1>2. m \in Message /\ outbox \in Seq(Message)
  <2>1. fired + 1 \in Nat /\ outbox \in Seq(Message)
    BY TypesGive DEF WorldTypes
  <2> QED
    BY <2>1 DEF Message
<1> HIDE DEF m
<1>3. outbox' \in Seq(Message)
  BY <1>1, <1>2, AppendIs
<1>4. WorldTypes'
  BY <1>1, <1>3, TypesGive DEF WorldTypes, tick
<1>5. WireTypes'
  BY <1>1, TypesGive DEF WireTypes, network
<1> QED
  BY <1>1, <1>2, <1>4, <1>5 DEF Types, m

LEMMA DelayTypes ==
    ASSUME Types, TimersFit, NEW wait \in Waits, Delay(wait)
    PROVE  /\ Types' /\ TimersFit' /\ Threads(timers) \subseteq Threads(timers') /\ due' = due
           /\ UNCHANGED <<born, alive, near, handled, enabled, outbox, fired, excused>>
           /\ UNCHANGED <<tick, ids, peer, rep, network, heard>>
<1>1. /\ timers' = InsertTimer(timers, Delayed, wait) /\ changes' = changes + 1
      /\ UNCHANGED <<born, alive, near, handled, enabled, outbox, fired, excused>>
      /\ UNCHANGED <<tick, ids, peer, rep, network, heard>>
  BY DEF Delay, BesideScript, Changing
<1>2. /\ timers' \in Seq(Timer) /\ Timed(timers') /\ Sorted(timers') /\ NotBefore(timers', Soonest)
      /\ Threads(timers') = Threads(timers) \cup {Delayed}
  <2>1. timers \in Seq(Timer) /\ Timed(timers) /\ Sorted(timers) /\ NotBefore(timers, Soonest)
    BY TypesGive DEF WorldTypes, TimersFit
  <2>2. Delayed \in Thread /\ wait \in Nat
    BY RemoteAssumption
  <2> QED
    BY <1>1, <2>1, <2>2, InsertTimerIs, SoonestOne
<1>3. WorldTypes'
  BY <1>1, <1>2, TypesGive DEF WorldTypes, tick
<1>4. WireTypes'
  BY <1>1, TypesGive DEF WireTypes, network
<1>5. due' = due /\ Soonest' = Soonest
  BY <1>1, SoonestIs DEF tick
<1> QED
  BY <1>1, <1>2, <1>3, <1>4, <1>5 DEF Types, TimersFit

LEMMA CancelTypes ==
    ASSUME Types, TimersFit, NEW thread \in Thread, Cancel(thread)
    PROVE  /\ Types' /\ TimersFit' /\ due' = due
           /\ Threads(timers) \subseteq Threads(timers') \cup {thread}
           /\ excused' = excused \cup ({thread} \cap Call)
           /\ UNCHANGED <<born, alive, near, handled, enabled, outbox, fired>>
           /\ UNCHANGED <<tick, ids, peer, rep, network, heard>>
<1>1. /\ timers' = Cancelled(timers, thread) /\ changes' = changes + 1 /\ thread \in Threads(timers)
      /\ excused' = excused \cup ({thread} \cap Call)
      /\ UNCHANGED <<born, alive, near, handled, enabled, outbox, fired>>
      /\ UNCHANGED <<tick, ids, peer, rep, network, heard>>
  BY DEF Cancel, BesideScript, Changing
<1>2. /\ timers' \in Seq(Timer) /\ Timed(timers') /\ Sorted(timers') /\ NotBefore(timers', Soonest)
      /\ Threads(timers) \subseteq Threads(timers') \cup {thread}
  <2>1. timers \in Seq(Timer) /\ Timed(timers) /\ Sorted(timers) /\ NotBefore(timers, Soonest)
    BY TypesGive DEF WorldTypes, TimersFit
  <2> QED
    BY <1>1, <2>1, CancelledIs, SoonestOne
<1>3. WorldTypes'
  BY <1>1, <1>2, TypesGive DEF WorldTypes, tick
<1>4. WireTypes'
  BY <1>1, TypesGive DEF WireTypes, network
<1>5. due' = due /\ Soonest' = Soonest
  BY <1>1, SoonestIs DEF tick
<1> QED
  BY <1>1, <1>2, <1>3, <1>4, <1>5 DEF Types, TimersFit

LEMMA WorldChangeTypes ==
    ASSUME Types, (\E r \in Remote : Create(r) \/ Destroy(r) \/ Move(r)) \/ SetHandler \/ SetEnabled
    PROVE  /\ Types' /\ excused \subseteq excused'
           /\ UNCHANGED <<timers, outbox, fired>> /\ UNCHANGED <<tick, ids, peer, rep, network, heard>>
           /\ Fn \in alive /\ Fn \notin alive' => rep.waiters \subseteq excused'
<1>1. /\ UNCHANGED <<timers, outbox, fired>> /\ UNCHANGED <<tick, ids, peer, rep, network, heard>>
      /\ changes' = changes + 1
  BY DEF Create, Destroy, Move, SetHandler, SetEnabled, BesideScript, Changing
<1>2. /\ born \subseteq Remote /\ alive \subseteq born /\ near \subseteq Remote /\ handled \in BOOLEAN /\ enabled \in BOOLEAN
      /\ excused \subseteq Call /\ rep.waiters \subseteq Call
  BY TypesGive, RepIs DEF WorldTypes
<1>3. /\ born' \subseteq Remote /\ alive' \subseteq born' /\ near' \subseteq Remote /\ handled' \in BOOLEAN
      /\ enabled' \in BOOLEAN /\ excused' \subseteq Call /\ excused \subseteq excused'
      /\ Fn \in alive /\ Fn \notin alive' => rep.waiters \subseteq excused'
  <2>1. ASSUME NEW r \in Remote, Create(r)
        PROVE  /\ born' = born \cup {r} /\ alive' = alive \cup {r} /\ UNCHANGED <<near, handled, enabled, excused>>
    BY <2>1 DEF Create, BesideScript
  <2>2. ASSUME NEW r \in Remote, Destroy(r)
        PROVE  /\ alive' = alive \ {r} /\ UNCHANGED <<born, near, handled, enabled>>
               /\ excused' = IF r = Fn THEN excused \cup rep.waiters ELSE excused
    BY <2>2 DEF Destroy, BesideScript
  <2>3. ASSUME NEW r \in Remote, Move(r)
        PROVE  /\ near' = (near \cup {r}) \ (near \cap {r}) /\ UNCHANGED <<born, alive, handled, enabled, excused>>
    BY <2>3 DEF Move, BesideScript
  <2>4. ASSUME SetHandler
        PROVE  handled' = ~handled /\ UNCHANGED <<born, alive, near, enabled, excused>>
    BY <2>4 DEF SetHandler, BesideScript
  <2>5. ASSUME SetEnabled
        PROVE  enabled' = ~enabled /\ UNCHANGED <<born, alive, near, handled, excused>>
    BY <2>5 DEF SetEnabled, BesideScript
  <2>6. CASE \E r \in Remote : Create(r)
    <3>1. PICK r \in Remote : Create(r)
      BY <2>6
    <3> QED
      BY <1>2, <2>1, <3>1
  <2>7. CASE \E r \in Remote : Destroy(r)
    <3>1. PICK r \in Remote : Destroy(r)
      BY <2>7
    <3> QED
      BY <1>2, <2>2, <3>1
  <2>8. CASE \E r \in Remote : Move(r)
    <3>1. PICK r \in Remote : Move(r)
      BY <2>8
    <3> QED
      BY <1>2, <2>3, <3>1
  <2>9. CASE SetHandler
    BY <1>2, <2>4, <2>9
  <2>10. CASE SetEnabled
    BY <1>2, <2>5, <2>10
  <2> QED
    BY <2>6, <2>7, <2>8, <2>9, <2>10
<1>4. WorldTypes'
  BY <1>1, <1>3, TypesGive DEF WorldTypes, tick
<1>5. WireTypes'
  BY <1>1, TypesGive DEF WireTypes, network
<1> QED
  BY <1>1, <1>3, <1>4, <1>5 DEF Types

\* A peer at the end of a tick: what it knows and what it holds are new.
LEMMA PeerAfter ==
    ASSUME Types, NEW capture \in BOOLEAN, TickEnds(capture)
    PROVE  /\ peer' \in PeerType /\ peer'.welcomed = peer.welcomed /\ peer'.player = peer.player
           /\ peer.welcomed => /\ peer'.known = KnownNow(capture)
                               /\ peer'.held = Left(capture) \o Later(capture)
           /\ ~peer.welcomed => peer' = peer
<1>1. peer' = IF peer.welcomed
              THEN [peer EXCEPT !.known = KnownNow(capture), !.held = Left(capture) \o Later(capture)]
              ELSE peer
  BY TickEndsIs
<1>2. /\ Left(capture) \in Seq(Message) /\ Later(capture) \in Seq(Message)
      /\ KnownNow(capture) \in SUBSET Remote
  BY TickLists, TickCuts
<1> DEFINE held == Left(capture) \o Later(capture)
           known == KnownNow(capture)
           p == [peer EXCEPT !.known = known]
           n == [p EXCEPT !.held = held]
<1>3. held \in Seq(Message) /\ known \in SUBSET Remote
  BY <1>2, ConcatIs
<1>4. peer \in PeerType
  BY TypesGive
<1> HIDE DEF held, known
<1>5. p \in PeerType /\ p.welcomed = peer.welcomed /\ p.player = peer.player /\ p.known = known
  BY <1>3, <1>4 DEF PeerType
<1> HIDE DEF p
<1>6. /\ n \in PeerType /\ n.welcomed = p.welcomed /\ n.player = p.player /\ n.known = p.known
      /\ n.held = held
  BY <1>3, <1>5 DEF PeerType
<1>7. peer' = IF peer.welcomed THEN n ELSE peer
  BY <1>1 DEF held, known, p
<1> HIDE DEF n
<1>8. peer.welcomed \in BOOLEAN
  BY <1>4, PeerIs
<1>9. CASE peer.welcomed
  <2>1. peer' = n
    BY <1>7, <1>9
  <2> QED
    BY <1>5, <1>6, <1>9, <2>1 DEF held, known
<1>10. CASE ~peer.welcomed
  <2>1. peer' = peer
    BY <1>7, <1>10
  <2> QED
    BY <1>4, <1>10, <2>1
<1> QED
  BY <1>8, <1>9, <1>10

LEMMA TickEndsTypes ==
    ASSUME Types, NEW capture \in BOOLEAN, TickEnds(capture)
    PROVE  Types' /\ outbox' \in Seq(Message) /\ Alike(outbox', Again(capture))
<1>1. /\ phase' = "idle" /\ ids' = Numbered(capture)
      /\ outbox' = [i \in DOMAIN Again(capture) |-> [Again(capture)[i] EXCEPT !.waited = @ + 1]]
      /\ toRep' = IF up /\ Here(rep.conn) THEN toRep \o Outgoing(capture) ELSE toRep
      /\ excused' = IF peer.welcomed THEN excused \cup (Discarded(capture) \cap Call) ELSE excused
      /\ UNCHANGED <<born, alive, near, handled, enabled, timers, fired, changes, inbox, running, ended,
                     due, rep, up, toAuth, heard>>
  BY TickEndsIs
<1>2. Numbered(capture) \in SUBSET Remote /\ Again(capture) \in Seq(Message)
  BY TickLists
<1>3. outbox' \in Seq(Message) /\ Alike(outbox', Again(capture))
  BY <1>1, <1>2, WaitedOnce
<1>4. toRep' \in Seq(ToRep)
  <2>1. toRep \in Seq(ToRep) /\ Outgoing(capture) \in Seq(ToRep)
    BY TypesGive, OutgoingIs DEF WireTypes
  <2>2. toRep \o Outgoing(capture) \in Seq(ToRep)
    BY <2>1, ConcatIs
  <2> QED
    BY <1>1, <2>1, <2>2
<1>5. excused' \subseteq Call
  BY <1>1, TypesGive DEF WorldTypes
<1>6. peer' \in PeerType
  BY PeerAfter
<1>7. WorldTypes'
  BY <1>1, <1>2, <1>3, <1>5, TypesGive DEF WorldTypes
<1>8. WireTypes'
  BY <1>1, <1>4, <1>6, TypesGive DEF WireTypes
<1> QED
  BY <1>3, <1>7, <1>8 DEF Types

\* One message changes little of the replica.
LEMMA ReplicaReceiveIs ==
    ASSUME Types, ReplicaReceive
    PROVE  LET m == Head(toRep)
           IN  /\ toRep # <<>> /\ toRep' = Tail(toRep) /\ m \in ToRep
               /\ UNCHANGED <<scripts, tick, ids, peer, up, toAuth, heard, excused>>
               /\ rep' \in RepType /\ rep'.conn = rep.conn /\ rep'.outbox = rep.outbox
               /\ rep'.next = rep.next /\ rep'.waiters = rep.waiters
               /\ rep'.lost = (rep.lost \/ m.kind = "Gone")
               /\ rep'.welcomed = ((rep.welcomed \/ m.kind = "Welcome") /\ m.kind # "Gone")
               /\ rep'.life = IF m.kind = "Welcome" THEN rep.conn ELSE rep.life
               /\ rep'.locals = CASE m.kind = "Welcome" -> {}
                                  [] m.kind = "Spawn"   -> rep.locals \cup m.ids
                                  [] m.kind = "Despawn" -> rep.locals \ m.ids
                                  [] OTHER -> rep.locals
               /\ m.kind \in {"Fired", "Answer"} => m \in Sent
               /\ rep'.inbox = IF m.kind \in {"Fired", "Answer"} /\ m.remote \in rep.locals
                               THEN Append(rep.inbox, m) ELSE rep.inbox
<1> DEFINE m == Head(toRep)
<1>1. /\ toRep # <<>> /\ toRep' = Tail(toRep) /\ rep' = Received(m)
      /\ UNCHANGED <<scripts, tick, ids, peer, up, toAuth, heard, excused>>
  BY DEF ReplicaReceive
<1>2. toRep \in Seq(ToRep) /\ rep \in RepType
  BY TypesGive DEF WireTypes
<1>3. m \in ToRep
  BY <1>1, <1>2, TailIs
<1> HIDE DEF m
<1>4. /\ m.kind \in {"Fired", "Answer", "Spawn", "Despawn", "Gone", "Welcome"}
      /\ m.kind \in {"Fired", "Answer"} => m \in Sent
      /\ m.kind \in {"Spawn", "Despawn"} => m.ids \in SUBSET Remote
  BY <1>3, ToRepIs
<1>5. rep.lost \in BOOLEAN /\ rep.welcomed \in BOOLEAN /\ rep.inbox \in Seq(Sent) /\ rep.conn \in Nat
  BY <1>2, RepIs
<1>6. CASE m.kind = "Gone"
  <2> DEFINE r == [rep EXCEPT !.lost = TRUE]
  <2>1. rep' = [r EXCEPT !.welcomed = FALSE]
    BY <1>1, <1>6 DEF Received
  <2>2. /\ r \in RepType /\ r.conn = rep.conn /\ r.outbox = rep.outbox /\ r.next = rep.next
        /\ r.waiters = rep.waiters /\ r.lost = TRUE /\ r.life = rep.life /\ r.locals = rep.locals
        /\ r.inbox = rep.inbox
    BY <1>2 DEF RepType
  <2> HIDE DEF r
  <2>3. /\ rep' \in RepType /\ rep'.conn = r.conn /\ rep'.outbox = r.outbox /\ rep'.next = r.next
        /\ rep'.waiters = r.waiters /\ rep'.lost = r.lost /\ rep'.life = r.life /\ rep'.locals = r.locals
        /\ rep'.inbox = r.inbox /\ rep'.welcomed = FALSE
    BY <2>1, <2>2 DEF RepType
  <2> QED
    BY <1>1, <1>3, <1>4, <1>6, <2>2, <2>3 DEF m
<1>7. CASE m.kind = "Welcome"
  <2> DEFINE r == [rep EXCEPT !.welcomed = TRUE]
             q == [r EXCEPT !.life = rep.conn]
  <2>1. rep' = [q EXCEPT !.locals = {}]
    BY <1>1, <1>7 DEF Received
  <2>2. /\ r \in RepType /\ r.conn = rep.conn /\ r.outbox = rep.outbox /\ r.next = rep.next
        /\ r.waiters = rep.waiters /\ r.lost = rep.lost /\ r.welcomed = TRUE
        /\ r.inbox = rep.inbox
    BY <1>2 DEF RepType
  <2> HIDE DEF r
  <2>3. /\ q \in RepType /\ q.conn = r.conn /\ q.outbox = r.outbox /\ q.next = r.next
        /\ q.waiters = r.waiters /\ q.lost = r.lost /\ q.welcomed = r.welcomed /\ q.life = rep.conn
        /\ q.inbox = r.inbox
    BY <1>5, <2>2 DEF RepType
  <2> HIDE DEF q
  <2>4. /\ rep' \in RepType /\ rep'.conn = q.conn /\ rep'.outbox = q.outbox /\ rep'.next = q.next
        /\ rep'.waiters = q.waiters /\ rep'.lost = q.lost /\ rep'.life = q.life /\ rep'.locals = {}
        /\ rep'.inbox = q.inbox /\ rep'.welcomed = q.welcomed
    BY <2>1, <2>3 DEF RepType
  <2> QED
    BY <1>1, <1>3, <1>4, <1>5, <1>7, <2>2, <2>3, <2>4 DEF m
<1>8. CASE m.kind \in {"Spawn", "Despawn"}
  <2> DEFINE l == IF m.kind = "Spawn" THEN rep.locals \cup m.ids ELSE rep.locals \ m.ids
  <2>1. rep' = [rep EXCEPT !.locals = l]
    BY <1>1, <1>8 DEF Received
  <2>2. l \in SUBSET Remote
    BY <1>2, <1>4, <1>8, RepIs
  <2>3. l = CASE m.kind = "Welcome" -> {}
              [] m.kind = "Spawn"   -> rep.locals \cup m.ids
              [] m.kind = "Despawn" -> rep.locals \ m.ids
              [] OTHER -> rep.locals
    BY <1>8
  <2> HIDE DEF l
  <2>4. /\ rep' \in RepType /\ rep'.conn = rep.conn /\ rep'.outbox = rep.outbox /\ rep'.next = rep.next
        /\ rep'.waiters = rep.waiters /\ rep'.lost = rep.lost /\ rep'.life = rep.life /\ rep'.locals = l
        /\ rep'.inbox = rep.inbox /\ rep'.welcomed = rep.welcomed
    BY <1>2, <2>1, <2>2 DEF RepType
  <2> QED
    BY <1>1, <1>3, <1>4, <1>5, <1>8, <2>3, <2>4 DEF m
<1>9. CASE m.kind \in {"Fired", "Answer"}
  <2>1. m \in Sent
    BY <1>4, <1>9
  <2> DEFINE b == Append(rep.inbox, m)
  <2>2. rep' = IF m.remote \in rep.locals THEN [rep EXCEPT !.inbox = b] ELSE rep
    BY <1>1, <1>9 DEF Received
  <2>3. b \in Seq(Sent)
    BY <1>5, <2>1, AppendIs
  <2>4. b = Append(rep.inbox, m)
    OBVIOUS
  <2> HIDE DEF b
  <2>5. /\ rep' \in RepType /\ rep'.conn = rep.conn /\ rep'.outbox = rep.outbox /\ rep'.next = rep.next
        /\ rep'.waiters = rep.waiters /\ rep'.lost = rep.lost /\ rep'.life = rep.life
        /\ rep'.locals = rep.locals /\ rep'.welcomed = rep.welcomed
        /\ rep'.inbox = IF m.remote \in rep.locals THEN b ELSE rep.inbox
    BY <1>2, <2>2, <2>3 DEF RepType
  <2> QED
    BY <1>1, <1>3, <1>4, <1>5, <1>9, <2>4, <2>5 DEF m
<1> QED
  BY <1>4, <1>6, <1>7, <1>8, <1>9

LEMMA ReplicaReceiveTypes ==
    ASSUME Types, ReplicaReceive PROVE Types'
<1>1. /\ toRep # <<>> /\ toRep' = Tail(toRep)
      /\ UNCHANGED <<scripts, tick, ids, peer, up, toAuth, heard, excused>>
      /\ rep' \in RepType /\ rep'.next = rep.next /\ rep'.waiters = rep.waiters
  BY ReplicaReceiveIs
<1>2. toRep' \in Seq(ToRep)
  BY <1>1, TypesGive, TailIs DEF WireTypes
<1>3. WorldTypes'
  BY <1>1, TypesGive DEF WorldTypes, scripts, tick
<1>4. WireTypes'
  BY <1>1, <1>2, TypesGive DEF WireTypes
<1> QED
  BY <1>3, <1>4 DEF Types

\* The stages of a replica's tick.
Queued(asks)  == IF asks THEN Append(rep.outbox, [call |-> rep.next, life |-> rep.life, waited |-> 0])
                 ELSE rep.outbox
Parks(asks)  == {i \in DOMAIN Queued(asks) : ~rep.welcomed /\ Queued(asks)[i].waited < MaxHeld}
Goes(asks)    == {i \in DOMAIN Queued(asks) : rep.welcomed /\ Queued(asks)[i].life = rep.life
                                              /\ Fn \in rep.locals}
Staying(asks) == LET wait == Sublist(Queued(asks), Parks(asks))
                 IN  [i \in DOMAIN wait |-> [wait[i] EXCEPT !.waited = @ + 1]]
Asked(asks)   == LET sends == Sublist(Queued(asks), Goes(asks))
                 IN  [i \in DOMAIN sends |-> [kind |-> "Question", call |-> sends[i].call]]

LEMMA WaitingIs ==
    ASSUME NEW m \in Waiting
    PROVE  m.call \in Call /\ m.life \in Nat /\ m.waited \in Nat
  BY DEF Waiting

LEMMA QueuedIs ==
    ASSUME Types, NEW asks \in BOOLEAN, asks => rep.next \in Call
    PROVE  /\ Queued(asks) \in Seq(Waiting)
           /\ Parks(asks) \in SUBSET DOMAIN Queued(asks) /\ Goes(asks) \in SUBSET DOMAIN Queued(asks)
           /\ Staying(asks) \in Seq(Waiting)
           /\ DOMAIN Staying(asks) = DOMAIN Sublist(Queued(asks), Parks(asks))
           /\ \A i \in DOMAIN Staying(asks) : Staying(asks)[i].call = Sublist(Queued(asks), Parks(asks))[i].call
           /\ Asked(asks) \in Seq(ToAuth)
           /\ DOMAIN Asked(asks) = DOMAIN Sublist(Queued(asks), Goes(asks))
           /\ \A i \in DOMAIN Asked(asks) : /\ Asked(asks)[i].kind = "Question"
                                            /\ Asked(asks)[i].call = Sublist(Queued(asks), Goes(asks))[i].call
<1>1. rep.outbox \in Seq(Waiting) /\ rep.life \in Nat
  BY TypesGive, RepIs
<1>2. Queued(asks) \in Seq(Waiting)
  <2> DEFINE e == [call |-> rep.next, life |-> rep.life, waited |-> 0]
  <2>1. asks => e \in Waiting
    BY <1>1 DEF Waiting
  <2>2. Queued(asks) = IF asks THEN Append(rep.outbox, e) ELSE rep.outbox
    BY DEF Queued
  <2> HIDE DEF e
  <2> QED
    BY <1>1, <2>1, <2>2, AppendIs
<1>3. Parks(asks) \in SUBSET DOMAIN Queued(asks) /\ Goes(asks) \in SUBSET DOMAIN Queued(asks)
  BY DEF Parks, Goes
<1> DEFINE w == Sublist(Queued(asks), Parks(asks))
           g == Sublist(Queued(asks), Goes(asks))
           s == Staying(asks)
           a == Asked(asks)
<1>4. w \in Seq(Waiting) /\ g \in Seq(Waiting)
  BY <1>2, <1>3, SublistIn
<1>5. s = [i \in DOMAIN w |-> [w[i] EXCEPT !.waited = @ + 1]]
  BY DEF Staying
<1>6. a = [i \in DOMAIN g |-> [kind |-> "Question", call |-> g[i].call]]
  BY DEF Asked
<1> HIDE DEF w, g, s, a
<1>7. /\ Len(w) \in Nat /\ DOMAIN w = 1..Len(w) /\ \A i \in DOMAIN w : w[i] \in Waiting
      /\ Len(g) \in Nat /\ DOMAIN g = 1..Len(g) /\ \A i \in DOMAIN g : g[i] \in Waiting
  BY <1>4, LenProperties
<1>8. ASSUME NEW i \in DOMAIN w
      PROVE  [w[i] EXCEPT !.waited = @ + 1] \in Waiting /\ [w[i] EXCEPT !.waited = @ + 1].call = w[i].call
  <2>1. w[i] \in Waiting
    BY <1>7
  <2> QED
    BY <2>1 DEF Waiting
<1>9. ASSUME NEW i \in DOMAIN g
      PROVE  [kind |-> "Question", call |-> g[i].call] \in ToAuth
  <2>1. g[i].call \in Call
    BY <1>7, WaitingIs
  <2> QED
    BY <2>1 DEF ToAuth
<1>10. s \in Seq(Waiting) /\ DOMAIN s = DOMAIN w /\ \A i \in DOMAIN w : s[i].call = w[i].call
  <2> DEFINE e(i) == [w[i] EXCEPT !.waited = @ + 1]
  <2>1. \A i \in DOMAIN w : e(i) \in Waiting /\ e(i).call = w[i].call
    BY <1>8
  <2>2. s = [i \in DOMAIN w |-> e(i)]
    BY <1>5
  <2> HIDE DEF e
  <2>3. DOMAIN s = DOMAIN w /\ \A i \in DOMAIN w : s[i] = e(i)
    BY <2>2
  <2>4. s \in Seq(Waiting)
    BY <1>7, <2>1, <2>2
  <2> QED
    BY <2>1, <2>3, <2>4
<1>11. a \in Seq(ToAuth) /\ DOMAIN a = DOMAIN g /\ \A i \in DOMAIN g : a[i].kind = "Question" /\ a[i].call = g[i].call
  BY <1>6, <1>7, <1>9
<1> QED
  BY <1>2, <1>3, <1>10, <1>11 DEF w, g, s, a

\* What is heard is what was fired, and has no kind any more.
HeardFrom(msgs) == Sublist(msgs, Kind(msgs, "Fired"))
LEMMA HeardIs ==
    ASSUME NEW msgs \in Seq(Sent)
    PROVE  /\ Kind(msgs, "Fired") \in SUBSET DOMAIN msgs
           /\ Heard(msgs) \in Seq([remote : Event, n : Nat])
           /\ DOMAIN Heard(msgs) = DOMAIN HeardFrom(msgs)
           /\ \A i \in DOMAIN Heard(msgs) : /\ Heard(msgs)[i].remote = HeardFrom(msgs)[i].remote
                                            /\ Heard(msgs)[i].n = HeardFrom(msgs)[i].n
<1> DEFINE I == Kind(msgs, "Fired")
           e == HeardFrom(msgs)
           h == Heard(msgs)
<1>1. I \in SUBSET DOMAIN msgs /\ \A i \in I : msgs[i].kind = "Fired" /\ msgs[i] \in Sent
  BY DEF Kind
<1>2. e = Sublist(msgs, I)
  BY DEF HeardFrom
<1>3. h = [i \in DOMAIN e |-> [remote |-> e[i].remote, n |-> e[i].n]]
  BY DEF Heard, HeardFrom
<1> HIDE DEF I, e, h
<1>4. e \in Seq(Sent) /\ Len(e) \in Nat /\ DOMAIN e = 1..Len(e)
  BY <1>1, <1>2, SublistIn
<1>5. ASSUME NEW i \in DOMAIN e
      PROVE  [remote |-> e[i].remote, n |-> e[i].n] \in [remote : Event, n : Nat]
  <2>1. Place(I, i) \in I /\ e[i] = msgs[Place(I, i)]
    BY <1>1, <1>2, SublistFrom
  <2>2. e[i].remote \in Event /\ e[i].n \in Nat
    BY <1>1, <2>1, SentIs
  <2> QED
    BY <2>2
<1>6. h \in Seq([remote : Event, n : Nat]) /\ DOMAIN h = DOMAIN e
  BY <1>3, <1>4, <1>5
<1>7. \A i \in DOMAIN e : h[i].remote = e[i].remote /\ h[i].n = e[i].n
  BY <1>3
<1> QED
  BY <1>1, <1>6, <1>7 DEF I, e, h

LEMMA ReplicaTickIs ==
    ASSUME Types, NEW asks \in BOOLEAN, ReplicaTick(asks)
    PROVE  /\ asks => rep.next \in Call /\ Fn \in rep.locals
           /\ heard' = heard \o Heard(rep.inbox)
           /\ rep' \in RepType /\ rep'.conn = rep.conn /\ rep'.life = rep.life
           /\ rep'.welcomed = rep.welcomed /\ rep'.lost = rep.lost /\ rep'.locals = rep.locals
           /\ rep'.inbox = <<>> /\ rep'.outbox = Staying(asks)
           /\ rep'.next = (IF asks THEN rep.next + 1 ELSE rep.next)
           /\ rep'.waiters = (rep.waiters \ Answered(rep.inbox)) \cup (IF asks THEN {rep.next} ELSE {})
           /\ toAuth' = IF up THEN toAuth \o Asked(asks) ELSE toAuth
           /\ excused' = IF asks /\ ~(up /\ rep.welcomed /\ Fn \in alive) THEN excused \cup {rep.next}
                         ELSE excused
           /\ UNCHANGED <<scripts, tick, ids, peer, up, toRep>>
<1> DEFINE next == IF asks THEN rep.next + 1 ELSE rep.next
           waiters == (rep.waiters \ Answered(rep.inbox)) \cup (IF asks THEN {rep.next} ELSE {})
           x == [rep EXCEPT !.inbox = <<>>]
           y == [x EXCEPT !.outbox = Staying(asks)]
           z == [y EXCEPT !.next = next]
           r == [z EXCEPT !.waiters = waiters]
<1>1. /\ asks => rep.next \in Call /\ Fn \in rep.locals
      /\ heard' = heard \o Heard(rep.inbox)
      /\ rep' = [rep EXCEPT !.inbox = <<>>, !.outbox = Staying(asks),
                            !.next = IF asks THEN @ + 1 ELSE @,
                            !.waiters = (@ \ Answered(rep.inbox)) \cup (IF asks THEN {rep.next} ELSE {})]
      /\ toAuth' = IF up THEN toAuth \o Asked(asks) ELSE toAuth
      /\ excused' = IF asks /\ ~(up /\ rep.welcomed /\ Fn \in alive) THEN excused \cup {rep.next}
                    ELSE excused
      /\ UNCHANGED <<scripts, tick, ids, peer, up, toRep>>
  BY DEF ReplicaTick, Staying, Asked, Queued, Parks, Goes
<1>2. rep \in RepType /\ rep.next \in Nat \ {0} /\ rep.waiters \in SUBSET Call
  BY TypesGive, RepIs
<1>3. Staying(asks) \in Seq(Waiting)
  BY <1>1, QueuedIs
<1>4. next \in Nat \ {0} /\ waiters \in SUBSET Call
  BY <1>1, <1>2
<1>5. rep' = r
  BY <1>1
<1>6. next = (IF asks THEN rep.next + 1 ELSE rep.next)
  OBVIOUS
<1>7. waiters = (rep.waiters \ Answered(rep.inbox)) \cup (IF asks THEN {rep.next} ELSE {})
  OBVIOUS
<1> HIDE DEF next, waiters
<1>8. /\ x \in RepType /\ x.conn = rep.conn /\ x.life = rep.life /\ x.welcomed = rep.welcomed /\ x.lost = rep.lost
      /\ x.locals = rep.locals /\ x.inbox = <<>>
  <2>1. <<>> \in Seq(Sent)
    OBVIOUS
  <2> QED
    BY <1>2, <2>1 DEF RepType
<1> HIDE DEF x
<1>9. /\ y \in RepType /\ y.conn = x.conn /\ y.life = x.life /\ y.welcomed = x.welcomed /\ y.lost = x.lost
      /\ y.locals = x.locals /\ y.inbox = x.inbox /\ y.outbox = Staying(asks)
  BY <1>3, <1>8 DEF RepType
<1> HIDE DEF y
<1>10. /\ z \in RepType /\ z.conn = y.conn /\ z.life = y.life /\ z.welcomed = y.welcomed /\ z.lost = y.lost
       /\ z.locals = y.locals /\ z.inbox = y.inbox /\ z.outbox = y.outbox /\ z.next = next
  BY <1>4, <1>9 DEF RepType
<1> HIDE DEF z
<1>11. /\ r \in RepType /\ r.conn = z.conn /\ r.life = z.life /\ r.welcomed = z.welcomed /\ r.lost = z.lost
       /\ r.locals = z.locals /\ r.inbox = z.inbox /\ r.outbox = z.outbox /\ r.next = z.next
       /\ r.waiters = waiters
  BY <1>4, <1>10 DEF RepType
<1> HIDE DEF r
<1> QED
  BY <1>1, <1>5, <1>6, <1>7, <1>8, <1>9, <1>10, <1>11

LEMMA ReplicaTickTypes ==
    ASSUME Types, NEW asks \in BOOLEAN, ReplicaTick(asks) PROVE Types'
<1>1. /\ asks => rep.next \in Call
      /\ heard' = heard \o Heard(rep.inbox) /\ rep' \in RepType
      /\ rep'.next = (IF asks THEN rep.next + 1 ELSE rep.next)
      /\ rep'.waiters = (rep.waiters \ Answered(rep.inbox)) \cup (IF asks THEN {rep.next} ELSE {})
      /\ toAuth' = IF up THEN toAuth \o Asked(asks) ELSE toAuth
      /\ excused' = IF asks /\ ~(up /\ rep.welcomed /\ Fn \in alive) THEN excused \cup {rep.next}
                    ELSE excused
      /\ UNCHANGED <<scripts, tick, ids, peer, up, toRep>>
  BY ReplicaTickIs
<1>2. heard' \in Seq([remote : Event, n : Nat])
  <2>1. rep.inbox \in Seq(Sent) /\ heard \in Seq([remote : Event, n : Nat])
    BY TypesGive, RepIs DEF WireTypes
  <2>2. Heard(rep.inbox) \in Seq([remote : Event, n : Nat])
    BY <2>1, HeardIs
  <2> QED
    BY <1>1, <2>1, <2>2, ConcatIs
<1>3. toAuth' \in Seq(ToAuth)
  <2>1. toAuth \in Seq(ToAuth) /\ Asked(asks) \in Seq(ToAuth)
    BY <1>1, TypesGive, QueuedIs DEF WireTypes
  <2>2. toAuth \o Asked(asks) \in Seq(ToAuth)
    BY <2>1, ConcatIs
  <2> QED
    BY <1>1, <2>1, <2>2
<1>4. \A c \in rep'.waiters : c < rep'.next
  <2>1. rep.next \in Nat /\ rep.waiters \in SUBSET Nat /\ \A c \in rep.waiters : c < rep.next
    BY TypesGive, RepIs, CallsAre DEF WireTypes
  <2> QED
    BY <1>1, <2>1
<1>5. WorldTypes'
  BY <1>1, TypesGive DEF WorldTypes, scripts, tick
<1>6. WireTypes'
  BY <1>1, <1>2, <1>3, <1>4, TypesGive DEF WireTypes
<1> QED
  BY <1>5, <1>6 DEF Types

-----------------------------------------------------------------------------
(* Waits are exact.                                                          *)

Base == Types /\ TimersFit

LEMMA BaseInit ==
    ASSUME Init PROVE Base
<1>1. Types
  BY TypesInit
<1>2. timers = <<>> /\ due = <<>>
  BY DEF Init
<1>3. TimersFit
  BY <1>2 DEF TimersFit, Timed, Sorted, NotBefore
<1> QED
  BY <1>1, <1>3 DEF Base

LEMMA SameTimers ==
    ASSUME TimersFit, UNCHANGED <<timers, due>>, phase' = phase \/ (phase # "inbox" /\ phase' # "inbox")
    PROVE  TimersFit'
<1>1. Soonest' = Soonest
  BY SoonestIs
<1> QED
  BY <1>1 DEF TimersFit

LEMMA BaseStep ==
    ASSUME Base, [Next]_vars PROVE Base'
<1> USE DEF Base
<1>1. CASE Dial
  <2>1. UNCHANGED <<timers, due, phase>>
    BY <1>1 DEF Dial, scripts, tick
  <2> QED
    BY <1>1, <2>1, DialTypes, SameTimers
<1>2. CASE Break
  <2>1. UNCHANGED <<timers, due, phase>>
    BY <1>2 DEF Break, tick
  <2> QED
    BY <1>2, <2>1, BreakTypes, SameTimers
<1>3. CASE Receives
  <2>1. PICK k \in 1..Len(toAuth) : AuthorityReceive(k)
    BY <1>3 DEF Receives
  <2>2. UNCHANGED <<timers, due, phase>>
    BY <2>1 DEF AuthorityReceive, scripts
  <2> QED
    BY <2>1, <2>2, ReceiveTypes, SameTimers
<1>4. CASE TickStarts
  BY <1>4, TickStartsTypes, TickStartsFit
<1>5. CASE Handles
  <2>1. PICK wait \in Waits : Handle(wait)
    BY <1>5 DEF Handles
  <2> QED
    BY <2>1, HandleTypes
<1>6. CASE TimersDue
  BY <1>6, TimersDueTypes
<1>7. CASE ResumeTimer
  BY <1>7, ResumeTimerTypes
<1>8. CASE Script
  <2>1. CASE \E e \in Event : FireClient(e)
    <3>1. PICK e \in Event : FireClient(e)
      BY <2>1
    <3>2. Types' /\ UNCHANGED <<timers, due, phase>>
      BY <3>1, FireClientTypes DEF tick
    <3> QED
      BY <3>2, SameTimers
  <2>2. CASE \E wait \in Waits : Delay(wait)
    <3>1. PICK wait \in Waits : Delay(wait)
      BY <2>2
    <3> QED
      BY <3>1, DelayTypes
  <2>3. CASE \E thread \in Thread : Cancel(thread)
    <3>1. PICK thread \in Thread : Cancel(thread)
      BY <2>3
    <3> QED
      BY <3>1, CancelTypes
  <2>4. CASE (\E r \in Remote : Create(r) \/ Destroy(r) \/ Move(r)) \/ SetHandler \/ SetEnabled
    <3>1. Types' /\ UNCHANGED <<timers, due, phase>>
      BY <2>4, WorldChangeTypes DEF tick
    <3> QED
      BY <3>1, SameTimers
  <2> QED
    BY <1>8, <2>1, <2>2, <2>3, <2>4 DEF Script
<1>9. CASE Ends
  <2>1. PICK capture \in BOOLEAN : TickEnds(capture)
    BY <1>9 DEF Ends
  <2>2. UNCHANGED <<timers, due>> /\ phase = "resume" /\ phase' = "idle"
    BY <2>1, TickEndsIs
  <2> QED
    BY <2>1, <2>2, TickEndsTypes, SameTimers
<1>10. CASE ReplicaReceive
  <2>1. UNCHANGED <<timers, due, phase>>
    BY <1>10, ReplicaReceiveIs DEF scripts, tick
  <2> QED
    BY <1>10, <2>1, ReplicaReceiveTypes, SameTimers
<1>11. CASE ReplicaTick(TRUE) \/ ReplicaTick(FALSE)
  <2>1. PICK asks \in BOOLEAN : ReplicaTick(asks)
    BY <1>11
  <2>2. UNCHANGED <<timers, due, phase>>
    BY <2>1, ReplicaTickIs DEF scripts, tick
  <2> QED
    BY <2>1, <2>2, ReplicaTickTypes, SameTimers
<1>12. CASE UNCHANGED vars
  <2>1. UNCHANGED <<timers, due, phase>> /\ Types'
    BY <1>12 DEF vars, scripts, tick, network, Types, WorldTypes, WireTypes
  <2> QED
    BY <2>1, SameTimers
<1> QED
  BY <1>1, <1>2, <1>3, <1>4, <1>5, <1>6, <1>7, <1>8, <1>9, <1>10, <1>11, <1>12 DEF Next

\* The invariant the other theorems rest on: what every variable holds, and that the
\* timers stand in the order they are due.
THEOREM BaseHolds == Spec => []Base
<1>1. Init => Base
  BY BaseInit
<1>2. Base /\ [Next]_vars => Base'
  BY BaseStep
<1> QED
  BY <1>1, <1>2, PTL DEF Spec

\* A thread is resumed in the tick that is exactly so many after the one it began to
\* wait in as it asked for, whether a handler of a message or the resumption of a timer
\* began the wait, and of those due together the one that began in an earlier tick is
\* first, whatever is inserted, cancelled and disabled in between (tasks.cpp,
\* insertTimer and resumeDueTimers, and the count of WorldHost::tick).
THEOREM WaitsAreExactHolds == Spec => []WaitsAreExact
<1>1. Base => WaitsAreExact
  BY DEF Base, TimersFit, WaitsAreExact
<1> QED
  BY <1>1, BaseHolds, PTL

-----------------------------------------------------------------------------
(* Order.  Of each list, the places that hold what was fired.                *)

Fires(s) == {i \in DOMAIN s : s[i].call = 0}

Ascends(s, I) == \A i, j \in I : i < j /\ s[i].remote = s[j].remote => s[i].n < s[j].n
Precede(s, I, t, J) == \A i \in I, j \in J : s[i].remote = t[j].remote => s[i].n < t[j].n
Until(s, I, f) == \A i \in I : s[i].n <= f

\* What is heard, in the replica's inbox, on the wire, waiting for the peer to know
\* its event, and in the authority's outbox, is one line in the order it was fired in.
Line(h, b, w, p, o, f) ==
    /\ Ascends(h, DOMAIN h) /\ Ascends(b, Kind(b, "Fired")) /\ Ascends(w, Kind(w, "Fired"))
    /\ Ascends(p, Fires(p)) /\ Ascends(o, Fires(o))
    /\ Precede(h, DOMAIN h, b, Kind(b, "Fired")) /\ Precede(h, DOMAIN h, w, Kind(w, "Fired"))
    /\ Precede(h, DOMAIN h, p, Fires(p)) /\ Precede(h, DOMAIN h, o, Fires(o))
    /\ Precede(b, Kind(b, "Fired"), w, Kind(w, "Fired"))
    /\ Precede(b, Kind(b, "Fired"), p, Fires(p)) /\ Precede(b, Kind(b, "Fired"), o, Fires(o))
    /\ Precede(w, Kind(w, "Fired"), p, Fires(p)) /\ Precede(w, Kind(w, "Fired"), o, Fires(o))
    /\ Precede(p, Fires(p), o, Fires(o))
    /\ Until(h, DOMAIN h, f) /\ Until(b, Kind(b, "Fired"), f) /\ Until(w, Kind(w, "Fired"), f)
    /\ Until(p, Fires(p), f) /\ Until(o, Fires(o), f)
Chain == Line(heard, rep.inbox, toRep, peer.held, outbox, fired)

\* The places J of t are some of the places I of s, in their order.
PartOf(t, J, s, I) ==
    /\ \A j \in J : \E i \in I : t[j].remote = s[i].remote /\ t[j].n = s[i].n
    /\ \A j, l \in J : j < l => \E i, k \in I : /\ i < k
                                                /\ t[j].remote = s[i].remote /\ t[j].n = s[i].n
                                                /\ t[l].remote = s[k].remote /\ t[l].n = s[k].n

LEMMA PartAscends ==
    ASSUME NEW s, NEW I, NEW t, NEW J, PartOf(t, J, s, I), Ascends(s, I) PROVE Ascends(t, J)
<1> SUFFICES ASSUME NEW j \in J, NEW l \in J, j < l, t[j].remote = t[l].remote PROVE t[j].n < t[l].n
  BY DEF Ascends
<1>1. PICK i \in I, k \in I : /\ i < k /\ t[j].remote = s[i].remote /\ t[j].n = s[i].n
                              /\ t[l].remote = s[k].remote /\ t[l].n = s[k].n
  BY DEF PartOf
<1> QED
  BY <1>1 DEF Ascends

LEMMA PartPrecedes ==
    ASSUME NEW s, NEW I, NEW t, NEW J, PartOf(t, J, s, I)
    PROVE  /\ \A u, K : Precede(u, K, s, I) => Precede(u, K, t, J)
           /\ \A u, K : Precede(s, I, u, K) => Precede(t, J, u, K)
           /\ \A f : Until(s, I, f) => Until(t, J, f)
<1>1. ASSUME NEW j \in J PROVE \E i \in I : t[j].remote = s[i].remote /\ t[j].n = s[i].n
  BY DEF PartOf
<1>2. ASSUME NEW u, NEW K, Precede(u, K, s, I) PROVE Precede(u, K, t, J)
  <2> SUFFICES ASSUME NEW k \in K, NEW j \in J, u[k].remote = t[j].remote PROVE u[k].n < t[j].n
    BY DEF Precede
  <2>1. PICK i \in I : t[j].remote = s[i].remote /\ t[j].n = s[i].n
    BY <1>1
  <2> QED
    BY <1>2, <2>1 DEF Precede
<1>3. ASSUME NEW u, NEW K, Precede(s, I, u, K) PROVE Precede(t, J, u, K)
  <2> SUFFICES ASSUME NEW k \in K, NEW j \in J, t[j].remote = u[k].remote PROVE t[j].n < u[k].n
    BY DEF Precede
  <2>1. PICK i \in I : t[j].remote = s[i].remote /\ t[j].n = s[i].n
    BY <1>1
  <2> QED
    BY <1>3, <2>1 DEF Precede
<1>4. ASSUME NEW f, Until(s, I, f) PROVE Until(t, J, f)
  BY <1>1, <1>4 DEF Until
<1> QED
  BY <1>2, <1>3, <1>4

LEMMA PartOfPart ==
    ASSUME NEW s, NEW I, NEW t, NEW J, NEW u, NEW K, PartOf(t, J, s, I), PartOf(u, K, t, J)
    PROVE  PartOf(u, K, s, I)
<1>1. ASSUME NEW k \in K PROVE \E i \in I : u[k].remote = s[i].remote /\ u[k].n = s[i].n
  <2>1. PICK j \in J : u[k].remote = t[j].remote /\ u[k].n = t[j].n
    BY DEF PartOf
  <2>2. PICK i \in I : t[j].remote = s[i].remote /\ t[j].n = s[i].n
    BY DEF PartOf
  <2> QED
    BY <2>1, <2>2
<1>2. ASSUME NEW k \in K, NEW l \in K, k < l
      PROVE  \E i, m \in I : /\ i < m /\ u[k].remote = s[i].remote /\ u[k].n = s[i].n
                             /\ u[l].remote = s[m].remote /\ u[l].n = s[m].n
  <2>1. PICK j \in J, g \in J : /\ j < g /\ u[k].remote = t[j].remote /\ u[k].n = t[j].n
                                /\ u[l].remote = t[g].remote /\ u[l].n = t[g].n
    BY <1>2 DEF PartOf
  <2>2. PICK i \in I, m \in I : /\ i < m /\ t[j].remote = s[i].remote /\ t[j].n = s[i].n
                                /\ t[g].remote = s[m].remote /\ t[g].n = s[m].n
    BY <2>1 DEF PartOf
  <2> QED
    BY <2>1, <2>2
<1> QED
  BY <1>1, <1>2 DEF PartOf

LEMMA PartOfSame ==
    ASSUME NEW s, NEW I PROVE PartOf(s, I, s, I)
  BY DEF PartOf

LEMMA PartOfNone ==
    ASSUME NEW s, NEW I, NEW t PROVE PartOf(t, {}, s, I)
  BY DEF PartOf

LEMMA PartOfAlike ==
    ASSUME NEW s, NEW t, Alike(t, s) PROVE PartOf(t, Fires(t), s, Fires(s))
<1>1. \A i \in Fires(t) : i \in Fires(s) /\ t[i].remote = s[i].remote /\ t[i].n = s[i].n
  BY DEF Alike, Fires
<1> QED
  BY <1>1 DEF PartOf

\* A stretch of a list.
LEMMA PartOfStretch ==
    ASSUME NEW s \in Seq(Message), NEW t \in Seq(Message), NEW o \in Nat, o + Len(t) <= Len(s),
           \A i \in 1..Len(t) : /\ t[i].remote = s[o + i].remote /\ t[i].call = s[o + i].call
                                /\ t[i].n = s[o + i].n
    PROVE  /\ PartOf(t, Fires(t), s, Fires(s))
           /\ \A i \in Fires(t) : /\ o + i \in Fires(s) /\ i \in 1..Len(t)
                                  /\ t[i].remote = s[o + i].remote /\ t[i].n = s[o + i].n
<1>1. DOMAIN t = 1..Len(t) /\ DOMAIN s = 1..Len(s) /\ Len(t) \in Nat /\ Len(s) \in Nat
  BY LenProperties
<1>2. ASSUME NEW i \in Fires(t)
      PROVE  o + i \in Fires(s) /\ i \in 1..Len(t) /\ t[i].remote = s[o + i].remote /\ t[i].n = s[o + i].n
  <2>1. i \in 1..Len(t) /\ t[i].call = 0
    BY <1>1 DEF Fires
  <2>2. o + i \in 1..Len(s)
    BY <1>1, <2>1
  <2> QED
    BY <1>1, <2>1, <2>2 DEF Fires
<1>3. ASSUME NEW i \in Fires(t), NEW j \in Fires(t), i < j PROVE o + i < o + j
  BY <1>2, <1>3
<1> QED
  BY <1>2, <1>3 DEF PartOf

LEMMA PartOfSublist ==
    ASSUME NEW s \in Seq(Message), NEW S \in SUBSET DOMAIN s
    PROVE  /\ PartOf(Sublist(s, S), Fires(Sublist(s, S)), s, Fires(s))
           /\ \A n \in Fires(Sublist(s, S)) : Place(S, n) \in S /\ Place(S, n) \in Fires(s)
                                              /\ Sublist(s, S)[n] = s[Place(S, n)]
<1> DEFINE t == Sublist(s, S)
<1>1. /\ \A n \in DOMAIN t : Place(S, n) \in S /\ t[n] = s[Place(S, n)]
      /\ \A n, k \in DOMAIN t : n < k => Place(S, n) < Place(S, k)
  BY SublistFrom
<1> HIDE DEF t
<1>2. \A n \in Fires(t) : n \in DOMAIN t /\ Place(S, n) \in S /\ Place(S, n) \in Fires(s) /\ t[n] = s[Place(S, n)]
  BY <1>1 DEF Fires
<1>3. PartOf(t, Fires(t), s, Fires(s))
  BY <1>1, <1>2 DEF PartOf
<1> QED
  BY <1>2, <1>3 DEF t

\* Two lists one behind the other.
LEMMA JoinIs ==
    ASSUME NEW A, NEW a \in Seq(A), NEW b \in Seq(A), NEW I, NEW J, NEW K \in SUBSET DOMAIN (a \o b),
           \A k \in K : k \in 1..Len(a) => k \in I,
           \A k \in K : k \notin 1..Len(a) => k - Len(a) \in J
    PROVE  /\ Ascends(a, I) /\ Ascends(b, J) /\ Precede(a, I, b, J) => Ascends(a \o b, K)
           /\ \A u, L : Precede(u, L, a, I) /\ Precede(u, L, b, J) => Precede(u, L, a \o b, K)
           /\ \A u, L : Precede(a, I, u, L) /\ Precede(b, J, u, L) => Precede(a \o b, K, u, L)
           /\ \A f : Until(a, I, f) /\ Until(b, J, f) => Until(a \o b, K, f)
<1> DEFINE g == a \o b
<1>1. /\ Len(a) \in Nat /\ Len(b) \in Nat /\ DOMAIN g = 1..(Len(a) + Len(b))
      /\ \A i \in 1..Len(a) : g[i] = a[i]
      /\ \A i \in 1..(Len(a) + Len(b)) :
             (i \in 1..Len(a)) \/ (i - Len(a) \in 1..Len(b) /\ g[i] = b[i - Len(a)])
  BY ConcatIs
<1> HIDE DEF g
<1>2. ASSUME NEW k \in K
      PROVE  /\ k \in Int
             /\ (k \in 1..Len(a) /\ k \in I /\ g[k] = a[k])
                \/ (k \notin 1..Len(a) /\ k > Len(a) /\ k - Len(a) \in J /\ g[k] = b[k - Len(a)])
  <2>1. k \in 1..(Len(a) + Len(b))
    BY <1>1 DEF g
  <2> QED
    BY <1>1, <2>1
<1>3. ASSUME Ascends(a, I), Ascends(b, J), Precede(a, I, b, J) PROVE Ascends(g, K)
  <2> SUFFICES ASSUME NEW i \in K, NEW j \in K, i < j, g[i].remote = g[j].remote PROVE g[i].n < g[j].n
    BY DEF Ascends
  <2>1. CASE i \in 1..Len(a) /\ j \in 1..Len(a)
    BY <1>2, <1>3, <2>1 DEF Ascends
  <2>2. CASE i \in 1..Len(a) /\ j \notin 1..Len(a)
    BY <1>2, <1>3, <2>2 DEF Precede
  <2>3. CASE i \notin 1..Len(a)
    <3>1. j \notin 1..Len(a) /\ i - Len(a) < j - Len(a)
      BY <1>1, <1>2, <2>3
    <3> QED
      BY <1>2, <1>3, <2>3, <3>1 DEF Ascends
  <2> QED
    BY <2>1, <2>2, <2>3
<1>4. ASSUME NEW u, NEW L, Precede(u, L, a, I), Precede(u, L, b, J) PROVE Precede(u, L, g, K)
  BY <1>2, <1>4 DEF Precede
<1>5. ASSUME NEW u, NEW L, Precede(a, I, u, L), Precede(b, J, u, L) PROVE Precede(g, K, u, L)
  BY <1>2, <1>5 DEF Precede
<1>6. ASSUME NEW f, Until(a, I, f), Until(b, J, f) PROVE Until(g, K, f)
  BY <1>2, <1>6 DEF Until
<1> QED
  BY <1>3, <1>4, <1>5, <1>6 DEF g

\* A line of which some is left out is a line.
LEMMA LinePart ==
    ASSUME NEW h, NEW b, NEW w, NEW p, NEW o, NEW f, Line(h, b, w, p, o, f),
           NEW b1, NEW w1, NEW p1, NEW o1,
           PartOf(b1, Kind(b1, "Fired"), b, Kind(b, "Fired")),
           PartOf(w1, Kind(w1, "Fired"), w, Kind(w, "Fired")),
           PartOf(p1, Fires(p1), p, Fires(p)), PartOf(o1, Fires(o1), o, Fires(o))
    PROVE  Line(h, b1, w1, p1, o1, f)
<1> DEFINE B == Kind(b, "Fired")
           W == Kind(w, "Fired")
           B1 == Kind(b1, "Fired")
           W1 == Kind(w1, "Fired")
           H == DOMAIN h
           Q == Fires(p)
           Q1 == Fires(p1)
           O == Fires(o)
           O1 == Fires(o1)
<1>1. /\ Ascends(h, H) /\ Ascends(b, B) /\ Ascends(w, W) /\ Ascends(p, Q) /\ Ascends(o, O)
      /\ Precede(h, H, b, B) /\ Precede(h, H, w, W) /\ Precede(h, H, p, Q) /\ Precede(h, H, o, O)
      /\ Precede(b, B, w, W) /\ Precede(b, B, p, Q) /\ Precede(b, B, o, O)
      /\ Precede(w, W, p, Q) /\ Precede(w, W, o, O) /\ Precede(p, Q, o, O)
      /\ Until(h, H, f) /\ Until(b, B, f) /\ Until(w, W, f) /\ Until(p, Q, f) /\ Until(o, O, f)
  BY DEF Line
<1>2. PartOf(b1, B1, b, B) /\ PartOf(w1, W1, w, W) /\ PartOf(p1, Q1, p, Q) /\ PartOf(o1, O1, o, O)
  OBVIOUS
<1>3. Line(h, b1, w1, p1, o1, f) <=>
      /\ Ascends(h, H) /\ Ascends(b1, B1) /\ Ascends(w1, W1) /\ Ascends(p1, Q1) /\ Ascends(o1, O1)
      /\ Precede(h, H, b1, B1) /\ Precede(h, H, w1, W1) /\ Precede(h, H, p1, Q1) /\ Precede(h, H, o1, O1)
      /\ Precede(b1, B1, w1, W1) /\ Precede(b1, B1, p1, Q1) /\ Precede(b1, B1, o1, O1)
      /\ Precede(w1, W1, p1, Q1) /\ Precede(w1, W1, o1, O1) /\ Precede(p1, Q1, o1, O1)
      /\ Until(h, H, f) /\ Until(b1, B1, f) /\ Until(w1, W1, f) /\ Until(p1, Q1, f) /\ Until(o1, O1, f)
  BY DEF Line
<1> HIDE DEF B, W, B1, W1, H, Q, Q1, O, O1
<1>4. Ascends(b1, B1) /\ Ascends(w1, W1) /\ Ascends(p1, Q1) /\ Ascends(o1, O1)
  BY <1>1, <1>2, PartAscends
<1>5. /\ Precede(h, H, b1, B1) /\ Precede(b1, B1, w, W) /\ Precede(b1, B1, p, Q) /\ Precede(b1, B1, o, O)
      /\ Until(b1, B1, f)
  BY <1>1, <1>2, PartPrecedes
<1>6. /\ Precede(h, H, w1, W1) /\ Precede(b1, B1, w1, W1) /\ Precede(w1, W1, p, Q) /\ Precede(w1, W1, o, O)
      /\ Until(w1, W1, f)
  BY <1>1, <1>2, <1>5, PartPrecedes
<1>7. /\ Precede(h, H, p1, Q1) /\ Precede(b1, B1, p1, Q1) /\ Precede(w1, W1, p1, Q1) /\ Precede(p1, Q1, o, O)
      /\ Until(p1, Q1, f)
  BY <1>1, <1>2, <1>5, <1>6, PartPrecedes
<1>8. /\ Precede(h, H, o1, O1) /\ Precede(b1, B1, o1, O1) /\ Precede(w1, W1, o1, O1) /\ Precede(p1, Q1, o1, O1)
      /\ Until(o1, O1, f)
  BY <1>1, <1>2, <1>5, <1>6, <1>7, PartPrecedes
<1> QED
  BY <1>1, <1>3, <1>4, <1>5, <1>6, <1>7, <1>8

LEMMA AnswersFireNothing ==
    ASSUME NEW s \in Seq(Message), NEW done \in Seq(Ask)
    PROVE  PartOf(s \o Answers(done), Fires(s \o Answers(done)), s, Fires(s))
<1> DEFINE a == Answers(done)
           g == s \o a
<1>1. /\ a \in Seq(Message) /\ DOMAIN a = 1..Len(a) /\ Len(a) \in Nat
      /\ \A i \in DOMAIN a : a[i].call \in Call
  BY AnswersIs
<1> HIDE DEF a
<1>2. /\ Len(s) \in Nat /\ DOMAIN s = 1..Len(s) /\ DOMAIN g = 1..(Len(s) + Len(a))
      /\ \A i \in 1..Len(s) : g[i] = s[i]
      /\ \A i \in 1..(Len(s) + Len(a)) :
             (i \in 1..Len(s)) \/ (i - Len(s) \in 1..Len(a) /\ g[i] = a[i - Len(s)])
  BY <1>1, ConcatIs
<1> HIDE DEF g
<1>3. ASSUME NEW i \in Fires(g) PROVE i \in Fires(s) /\ g[i] = s[i]
  <2>1. i \in 1..(Len(s) + Len(a)) /\ g[i].call = 0
    BY <1>2 DEF Fires
  <2>2. 0 \notin Call
    BY CallsAre
  <2>3. i \in 1..Len(s)
    BY <1>1, <1>2, <2>1, <2>2
  <2> QED
    BY <1>2, <2>1, <2>3 DEF Fires
<1>4. PartOf(g, Fires(g), s, Fires(s))
  BY <1>3 DEF PartOf
<1> QED
  BY <1>4 DEF g, a

\* A line of which some is left out, of a state and of the next.
LEMMA ChainPart ==
    ASSUME Chain, heard' = heard, fired' = fired,
           PartOf(rep'.inbox, Kind(rep'.inbox, "Fired"), rep.inbox, Kind(rep.inbox, "Fired")),
           PartOf(toRep', Kind(toRep', "Fired"), toRep, Kind(toRep, "Fired")),
           PartOf(peer'.held, Fires(peer'.held), peer.held, Fires(peer.held)),
           PartOf(outbox', Fires(outbox'), outbox, Fires(outbox))
    PROVE  Chain'
<1>1. Line(heard, rep.inbox, toRep, peer.held, outbox, fired)
  BY DEF Chain
<1>2. Line(heard, rep'.inbox, toRep', peer'.held, outbox', fired)
  BY <1>1, LinePart
<1> QED
  BY <1>2 DEF Chain

LEMMA ChainInit ==
    ASSUME Init PROVE Chain
<1>1. heard = <<>> /\ toRep = <<>> /\ outbox = <<>> /\ rep.inbox = <<>> /\ peer.held = <<>>
  BY DEF Init, Nobody
<1>2. DOMAIN heard = {} /\ Kind(rep.inbox, "Fired") = {} /\ Kind(toRep, "Fired") = {}
      /\ Fires(peer.held) = {} /\ Fires(outbox) = {}
  BY <1>1 DEF Kind, Fires
<1> QED
  BY <1>2 DEF Chain, Line, Ascends, Precede, Until

LEMMA ChainDial ==
    ASSUME Types, Chain, Dial PROVE Chain'
<1>1. /\ rep' = [rep EXCEPT !.conn = @ + 1, !.lost = FALSE]
      /\ UNCHANGED <<scripts, tick, ids, peer, toRep, heard, excused>>
  BY DEF Dial
<1>2. rep'.inbox = rep.inbox
  <2>1. rep \in RepType
    BY TypesGive
  <2> DEFINE r == [rep EXCEPT !.conn = @ + 1]
  <2>2. r \in RepType /\ r.inbox = rep.inbox
    BY <2>1 DEF RepType
  <2>3. rep' = [r EXCEPT !.lost = FALSE]
    BY <1>1
  <2> HIDE DEF r
  <2> QED
    BY <2>2, <2>3 DEF RepType
<1> QED
  BY <1>1, <1>2, ChainPart, PartOfSame DEF scripts

LEMMA ChainBreak ==
    ASSUME Types, Chain, Break PROVE Chain'
<1>1. toRep' = <<Gone>> /\ UNCHANGED <<outbox, fired, peer, rep, heard>>
  BY DEF Break
<1>2. Kind(toRep', "Fired") = {}
  BY <1>1 DEF Kind, Gone
<1> QED
  BY <1>1, <1>2, ChainPart, PartOfSame, PartOfNone

LEMMA ChainReceives ==
    ASSUME Types, Chain, NEW k \in 1..Len(toAuth), AuthorityReceive(k) PROVE Chain'
<1>1. /\ peer' = IF Hellos(k) # {} THEN [Nobody EXCEPT !.welcomed = TRUE, !.player = Who(k)]
                 ELSE IF Kind(Polled(k), "Gone") # {} THEN Nobody ELSE peer
      /\ toRep' = IF Hellos(k) # {} /\ up THEN Append(toRep, [kind |-> "Welcome"]) ELSE toRep
      /\ UNCHANGED <<scripts, rep, heard>>
  BY ReceiveIs
<1>2. peer'.held = <<>> \/ peer'.held = peer.held
  BY <1>1 DEF Nobody
<1>3. PartOf(peer'.held, Fires(peer'.held), peer.held, Fires(peer.held))
  <2>1. Fires(<<>>) = {}
    BY DEF Fires
  <2> QED
    BY <1>2, <2>1, PartOfSame, PartOfNone
<1>4. PartOf(toRep', Kind(toRep', "Fired"), toRep, Kind(toRep, "Fired"))
  <2> DEFINE e == [kind |-> "Welcome"]
             t == Append(toRep, e)
  <2>1. toRep \in Seq(ToRep) /\ e \in ToRep /\ e.kind = "Welcome"
    BY TypesGive DEF WireTypes, ToRep
  <2> HIDE DEF e
  <2>2. /\ Len(toRep) \in Nat /\ DOMAIN toRep = 1..Len(toRep) /\ DOMAIN t = 1..(Len(toRep) + 1)
        /\ \A i \in 1..Len(toRep) : t[i] = toRep[i]
        /\ t[Len(toRep) + 1] = e
    BY <2>1, AppendIs
  <2> HIDE DEF t
  <2>3. \A i \in Kind(t, "Fired") : i \in Kind(toRep, "Fired") /\ t[i] = toRep[i]
    <3> SUFFICES ASSUME NEW i \in Kind(t, "Fired") PROVE i \in Kind(toRep, "Fired") /\ t[i] = toRep[i]
      OBVIOUS
    <3>1. i \in 1..(Len(toRep) + 1) /\ t[i].kind = "Fired"
      BY <2>2 DEF Kind
    <3>2. i \in 1..Len(toRep)
      BY <2>1, <2>2, <3>1
    <3> QED
      BY <2>2, <3>1, <3>2 DEF Kind
  <2>4. PartOf(t, Kind(t, "Fired"), toRep, Kind(toRep, "Fired"))
    BY <2>3 DEF PartOf
  <2>5. toRep' = t \/ toRep' = toRep
    BY <1>1 DEF t, e
  <2> QED
    BY <2>4, <2>5, PartOfSame
<1> QED
  BY <1>1, <1>3, <1>4, ChainPart, PartOfSame DEF scripts

LEMMA ChainTickStarts ==
    ASSUME Types, Chain, TickStarts PROVE Chain'
<1>1. /\ outbox' = outbox \o Answers(Sublist(running, Finished))
      /\ UNCHANGED <<fired, peer, rep, network, heard>>
  BY DEF TickStarts
<1>2. running \in Seq(Ask) /\ outbox \in Seq(Message) /\ Finished \in SUBSET DOMAIN running
  BY TypesGive DEF WorldTypes, Finished
<1>3. Sublist(running, Finished) \in Seq(Ask)
  BY <1>2, SublistIn
<1>4. PartOf(outbox', Fires(outbox'), outbox, Fires(outbox))
  BY <1>1, <1>2, <1>3, AnswersFireNothing
<1> QED
  BY <1>1, <1>4, ChainPart, PartOfSame DEF network

LEMMA ChainHandle ==
    ASSUME Types, Chain, NEW wait \in Waits, Handle(wait) PROVE Chain'
<1>1. /\ inbox # <<>>
      /\ (outbox' = outbox) \/ (outbox' = outbox \o Answers(<<Head(inbox)>>))
      /\ UNCHANGED <<fired, peer, rep, network, heard>>
  BY DEF Handle
<1>2. inbox \in Seq(Ask) /\ outbox \in Seq(Message)
  BY TypesGive DEF WorldTypes
<1>3. <<Head(inbox)>> \in Seq(Ask)
  <2>1. Head(inbox) \in Ask
    BY <1>1, <1>2, TailIs
  <2> QED
    BY <2>1
<1>4. PartOf(outbox', Fires(outbox'), outbox, Fires(outbox))
  BY <1>1, <1>2, <1>3, AnswersFireNothing, PartOfSame
<1> QED
  BY <1>1, <1>4, ChainPart, PartOfSame DEF network

LEMMA ChainFireClient ==
    ASSUME Types, Chain, NEW e \in Event, FireClient(e) PROVE Chain'
<1> DEFINE m == [remote |-> e, call |-> 0, n |-> fired + 1, waited |-> 0]
           O1 == Fires(outbox')
           O  == Fires(outbox)
           B == Kind(rep.inbox, "Fired")
           W == Kind(toRep, "Fired")
           H == DOMAIN heard
           Q == Fires(peer.held)
<1>1. /\ m \in Message /\ outbox' = Append(outbox, m) /\ fired' = fired + 1
      /\ UNCHANGED <<peer, rep, network, heard>>
  BY FireClientTypes
<1>2. outbox \in Seq(Message) /\ fired \in Nat
  BY TypesGive DEF WorldTypes
<1>3. m.n = fired + 1
  OBVIOUS
<1> HIDE DEF m
<1>4. /\ Len(outbox) \in Nat /\ DOMAIN outbox = 1..Len(outbox) /\ DOMAIN outbox' = 1..(Len(outbox) + 1)
      /\ \A i \in 1..Len(outbox) : outbox'[i] = outbox[i]
      /\ outbox'[Len(outbox) + 1] = m
  BY <1>1, <1>2, AppendIs
<1>5. \A i \in O1 : \/ i \in O /\ outbox'[i] = outbox[i] /\ i \in 1..Len(outbox)
                    \/ i = Len(outbox) + 1 /\ outbox'[i] = m
  BY <1>4 DEF Fires
<1>6. /\ Ascends(heard, H) /\ Ascends(rep.inbox, B) /\ Ascends(toRep, W) /\ Ascends(peer.held, Q) /\ Ascends(outbox, O)
      /\ Precede(heard, H, rep.inbox, B) /\ Precede(heard, H, toRep, W) /\ Precede(heard, H, peer.held, Q)
      /\ Precede(heard, H, outbox, O) /\ Precede(rep.inbox, B, toRep, W) /\ Precede(rep.inbox, B, peer.held, Q)
      /\ Precede(rep.inbox, B, outbox, O) /\ Precede(toRep, W, peer.held, Q) /\ Precede(toRep, W, outbox, O)
      /\ Precede(peer.held, Q, outbox, O)
      /\ Until(heard, H, fired) /\ Until(rep.inbox, B, fired) /\ Until(toRep, W, fired)
      /\ Until(peer.held, Q, fired) /\ Until(outbox, O, fired)
  BY DEF Chain, Line
<1>7. \A i \in O : i \in Int /\ outbox[i].n \in Nat
  <2> SUFFICES ASSUME NEW i \in O PROVE i \in Int /\ outbox[i].n \in Nat
    OBVIOUS
  <2>1. i \in 1..Len(outbox) /\ outbox[i] \in Message
    BY <1>2, <1>4 DEF Fires
  <2> QED
    BY <1>4, <2>1, MessageIs
<1> HIDE DEF O1, O
<1>8. Ascends(outbox', O1)
  <2> SUFFICES ASSUME NEW i \in O1, NEW j \in O1, i < j, outbox'[i].remote = outbox'[j].remote
               PROVE  outbox'[i].n < outbox'[j].n
    BY DEF Ascends
  <2>1. CASE j \in O /\ outbox'[j] = outbox[j] /\ j \in 1..Len(outbox)
    BY <1>4, <1>5, <1>6, <1>7, <2>1 DEF Ascends
  <2>2. CASE j = Len(outbox) + 1 /\ outbox'[j] = m
    <3>1. i \in O /\ outbox'[i] = outbox[i]
      BY <1>4, <1>5, <2>2
    <3> QED
      BY <1>2, <1>3, <1>6, <1>7, <2>2, <3>1 DEF Until
  <2> QED
    BY <1>5, <2>1, <2>2
<1>9. ASSUME NEW s, NEW I, Until(s, I, fired), Precede(s, I, outbox, O), \A i \in I : s[i].n \in Nat
      PROVE  Precede(s, I, outbox', O1) /\ Until(s, I, fired')
  <2>1. Precede(s, I, outbox', O1)
    <3> SUFFICES ASSUME NEW i \in I, NEW j \in O1, s[i].remote = outbox'[j].remote
                 PROVE  s[i].n < outbox'[j].n
      BY DEF Precede
    <3>1. s[i].n <= fired /\ s[i].n \in Nat
      BY <1>9 DEF Until
    <3> QED
      BY <1>2, <1>3, <1>5, <1>9, <3>1 DEF Precede
  <2>2. Until(s, I, fired')
    BY <1>1, <1>2, <1>9 DEF Until
  <2> QED
    BY <2>1, <2>2
<1>10. Until(outbox', O1, fired')
  BY <1>1, <1>2, <1>3, <1>5, <1>6, <1>7 DEF Until
<1>11. /\ \A i \in H : heard[i].n \in Nat
       /\ \A i \in B : rep.inbox[i].n \in Nat
       /\ \A i \in W : toRep[i].n \in Nat
       /\ \A i \in Q : peer.held[i].n \in Nat
  <2>1. \A i \in H : heard[i].n \in Nat
    <3> DEFINE R == [remote : Event, n : Nat]
    <3>1. heard \in Seq(R)
      BY TypesGive DEF WireTypes
    <3> HIDE DEF R
    <3>2. \A i \in DOMAIN heard : heard[i] \in R
      BY <3>1
    <3> QED
      BY <3>2 DEF R
  <2>2. \A i \in B : rep.inbox[i].n \in Nat
    <3>1. rep.inbox \in Seq(Sent)
      BY TypesGive, RepIs
    <3>2. \A i \in DOMAIN rep.inbox : rep.inbox[i] \in Sent
      BY <3>1
    <3> QED
      BY <3>2, SentIs DEF Kind
  <2>3. \A i \in W : toRep[i].n \in Nat
    <3>1. toRep \in Seq(ToRep)
      BY TypesGive DEF WireTypes
    <3>2. \A i \in DOMAIN toRep : toRep[i] \in ToRep
      BY <3>1
    <3> QED
      BY <3>2, ToRepIs, SentIs DEF Kind
  <2>4. \A i \in Q : peer.held[i].n \in Nat
    <3>1. peer.held \in Seq(Message)
      BY TypesGive, PeerIs
    <3>2. \A i \in DOMAIN peer.held : peer.held[i] \in Message
      BY <3>1
    <3> QED
      BY <3>2, MessageIs DEF Fires
  <2> QED
    BY <2>1, <2>2, <2>3, <2>4
<1> HIDE DEF H, B, W, Q
<1>12. /\ Precede(heard, H, outbox', O1) /\ Precede(rep.inbox, B, outbox', O1)
       /\ Precede(toRep, W, outbox', O1) /\ Precede(peer.held, Q, outbox', O1)
       /\ Until(heard, H, fired') /\ Until(rep.inbox, B, fired') /\ Until(toRep, W, fired')
       /\ Until(peer.held, Q, fired')
  BY <1>6, <1>9, <1>11
<1>13. Line(heard, rep.inbox, toRep, peer.held, outbox', fired')
  BY <1>6, <1>8, <1>10, <1>12 DEF Line, H, B, W, Q, O1
<1> QED
  BY <1>1, <1>13 DEF Chain, network

LEMMA ChainReplicaReceive ==
    ASSUME Types, Chain, ReplicaReceive PROVE Chain'
<1> DEFINE m == Head(toRep)
           b == rep.inbox
           b1 == rep'.inbox
           B == Kind(b, "Fired")
           B1 == Kind(b1, "Fired")
           W == Kind(toRep, "Fired")
           W1 == Kind(toRep', "Fired")
           H == DOMAIN heard
           Q == Fires(peer.held)
           O == Fires(outbox)
<1>1. /\ toRep # <<>> /\ toRep' = Tail(toRep) /\ UNCHANGED <<scripts, peer, heard>>
      /\ m.kind \in {"Fired", "Answer"} => m \in Sent
      /\ b1 = IF m.kind \in {"Fired", "Answer"} /\ m.remote \in rep.locals THEN Append(b, m) ELSE b
  BY ReplicaReceiveIs
<1>2. toRep \in Seq(ToRep) /\ b \in Seq(Sent)
  BY TypesGive, RepIs DEF WireTypes
<1>3. /\ m = toRep[1] /\ Len(toRep) \in Nat \ {0} /\ DOMAIN toRep = 1..Len(toRep)
      /\ DOMAIN toRep' = 1..(Len(toRep) - 1) /\ \A i \in 1..(Len(toRep) - 1) : toRep'[i] = toRep[i + 1]
  BY <1>1, <1>2, TailIs
<1>4. Line(heard, b, toRep, peer.held, outbox, fired)
  BY DEF Chain
<1>5. /\ Ascends(heard, H) /\ Ascends(b, B) /\ Ascends(toRep, W) /\ Ascends(peer.held, Q) /\ Ascends(outbox, O)
      /\ Precede(heard, H, b, B) /\ Precede(heard, H, toRep, W) /\ Precede(heard, H, peer.held, Q)
      /\ Precede(heard, H, outbox, O) /\ Precede(b, B, toRep, W) /\ Precede(b, B, peer.held, Q)
      /\ Precede(b, B, outbox, O) /\ Precede(toRep, W, peer.held, Q) /\ Precede(toRep, W, outbox, O)
      /\ Precede(peer.held, Q, outbox, O)
      /\ Until(heard, H, fired) /\ Until(b, B, fired) /\ Until(toRep, W, fired)
      /\ Until(peer.held, Q, fired) /\ Until(outbox, O, fired)
  BY <1>4 DEF Line
<1>6. \A i \in W1 : i \in Nat /\ i + 1 \in W /\ toRep'[i] = toRep[i + 1] /\ 1 < i + 1
  BY <1>3 DEF Kind
<1>7. PartOf(toRep', W1, toRep, W)
  <2>1. \A i, j \in W1 : i < j => i + 1 < j + 1
    BY <1>6
  <2> QED
    BY <1>6, <2>1 DEF PartOf
<1>8. \A i \in B1 : \/ i \in B /\ b1[i] = b[i] /\ i \in 1..Len(b)
                    \/ i = Len(b) + 1 /\ 1 \in W /\ b1[i] = toRep[1]
  <2>1. Len(b) \in Nat /\ DOMAIN b = 1..Len(b)
    BY <1>2, LenProperties
  <2>2. CASE b1 = b
    BY <2>1, <2>2 DEF Kind
  <2>3. CASE b1 = Append(b, m) /\ m \in Sent
    <3>1. /\ DOMAIN b1 = 1..(Len(b) + 1) /\ \A i \in 1..Len(b) : b1[i] = b[i]
          /\ b1[Len(b) + 1] = m
      BY <1>2, <2>3, AppendIs
    <3>2. 1 \in DOMAIN toRep /\ m = toRep[1]
      BY <1>3
    <3> HIDE DEF m, b, b1
    <3>3. ASSUME NEW i \in B1, i \notin 1..Len(b) PROVE i = Len(b) + 1 /\ 1 \in W /\ b1[i] = toRep[1]
      <4>1. i = Len(b) + 1 /\ b1[i].kind = "Fired"
        BY <2>1, <3>1, <3>3 DEF Kind
      <4> QED
        BY <3>1, <3>2, <4>1 DEF Kind
    <3>4. ASSUME NEW i \in B1, i \in 1..Len(b) PROVE i \in B /\ b1[i] = b[i]
      BY <2>1, <3>1, <3>4 DEF Kind
    <3> QED
      BY <3>3, <3>4
  <2> QED
    BY <1>1, <2>2, <2>3
<1>9. Len(b) \in Nat
  BY <1>2
<1> HIDE DEF m, b, b1, B, B1, W, W1, H, Q, O
<1>10. Ascends(b1, B1)
  <2> SUFFICES ASSUME NEW i \in B1, NEW j \in B1, i < j, b1[i].remote = b1[j].remote PROVE b1[i].n < b1[j].n
    BY DEF Ascends
  <2>1. CASE j \in B /\ b1[j] = b[j] /\ j \in 1..Len(b)
    <3>1. i \in B /\ b1[i] = b[i]
      BY <1>8, <1>9, <2>1
    <3> QED
      BY <1>5, <2>1, <3>1 DEF Ascends
  <2>2. CASE j = Len(b) + 1 /\ 1 \in W /\ b1[j] = toRep[1]
    <3>1. i \in B /\ b1[i] = b[i]
      BY <1>8, <1>9, <2>2
    <3> QED
      BY <1>5, <2>2, <3>1 DEF Precede
  <2> QED
    BY <1>8, <2>1, <2>2
<1>11. ASSUME NEW s, NEW I, Precede(s, I, b, B), Precede(s, I, toRep, W)
       PROVE  Precede(s, I, b1, B1)
  BY <1>8, <1>11 DEF Precede
<1>12. ASSUME NEW s, NEW I, Precede(b, B, s, I), Precede(toRep, W, s, I)
       PROVE  Precede(b1, B1, s, I)
  BY <1>8, <1>12 DEF Precede
<1>13. Until(b1, B1, fired)
  BY <1>5, <1>8 DEF Until
<1>14. Precede(b1, B1, toRep', W1)
  <2> SUFFICES ASSUME NEW i \in B1, NEW j \in W1, b1[i].remote = toRep'[j].remote PROVE b1[i].n < toRep'[j].n
    BY DEF Precede
  <2>1. j + 1 \in W /\ toRep'[j] = toRep[j + 1] /\ 1 < j + 1
    BY <1>6
  <2>2. CASE i \in B /\ b1[i] = b[i]
    BY <1>5, <2>1, <2>2 DEF Precede
  <2>3. CASE 1 \in W /\ b1[i] = toRep[1]
    BY <1>5, <2>1, <2>3 DEF Ascends
  <2> QED
    BY <1>8, <2>2, <2>3
<1>15. /\ Ascends(toRep', W1) /\ Precede(heard, H, toRep', W1) /\ Precede(toRep', W1, peer.held, Q)
       /\ Precede(toRep', W1, outbox, O) /\ Until(toRep', W1, fired)
  BY <1>5, <1>7, PartAscends, PartPrecedes
<1>16. Precede(heard, H, b1, B1) /\ Precede(b1, B1, peer.held, Q) /\ Precede(b1, B1, outbox, O)
  BY <1>5, <1>11, <1>12
<1>17. Line(heard, b1, toRep', peer.held, outbox, fired)
  BY <1>5, <1>10, <1>13, <1>14, <1>15, <1>16 DEF Line, B1, W1, H, Q, O
<1> QED
  BY <1>1, <1>17 DEF Chain, b1, scripts

LEMMA ChainReplicaTick ==
    ASSUME Types, Chain, NEW asks \in BOOLEAN, ReplicaTick(asks) PROVE Chain'
<1> DEFINE b == rep.inbox
           B == Kind(b, "Fired")
           g == Heard(b)
           G == DOMAIN g
           W == Kind(toRep, "Fired")
           H == DOMAIN heard
           H1 == DOMAIN heard'
           Q == Fires(peer.held)
           O == Fires(outbox)
<1>1. heard' = heard \o g /\ rep'.inbox = <<>> /\ UNCHANGED <<scripts, peer, toRep>>
  BY ReplicaTickIs
<1>2. /\ b \in Seq(Sent) /\ heard \in Seq([remote : Event, n : Nat])
  BY TypesGive, RepIs DEF WireTypes
<1>3. /\ B \in SUBSET DOMAIN b /\ g \in Seq([remote : Event, n : Nat]) /\ G = DOMAIN HeardFrom(b)
      /\ \A i \in G : g[i].remote = HeardFrom(b)[i].remote /\ g[i].n = HeardFrom(b)[i].n
  BY <1>2, HeardIs
<1>4. PartOf(g, G, b, B)
  <2>1. HeardFrom(b) = Sublist(b, B)
    BY DEF HeardFrom
  <2> HIDE DEF b, B, g
  <2>2. /\ \A n \in DOMAIN Sublist(b, B) : Place(B, n) \in B /\ Sublist(b, B)[n] = b[Place(B, n)]
        /\ \A n, k \in DOMAIN Sublist(b, B) : n < k => Place(B, n) < Place(B, k)
    BY <1>2, <1>3, SublistFrom
  <2>3. \A i \in G : Place(B, i) \in B /\ g[i].remote = b[Place(B, i)].remote /\ g[i].n = b[Place(B, i)].n
    BY <1>3, <2>1, <2>2
  <2>4. \A i, j \in G : i < j => Place(B, i) < Place(B, j)
    BY <1>3, <2>1, <2>2
  <2> HIDE DEF G
  <2> QED
    BY <2>3, <2>4 DEF PartOf
<1>5. /\ Ascends(heard, H) /\ Ascends(b, B) /\ Ascends(toRep, W) /\ Ascends(peer.held, Q) /\ Ascends(outbox, O)
      /\ Precede(heard, H, b, B) /\ Precede(heard, H, toRep, W) /\ Precede(heard, H, peer.held, Q)
      /\ Precede(heard, H, outbox, O) /\ Precede(b, B, toRep, W) /\ Precede(b, B, peer.held, Q)
      /\ Precede(b, B, outbox, O) /\ Precede(toRep, W, peer.held, Q) /\ Precede(toRep, W, outbox, O)
      /\ Precede(peer.held, Q, outbox, O)
      /\ Until(heard, H, fired) /\ Until(b, B, fired) /\ Until(toRep, W, fired)
      /\ Until(peer.held, Q, fired) /\ Until(outbox, O, fired)
  BY DEF Chain, Line
<1> HIDE DEF b, B, g
<1>6. /\ Ascends(g, G) /\ Precede(heard, H, g, G) /\ Precede(g, G, toRep, W) /\ Precede(g, G, peer.held, Q)
      /\ Precede(g, G, outbox, O) /\ Until(g, G, fired)
  BY <1>4, <1>5, PartAscends, PartPrecedes
<1>7. /\ H1 \in SUBSET DOMAIN (heard \o g)
      /\ \A k \in H1 : k \in 1..Len(heard) => k \in H
      /\ \A k \in H1 : k \notin 1..Len(heard) => k - Len(heard) \in G
  <2>1. /\ DOMAIN (heard \o g) = 1..(Len(heard) + Len(g)) /\ H = 1..Len(heard) /\ G = 1..Len(g)
        /\ Len(heard) \in Nat /\ Len(g) \in Nat
    BY <1>2, <1>3, ConcatIs
  <2>2. H1 = 1..(Len(heard) + Len(g))
    BY <1>1, <2>1
  <2> HIDE DEF H1
  <2> QED
    BY <2>1, <2>2
<1> HIDE DEF G, H, H1, W, Q, O
<1>8. /\ Ascends(heard', H1) /\ Precede(heard', H1, toRep, W) /\ Precede(heard', H1, peer.held, Q)
      /\ Precede(heard', H1, outbox, O) /\ Until(heard', H1, fired)
  <2>1. /\ Ascends(heard, H) /\ Ascends(g, G) /\ Precede(heard, H, g, G) => Ascends(heard \o g, H1)
        /\ \A u, L : Precede(heard, H, u, L) /\ Precede(g, G, u, L) => Precede(heard \o g, H1, u, L)
        /\ \A f : Until(heard, H, f) /\ Until(g, G, f) => Until(heard \o g, H1, f)
    BY <1>2, <1>3, <1>7, JoinIs
  <2> QED
    BY <1>1, <1>5, <1>6, <2>1
<1>9. Kind(<<>>, "Fired") = {}
  BY DEF Kind
<1>10. Line(heard', <<>>, toRep, peer.held, outbox, fired)
  BY <1>5, <1>8, <1>9 DEF Line, Ascends, Precede, Until, H1, W, Q, O
<1> QED
  BY <1>1, <1>10 DEF Chain, scripts

\* The end of a tick: what was held and what the scripts have fired are dealt out
\* over the wire, the queue of the peer and the outbox.
LEMMA KindsJoin ==
    ASSUME NEW a \in Seq(ToRep), NEW b \in Seq(ToRep)
    PROVE  LET K == Kind(a \o b, "Fired")
           IN  /\ K \in SUBSET DOMAIN (a \o b)
               /\ \A k \in K : k \in 1..Len(a) => k \in Kind(a, "Fired")
               /\ \A k \in K : k \notin 1..Len(a) => k - Len(a) \in Kind(b, "Fired")
<1> DEFINE g == a \o b
<1>1. /\ DOMAIN g = 1..(Len(a) + Len(b)) /\ DOMAIN a = 1..Len(a) /\ DOMAIN b = 1..Len(b)
      /\ \A i \in 1..Len(a) : g[i] = a[i]
      /\ \A i \in 1..(Len(a) + Len(b)) :
             (i \in 1..Len(a)) \/ (i - Len(a) \in 1..Len(b) /\ g[i] = b[i - Len(a)])
  BY ConcatIs
<1> HIDE DEF g
<1>2. ASSUME NEW k \in Kind(g, "Fired")
      PROVE  /\ k \in DOMAIN g
             /\ k \in 1..Len(a) => k \in Kind(a, "Fired")
             /\ k \notin 1..Len(a) => k - Len(a) \in Kind(b, "Fired")
  <2>1. k \in 1..(Len(a) + Len(b)) /\ g[k].kind = "Fired"
    BY <1>1 DEF Kind
  <2>2. k \in 1..Len(a) => k \in Kind(a, "Fired")
    BY <1>1, <2>1 DEF Kind
  <2>3. k \notin 1..Len(a) => k - Len(a) \in Kind(b, "Fired")
    BY <1>1, <2>1 DEF Kind
  <2> QED
    BY <1>1, <2>1, <2>2, <2>3
<1> QED
  BY <1>2 DEF g

LEMMA FiresJoin ==
    ASSUME NEW a \in Seq(Message), NEW b \in Seq(Message)
    PROVE  LET K == Fires(a \o b)
           IN  /\ K \in SUBSET DOMAIN (a \o b)
               /\ \A k \in K : k \in 1..Len(a) => k \in Fires(a)
               /\ \A k \in K : k \notin 1..Len(a) => k - Len(a) \in Fires(b)
<1> DEFINE g == a \o b
<1>1. /\ DOMAIN g = 1..(Len(a) + Len(b)) /\ DOMAIN a = 1..Len(a) /\ DOMAIN b = 1..Len(b)
      /\ \A i \in 1..Len(a) : g[i] = a[i]
      /\ \A i \in 1..(Len(a) + Len(b)) :
             (i \in 1..Len(a)) \/ (i - Len(a) \in 1..Len(b) /\ g[i] = b[i - Len(a)])
  BY ConcatIs
<1> HIDE DEF g
<1>2. ASSUME NEW k \in Fires(g)
      PROVE  /\ k \in DOMAIN g
             /\ k \in 1..Len(a) => k \in Fires(a)
             /\ k \notin 1..Len(a) => k - Len(a) \in Fires(b)
  <2>1. k \in 1..(Len(a) + Len(b)) /\ g[k].call = 0
    BY <1>1 DEF Fires
  <2>2. k \in 1..Len(a) => k \in Fires(a)
    BY <1>1, <2>1 DEF Fires
  <2>3. k \notin 1..Len(a) => k - Len(a) \in Fires(b)
    BY <1>1, <2>1 DEF Fires
  <2> QED
    BY <1>1, <2>1, <2>2, <2>3
<1> QED
  BY <1>2 DEF g

LEMMA WiredPart ==
    ASSUME NEW s \in Seq(Message)
    PROVE  PartOf(Wired(s), Kind(Wired(s), "Fired"), s, Fires(s))
<1> DEFINE w == Wired(s)
<1>1. /\ DOMAIN w = DOMAIN s
      /\ \A i \in DOMAIN s : /\ w[i].kind = IF s[i].call = 0 THEN "Fired" ELSE "Answer"
                             /\ w[i].remote = s[i].remote /\ w[i].n = s[i].n
  BY WiredIs
<1> HIDE DEF w
<1>2. \A i \in Kind(w, "Fired") : i \in Fires(s) /\ w[i].remote = s[i].remote /\ w[i].n = s[i].n
  BY <1>1 DEF Kind, Fires
<1>3. PartOf(w, Kind(w, "Fired"), s, Fires(s))
  BY <1>2 DEF PartOf
<1> QED
  BY <1>3 DEF w

LEMMA NewsAre ==
    ASSUME Types, NEW capture \in BOOLEAN
    PROVE  /\ News(capture) \in Seq(ToRep)
           /\ \A i \in DOMAIN News(capture) :
                  News(capture)[i] \in {[kind |-> "Despawn", ids |-> peer.known \ KnownNow(capture)],
                                        [kind |-> "Spawn", ids |-> KnownNow(capture) \ peer.known]}
<1> DEFINE l == ListOf("Despawn", peer.known \ KnownNow(capture))
           s == ListOf("Spawn", KnownNow(capture) \ peer.known)
           d == [kind |-> "Despawn", ids |-> peer.known \ KnownNow(capture)]
           e == [kind |-> "Spawn", ids |-> KnownNow(capture) \ peer.known]
           g == l \o s
<1>1. KnownNow(capture) \in SUBSET Remote /\ peer.known \in SUBSET Remote
  BY TickLists, PeerIs DEF Types, WireTypes
<1>2. /\ l \in Seq(ToRep) /\ DOMAIN l = 1..Len(l) /\ \A i \in DOMAIN l : l[i] = d
      /\ s \in Seq(ToRep) /\ DOMAIN s = 1..Len(s) /\ \A i \in DOMAIN s : s[i] = e
  BY <1>1, ListOfIs
<1> HIDE DEF l, s, d, e
<1>3. /\ g \in Seq(ToRep) /\ DOMAIN g = 1..(Len(l) + Len(s))
      /\ \A i \in 1..Len(l) : g[i] = l[i]
      /\ \A i \in 1..(Len(l) + Len(s)) :
             (i \in 1..Len(l)) \/ (i - Len(l) \in 1..Len(s) /\ g[i] = s[i - Len(l)])
  BY <1>2, ConcatIs
<1>4. News(capture) = g
  BY DEF News, l, s
<1> HIDE DEF g
<1>5. \A i \in DOMAIN g : g[i] \in {d, e}
  BY <1>2, <1>3
<1> QED
  BY <1>3, <1>4, <1>5 DEF d, e

\* On the wire goes first what was held, then what was fired, in their orders.
LEMMA OutgoingJoins ==
    ASSUME Types, NEW capture \in BOOLEAN
    PROVE  LET G == Going(capture)
               A == AtOnce(capture)
               u == Outgoing(capture)
               U == Kind(u, "Fired")
           IN  /\ Ascends(G, Fires(G)) /\ Ascends(A, Fires(A)) /\ Precede(G, Fires(G), A, Fires(A))
                  => Ascends(u, U)
               /\ \A t, K : Precede(t, K, G, Fires(G)) /\ Precede(t, K, A, Fires(A)) => Precede(t, K, u, U)
               /\ \A t, K : Precede(G, Fires(G), t, K) /\ Precede(A, Fires(A), t, K) => Precede(u, U, t, K)
               /\ \A f : Until(G, Fires(G), f) /\ Until(A, Fires(A), f) => Until(u, U, f)
<1> DEFINE G == Going(capture)
           A == AtOnce(capture)
           g == Wired(G)
           a == Wired(A)
           N == News(capture)
           v == N \o g
           u == v \o a
           FG == Fires(G)
           FA == Fires(A)
           KG == Kind(g, "Fired")
           KA == Kind(a, "Fired")
           KV == Kind(v, "Fired")
           U == Kind(u, "Fired")
<1>1. /\ N \in Seq(ToRep) /\ g \in Seq(ToRep) /\ a \in Seq(ToRep) /\ v \in Seq(ToRep)
  BY OutgoingIs
<1>2. PartOf(g, KG, G, FG) /\ PartOf(a, KA, A, FA)
  BY TickLists, TickCuts, WiredPart
<1>3. Kind(N, "Fired") = {}
  <2>1. \A i \in DOMAIN N : N[i].kind # "Fired"
    BY NewsAre
  <2> QED
    BY <2>1 DEF Kind
<1>4. Outgoing(capture) = u
  BY DEF Outgoing
<1> HIDE DEF N, g, a, G, A
<1>5. /\ KV \in SUBSET DOMAIN (N \o g)
      /\ \A k \in KV : k \in 1..Len(N) => k \in {}
      /\ \A k \in KV : k \notin 1..Len(N) => k - Len(N) \in KG
  BY <1>1, <1>3, KindsJoin
<1>6. /\ U \in SUBSET DOMAIN (v \o a)
      /\ \A k \in U : k \in 1..Len(v) => k \in KV
      /\ \A k \in U : k \notin 1..Len(v) => k - Len(v) \in KA
  <2> HIDE DEF v
  <2> QED BY <1>1, KindsJoin
<1> HIDE DEF KG, KA, KV, U, FG, FA
<1>7. /\ Ascends(N, {}) /\ Ascends(g, KG) /\ Precede(N, {}, g, KG) => Ascends(N \o g, KV)
      /\ \A t, K : Precede(t, K, N, {}) /\ Precede(t, K, g, KG) => Precede(t, K, N \o g, KV)
      /\ \A t, K : Precede(N, {}, t, K) /\ Precede(g, KG, t, K) => Precede(N \o g, KV, t, K)
      /\ \A f : Until(N, {}, f) /\ Until(g, KG, f) => Until(N \o g, KV, f)
  BY <1>1, <1>5, JoinIs
<1>8. /\ Ascends(N, {}) /\ \A t, K : Precede(N, {}, t, K) /\ Precede(t, K, N, {})
      /\ \A f : Until(N, {}, f)
  BY DEF Ascends, Precede, Until
<1>9. v = N \o g
  OBVIOUS
<1>10. u = v \o a
  OBVIOUS
<1> HIDE DEF v, u
<1>11. /\ Ascends(v, KV) /\ Ascends(a, KA) /\ Precede(v, KV, a, KA) => Ascends(v \o a, U)
       /\ \A t, K : Precede(t, K, v, KV) /\ Precede(t, K, a, KA) => Precede(t, K, v \o a, U)
       /\ \A t, K : Precede(v, KV, t, K) /\ Precede(a, KA, t, K) => Precede(v \o a, U, t, K)
       /\ \A f : Until(v, KV, f) /\ Until(a, KA, f) => Until(v \o a, U, f)
  BY <1>1, <1>6, JoinIs
<1>12. /\ Ascends(G, FG) => Ascends(v, KV)
       /\ \A t, K : Precede(t, K, G, FG) => Precede(t, K, v, KV)
       /\ \A t, K : Precede(G, FG, t, K) => Precede(v, KV, t, K)
       /\ \A f : Until(G, FG, f) => Until(v, KV, f)
  <2>1. /\ Ascends(G, FG) => Ascends(g, KG)
        /\ \A t, K : Precede(t, K, G, FG) => Precede(t, K, g, KG)
        /\ \A t, K : Precede(G, FG, t, K) => Precede(g, KG, t, K)
        /\ \A f : Until(G, FG, f) => Until(g, KG, f)
    BY <1>2, PartAscends, PartPrecedes
  <2> QED
    BY <1>7, <1>8, <1>9, <2>1
<1>13. /\ Ascends(A, FA) => Ascends(a, KA)
       /\ \A t, K : Precede(t, K, A, FA) => Precede(t, K, a, KA)
       /\ \A t, K : Precede(A, FA, t, K) => Precede(a, KA, t, K)
       /\ \A f : Until(A, FA, f) => Until(a, KA, f)
  BY <1>2, PartAscends, PartPrecedes
<1>14. /\ Ascends(G, FG) /\ Ascends(A, FA) /\ Precede(G, FG, A, FA) => Ascends(u, U)
       /\ \A t, K : Precede(t, K, G, FG) /\ Precede(t, K, A, FA) => Precede(t, K, u, U)
       /\ \A t, K : Precede(G, FG, t, K) /\ Precede(A, FA, t, K) => Precede(u, U, t, K)
       /\ \A f : Until(G, FG, f) /\ Until(A, FA, f) => Until(u, U, f)
  BY <1>10, <1>11, <1>12, <1>13
<1> QED
  BY <1>4, <1>14 DEF U, FG, FA, G, A

\* Where what a tick deals out comes from.
LEMMA TickParts ==
    ASSUME Types, NEW capture \in BOOLEAN, TickEnds(capture)
    PROVE  LET G == Going(capture)
               A == AtOnce(capture)
               L == Left(capture)
               R == Later(capture)
               held == peer.held
           IN  /\ PartOf(G, Fires(G), held, Fires(held)) /\ PartOf(L, Fires(L), held, Fires(held))
               /\ PartOf(A, Fires(A), outbox, Fires(outbox)) /\ PartOf(R, Fires(R), outbox, Fires(outbox))
               /\ PartOf(outbox', Fires(outbox'), outbox, Fires(outbox))
               /\ Ascends(held, Fires(held)) => Precede(G, Fires(G), L, Fires(L))
               /\ Ascends(outbox, Fires(outbox)) => Precede(A, Fires(A), R, Fires(R))
               /\ Precede(A, Fires(A), L, Fires(L))
               /\ Precede(A, Fires(A), outbox', Fires(outbox')) /\ Precede(R, Fires(R), outbox', Fires(outbox'))
<1> DEFINE G == Going(capture)
           A == AtOnce(capture)
           L == Left(capture)
           R == Later(capture)
           F == Flush(capture)
           N == Named(capture)
           M == New(capture)
           held == peer.held
           S == Known(F, KnownNow(capture))
           T == Known(outbox, Numbered(capture))
           V == Unnamed(capture)
           X == Again(capture)
<1>1. held \in Seq(Message) /\ outbox \in Seq(Message)
  BY TypesGive, PeerIs DEF WorldTypes
<1>2. /\ F \in Seq(Message) /\ L \in Seq(Message) /\ Len(F) \in 0..Len(held) /\ Len(L) = Len(held) - Len(F)
      /\ \A i \in 1..Len(F) : F[i] = held[i]
      /\ \A i \in 1..Len(L) : /\ L[i].remote = held[Len(F) + i].remote
                              /\ L[i].call = held[Len(F) + i].call /\ L[i].n = held[Len(F) + i].n
  <2> DEFINE k == KnownNow(capture)
  <2>1. F = Flushed(held, k) /\ L = Rest(held, k)
    BY DEF Flush, Left
  <2> HIDE DEF held, k, F, L
  <2>2. LET f == Flushed(held, k)
            r == Rest(held, k)
        IN  /\ f \in Seq(Message) /\ r \in Seq(Message)
            /\ Len(f) \in 0..Len(held) /\ Len(r) = Len(held) - Len(f)
            /\ \A i \in 1..Len(f) : f[i] = held[i]
            /\ \A i \in 1..Len(r) : /\ r[i].remote = held[Len(f) + i].remote
                                    /\ r[i].call = held[Len(f) + i].call /\ r[i].n = held[Len(f) + i].n
    BY <1>1, FlushedIs
  <2> QED
    BY <2>1, <2>2
<1>3. /\ S \in SUBSET DOMAIN F /\ G = Sublist(F, S) /\ T \in SUBSET DOMAIN outbox /\ M = Sublist(outbox, T)
      /\ M \in Seq(Message) /\ N \in Seq(Message) /\ Alike(N, M) /\ V \in SUBSET DOMAIN outbox
      /\ X = Sublist(outbox, V) /\ G \in Seq(Message) /\ X \in Seq(Message)
  BY TickLists DEF Going, New, Again
<1>4. /\ A \in Seq(Message) /\ R \in Seq(Message) /\ Len(A) \in 0..Len(N) /\ Len(R) = Len(N) - Len(A)
      /\ \A i \in 1..Len(A) : A[i] = N[i]
      /\ \A i \in 1..Len(R) : R[i] = N[Len(A) + i]
      /\ Len(A) = 0 \/ L = <<>>
  BY TickCuts
<1>5. Alike(outbox', X)
  BY TickEndsTypes
<1>6. /\ \A i \in T : outbox[i].remote \in Numbered(capture)
      /\ \A i \in V : outbox[i].remote \notin Numbered(capture)
  BY DEF Known, Unnamed
<1> HIDE DEF G, A, L, R, F, N, M, held, S, T, V, X
<1>7. /\ Len(held) \in Nat /\ Len(F) \in Nat /\ Len(L) \in Nat /\ Len(N) \in Nat /\ Len(A) \in Nat /\ Len(R) \in Nat
      /\ DOMAIN A = 1..Len(A) /\ DOMAIN R = 1..Len(R) /\ DOMAIN N = 1..Len(N) /\ DOMAIN L = 1..Len(L)
  BY <1>1, <1>2, <1>3, <1>4, LenProperties
<1>8. /\ PartOf(F, Fires(F), held, Fires(held))
      /\ \A i \in Fires(F) : 0 + i \in Fires(held) /\ i \in 1..Len(F) /\ F[i].remote = held[0 + i].remote /\ F[i].n = held[0 + i].n
  <2>1. /\ 0 + Len(F) <= Len(held)
        /\ \A i \in 1..Len(F) : /\ F[i].remote = held[0 + i].remote /\ F[i].call = held[0 + i].call
                                /\ F[i].n = held[0 + i].n
    BY <1>2, <1>7
  <2> QED
    BY <1>1, <1>2, <2>1, PartOfStretch
<1>9. /\ PartOf(L, Fires(L), held, Fires(held))
      /\ \A i \in Fires(L) : /\ Len(F) + i \in Fires(held) /\ i \in 1..Len(L)
                             /\ L[i].remote = held[Len(F) + i].remote /\ L[i].n = held[Len(F) + i].n
  <2>1. Len(F) + Len(L) <= Len(held)
    BY <1>2, <1>7
  <2> QED
    BY <1>1, <1>2, <1>7, <2>1, PartOfStretch
<1>10. /\ PartOf(G, Fires(G), F, Fires(F))
       /\ \A n \in Fires(G) : Place(S, n) \in Fires(F) /\ G[n] = F[Place(S, n)]
  BY <1>2, <1>3, PartOfSublist
<1>11. PartOf(G, Fires(G), held, Fires(held))
  BY <1>8, <1>10, PartOfPart
<1>12. ASSUME Ascends(held, Fires(held)) PROVE Precede(G, Fires(G), L, Fires(L))
  <2> SUFFICES ASSUME NEW i \in Fires(G), NEW j \in Fires(L), G[i].remote = L[j].remote PROVE G[i].n < L[j].n
    BY DEF Precede
  <2> DEFINE p == Place(S, i)
  <2>1. p \in Fires(F) /\ G[i] = F[p]
    BY <1>10
  <2> HIDE DEF p
  <2>2. p \in 1..Len(F) /\ p \in Fires(held) /\ G[i].remote = held[p].remote /\ G[i].n = held[p].n
    <3>1. p \in 1..Len(F) /\ 0 + p \in Fires(held) /\ G[i].remote = held[0 + p].remote /\ G[i].n = held[0 + p].n
      BY <1>8, <2>1
    <3>2. 0 + p = p
      BY <3>1
    <3> QED
      BY <3>1, <3>2
  <2>3. /\ Len(F) + j \in Fires(held) /\ L[j].remote = held[Len(F) + j].remote /\ L[j].n = held[Len(F) + j].n
        /\ p < Len(F) + j
    <3>1. j \in 1..Len(L) /\ p \in 1..Len(F)
      BY <1>9, <2>2
    <3>2. p < Len(F) + j
      BY <1>7, <3>1
    <3> QED
      BY <1>9, <3>2
  <2> QED
    BY <1>12, <2>2, <2>3 DEF Ascends
<1>13. /\ PartOf(M, Fires(M), outbox, Fires(outbox))
       /\ \A n \in Fires(M) : Place(T, n) \in T /\ M[n] = outbox[Place(T, n)]
  BY <1>1, <1>3, PartOfSublist
<1>14. /\ PartOf(N, Fires(N), outbox, Fires(outbox))
       /\ \A n \in Fires(N) : N[n].remote \in Numbered(capture)
  <2>1. PartOf(N, Fires(N), M, Fires(M))
    BY <1>3, PartOfAlike
  <2>2. \A n \in Fires(N) : n \in Fires(M) /\ N[n].remote = M[n].remote
    BY <1>3 DEF Alike, Fires
  <2> QED
    BY <1>6, <1>13, <2>1, <2>2, PartOfPart
<1>15. /\ PartOf(A, Fires(A), N, Fires(N))
       /\ \A i \in Fires(A) : 0 + i \in Fires(N) /\ i \in 1..Len(A) /\ A[i].remote = N[0 + i].remote /\ A[i].n = N[0 + i].n
  <2>1. /\ 0 + Len(A) <= Len(N)
        /\ \A i \in 1..Len(A) : /\ A[i].remote = N[0 + i].remote /\ A[i].call = N[0 + i].call
                                /\ A[i].n = N[0 + i].n
    BY <1>4, <1>7
  <2> QED
    BY <1>3, <1>4, <2>1, PartOfStretch
<1>16. /\ PartOf(R, Fires(R), N, Fires(N))
       /\ \A i \in Fires(R) : /\ Len(A) + i \in Fires(N) /\ i \in 1..Len(R)
                              /\ R[i].remote = N[Len(A) + i].remote /\ R[i].n = N[Len(A) + i].n
  <2>1. /\ Len(A) + Len(R) <= Len(N)
        /\ \A i \in 1..Len(R) : /\ R[i].remote = N[Len(A) + i].remote /\ R[i].call = N[Len(A) + i].call
                                /\ R[i].n = N[Len(A) + i].n
    BY <1>4, <1>7
  <2> QED
    BY <1>3, <1>4, <1>7, <2>1, PartOfStretch
<1>17. PartOf(A, Fires(A), outbox, Fires(outbox)) /\ PartOf(R, Fires(R), outbox, Fires(outbox))
  BY <1>14, <1>15, <1>16, PartOfPart
<1>18. ASSUME Ascends(outbox, Fires(outbox)) PROVE Precede(A, Fires(A), R, Fires(R))
  <2>1. Ascends(N, Fires(N))
    BY <1>14, <1>18, PartAscends
  <2> SUFFICES ASSUME NEW i \in Fires(A), NEW j \in Fires(R), A[i].remote = R[j].remote PROVE A[i].n < R[j].n
    BY DEF Precede
  <2>2. /\ 0 + i \in Fires(N) /\ Len(A) + j \in Fires(N) /\ 0 + i < Len(A) + j
        /\ A[i].remote = N[0 + i].remote /\ A[i].n = N[0 + i].n
        /\ R[j].remote = N[Len(A) + j].remote /\ R[j].n = N[Len(A) + j].n
    BY <1>7, <1>15, <1>16
  <2> QED
    BY <2>1, <2>2 DEF Ascends
<1>19. Precede(A, Fires(A), L, Fires(L))
  <2>1. CASE Len(A) = 0
    <3>1. Fires(A) = {}
      BY <1>7, <2>1 DEF Fires
    <3> QED
      BY <3>1 DEF Precede
  <2>2. CASE L = <<>>
    <3>1. Fires(L) = {}
      BY <2>2 DEF Fires
    <3> QED
      BY <3>1 DEF Precede
  <2> QED
    BY <1>4, <2>1, <2>2
<1>20. /\ PartOf(X, Fires(X), outbox, Fires(outbox))
       /\ \A n \in Fires(X) : Place(V, n) \in V /\ X[n] = outbox[Place(V, n)]
  BY <1>1, <1>3, PartOfSublist
<1>21. /\ PartOf(outbox', Fires(outbox'), outbox, Fires(outbox))
       /\ \A n \in Fires(outbox') : outbox'[n].remote \notin Numbered(capture)
  <2>1. PartOf(outbox', Fires(outbox'), X, Fires(X))
    BY <1>5, PartOfAlike
  <2>2. \A n \in Fires(outbox') : n \in Fires(X) /\ outbox'[n].remote = X[n].remote
    BY <1>5 DEF Alike, Fires
  <2> QED
    BY <1>6, <1>20, <2>1, <2>2, PartOfPart
<1>22. Precede(A, Fires(A), outbox', Fires(outbox')) /\ Precede(R, Fires(R), outbox', Fires(outbox'))
  <2>1. \A i \in Fires(A) : A[i].remote \in Numbered(capture)
    <3>1. \A i \in Fires(A) : 0 + i \in Fires(N) /\ A[i].remote = N[0 + i].remote
      BY <1>15
    <3> QED
      BY <1>14, <3>1
  <2>2. \A i \in Fires(R) : R[i].remote \in Numbered(capture)
    BY <1>14, <1>16
  <2> QED
    BY <1>21, <2>1, <2>2 DEF Precede
<1> QED
  BY <1>9, <1>11, <1>12, <1>17, <1>18, <1>19, <1>21, <1>22 DEF G, A, L, R, held

LEMMA ChainTickEnds ==
    ASSUME Types, Chain, NEW capture \in BOOLEAN, TickEnds(capture) PROVE Chain'
<1> DEFINE G == Going(capture)
           A == AtOnce(capture)
           L == Left(capture)
           R == Later(capture)
           u == Outgoing(capture)
           p == peer.held
           p1 == L \o R
           w1 == toRep \o u
           b == rep.inbox
           FG == Fires(G)
           FA == Fires(A)
           FL == Fires(L)
           FR == Fires(R)
           U == Kind(u, "Fired")
           W == Kind(toRep, "Fired")
           W1 == Kind(w1, "Fired")
           H == DOMAIN heard
           B == Kind(b, "Fired")
           Q == Fires(p)
           Q1 == Fires(p1)
           O == Fires(outbox)
           O1 == Fires(outbox')
<1>1. /\ toRep' = IF up /\ Here(rep.conn) THEN w1 ELSE toRep
      /\ UNCHANGED <<fired, rep, heard>>
  BY TickEndsIs
<1>2. /\ peer.welcomed \in BOOLEAN
      /\ peer.welcomed => peer'.held = p1
      /\ ~peer.welcomed => peer' = peer
  BY PeerAfter, TypesGive, PeerIs
<1>3. /\ PartOf(G, FG, p, Q) /\ PartOf(L, FL, p, Q) /\ PartOf(A, FA, outbox, O) /\ PartOf(R, FR, outbox, O)
      /\ PartOf(outbox', O1, outbox, O)
      /\ Ascends(p, Q) => Precede(G, FG, L, FL)
      /\ Ascends(outbox, O) => Precede(A, FA, R, FR)
      /\ Precede(A, FA, L, FL) /\ Precede(A, FA, outbox', O1) /\ Precede(R, FR, outbox', O1)
  BY TickParts
<1>4. /\ Ascends(heard, H) /\ Ascends(b, B) /\ Ascends(toRep, W) /\ Ascends(p, Q) /\ Ascends(outbox, O)
      /\ Precede(heard, H, b, B) /\ Precede(heard, H, toRep, W) /\ Precede(heard, H, p, Q)
      /\ Precede(heard, H, outbox, O) /\ Precede(b, B, toRep, W) /\ Precede(b, B, p, Q)
      /\ Precede(b, B, outbox, O) /\ Precede(toRep, W, p, Q) /\ Precede(toRep, W, outbox, O)
      /\ Precede(p, Q, outbox, O)
      /\ Until(heard, H, fired) /\ Until(b, B, fired) /\ Until(toRep, W, fired)
      /\ Until(p, Q, fired) /\ Until(outbox, O, fired)
  BY DEF Chain, Line
<1>5. /\ Ascends(G, FG) /\ Ascends(A, FA) /\ Precede(G, FG, A, FA) => Ascends(u, U)
      /\ \A t, K : Precede(t, K, G, FG) /\ Precede(t, K, A, FA) => Precede(t, K, u, U)
      /\ \A t, K : Precede(G, FG, t, K) /\ Precede(A, FA, t, K) => Precede(u, U, t, K)
      /\ \A f : Until(G, FG, f) /\ Until(A, FA, f) => Until(u, U, f)
  BY OutgoingJoins
<1>6. toRep \in Seq(ToRep) /\ u \in Seq(ToRep) /\ L \in Seq(Message) /\ R \in Seq(Message)
  BY TypesGive, OutgoingIs, TickLists, TickCuts DEF WireTypes
<1> HIDE DEF G, A, L, R, u, p, b
<1>7. /\ W1 \in SUBSET DOMAIN (toRep \o u)
      /\ \A k \in W1 : k \in 1..Len(toRep) => k \in W
      /\ \A k \in W1 : k \notin 1..Len(toRep) => k - Len(toRep) \in U
  BY <1>6, KindsJoin
<1>8. /\ Q1 \in SUBSET DOMAIN (L \o R)
      /\ \A k \in Q1 : k \in 1..Len(L) => k \in FL
      /\ \A k \in Q1 : k \notin 1..Len(L) => k - Len(L) \in FR
  BY <1>6, FiresJoin
<1> HIDE DEF FG, FA, FL, FR, U, W, W1, H, B, Q, Q1, O, O1
<1>9. /\ Ascends(toRep, W) /\ Ascends(u, U) /\ Precede(toRep, W, u, U) => Ascends(toRep \o u, W1)
      /\ \A t, K : Precede(t, K, toRep, W) /\ Precede(t, K, u, U) => Precede(t, K, toRep \o u, W1)
      /\ \A t, K : Precede(toRep, W, t, K) /\ Precede(u, U, t, K) => Precede(toRep \o u, W1, t, K)
      /\ \A f : Until(toRep, W, f) /\ Until(u, U, f) => Until(toRep \o u, W1, f)
  BY <1>6, <1>7, JoinIs
<1>10. /\ Ascends(L, FL) /\ Ascends(R, FR) /\ Precede(L, FL, R, FR) => Ascends(L \o R, Q1)
       /\ \A t, K : Precede(t, K, L, FL) /\ Precede(t, K, R, FR) => Precede(t, K, L \o R, Q1)
       /\ \A t, K : Precede(L, FL, t, K) /\ Precede(R, FR, t, K) => Precede(L \o R, Q1, t, K)
       /\ \A f : Until(L, FL, f) /\ Until(R, FR, f) => Until(L \o R, Q1, f)
  BY <1>6, <1>8, JoinIs
<1>11. w1 = toRep \o u /\ p1 = L \o R
  OBVIOUS
<1> HIDE DEF w1, p1
<1>12. Ascends(G, FG) /\ Ascends(A, FA) /\ Ascends(L, FL) /\ Ascends(R, FR) /\ Ascends(outbox', O1)
  BY <1>3, <1>4, PartAscends
<1>13. ASSUME NEW s, NEW K, Precede(s, K, p, Q) PROVE Precede(s, K, G, FG) /\ Precede(s, K, L, FL)
  BY <1>3, <1>13, PartPrecedes
<1>14. ASSUME NEW s, NEW K, Precede(s, K, outbox, O)
       PROVE  Precede(s, K, A, FA) /\ Precede(s, K, R, FR) /\ Precede(s, K, outbox', O1)
  BY <1>3, <1>14, PartPrecedes
<1>15. /\ Precede(G, FG, outbox, O) /\ Precede(L, FL, outbox, O)
       /\ Until(G, FG, fired) /\ Until(L, FL, fired)
       /\ Until(A, FA, fired) /\ Until(R, FR, fired) /\ Until(outbox', O1, fired)
  BY <1>3, <1>4, PartPrecedes
<1>16. /\ Precede(G, FG, A, FA) /\ Precede(G, FG, R, FR) /\ Precede(G, FG, outbox', O1)
       /\ Precede(L, FL, R, FR) /\ Precede(L, FL, outbox', O1)
  BY <1>14, <1>15
<1>17. /\ Precede(heard, H, G, FG) /\ Precede(heard, H, L, FL) /\ Precede(heard, H, A, FA)
       /\ Precede(heard, H, R, FR) /\ Precede(heard, H, outbox', O1)
       /\ Precede(b, B, G, FG) /\ Precede(b, B, L, FL) /\ Precede(b, B, A, FA)
       /\ Precede(b, B, R, FR) /\ Precede(b, B, outbox', O1)
       /\ Precede(toRep, W, G, FG) /\ Precede(toRep, W, L, FL) /\ Precede(toRep, W, A, FA)
       /\ Precede(toRep, W, R, FR) /\ Precede(toRep, W, outbox', O1)
  BY <1>4, <1>13, <1>14
<1>18. Precede(G, FG, L, FL) /\ Precede(A, FA, R, FR)
  BY <1>3, <1>4
<1>19. /\ Ascends(u, U) /\ Precede(heard, H, u, U) /\ Precede(b, B, u, U) /\ Precede(toRep, W, u, U)
       /\ Precede(u, U, L, FL) /\ Precede(u, U, R, FR) /\ Precede(u, U, outbox', O1) /\ Until(u, U, fired)
  BY <1>3, <1>5, <1>12, <1>15, <1>16, <1>17, <1>18
<1>20. /\ Ascends(p1, Q1) /\ Precede(heard, H, p1, Q1) /\ Precede(b, B, p1, Q1) /\ Precede(toRep, W, p1, Q1)
       /\ Precede(u, U, p1, Q1) /\ Precede(p1, Q1, outbox', O1) /\ Until(p1, Q1, fired)
  BY <1>3, <1>10, <1>11, <1>12, <1>15, <1>16, <1>17, <1>19
<1>21. /\ Ascends(w1, W1) /\ Precede(heard, H, w1, W1) /\ Precede(b, B, w1, W1)
       /\ Precede(w1, W1, p1, Q1) /\ Precede(w1, W1, outbox', O1) /\ Until(w1, W1, fired)
  BY <1>4, <1>9, <1>11, <1>17, <1>19, <1>20
<1>22. Line(heard, b, w1, p1, outbox', fired)
  BY <1>4, <1>12, <1>15, <1>17, <1>20, <1>21 DEF Line, H, B, W1, Q1, O1
<1>23. Line(heard, b, toRep, p1, outbox', fired)
  BY <1>4, <1>12, <1>15, <1>17, <1>20 DEF Line, H, B, W, Q1, O1
<1>24. CASE peer.welcomed
  <2>1. toRep' = w1 \/ toRep' = toRep
    BY <1>1
  <2>2. peer'.held = p1
    BY <1>2, <1>24
  <2>3. Line(heard, b, toRep', p1, outbox', fired)
    BY <1>22, <1>23, <2>1
  <2> QED
    BY <1>1, <2>2, <2>3 DEF Chain, b
<1>25. CASE ~peer.welcomed
  <2>1. toRep' = toRep
    BY <1>1, <1>25 DEF Here
  <2>2. peer' = peer
    BY <1>2, <1>25
  <2> QED
    BY <1>1, <1>3, <2>1, <2>2, ChainPart, PartOfSame DEF O1, O
<1> QED
  BY <1>2, <1>24, <1>25

LEMMA ChainStep ==
    ASSUME Types, Chain, [Next]_vars PROVE Chain'
<1>0. ASSUME UNCHANGED <<outbox, fired, peer, rep, toRep, heard>> PROVE Chain'
  BY <1>0, ChainPart, PartOfSame
<1>1. CASE Dial
  BY <1>1, ChainDial
<1>2. CASE Break
  BY <1>2, ChainBreak
<1>3. CASE Receives
  <2>1. PICK k \in 1..Len(toAuth) : AuthorityReceive(k)
    BY <1>3 DEF Receives
  <2> QED
    BY <2>1, ChainReceives
<1>4. CASE TickStarts
  BY <1>4, ChainTickStarts
<1>5. CASE Handles
  <2>1. PICK wait \in Waits : Handle(wait)
    BY <1>5 DEF Handles
  <2> QED
    BY <2>1, ChainHandle
<1>6. CASE TimersDue
  BY <1>0, <1>6 DEF TimersDue, network
<1>7. CASE ResumeTimer
  BY <1>0, <1>7 DEF ResumeTimer, scripts, network
<1>8. CASE Script
  <2>1. CASE \E e \in Event : FireClient(e)
    <3>1. PICK e \in Event : FireClient(e)
      BY <2>1
    <3> QED
      BY <3>1, ChainFireClient
  <2>2. CASE \E wait \in Waits : Delay(wait)
    BY <1>0, <2>2 DEF Delay, BesideScript, network
  <2>3. CASE \E thread \in Thread : Cancel(thread)
    BY <1>0, <2>3 DEF Cancel, BesideScript, network
  <2>4. CASE (\E r \in Remote : Create(r) \/ Destroy(r) \/ Move(r)) \/ SetHandler \/ SetEnabled
    BY <1>0, <2>4, WorldChangeTypes DEF network
  <2> QED
    BY <1>8, <2>1, <2>2, <2>3, <2>4 DEF Script
<1>9. CASE Ends
  <2>1. PICK capture \in BOOLEAN : TickEnds(capture)
    BY <1>9 DEF Ends
  <2> QED
    BY <2>1, ChainTickEnds
<1>10. CASE ReplicaReceive
  BY <1>10, ChainReplicaReceive
<1>11. CASE ReplicaTick(TRUE) \/ ReplicaTick(FALSE)
  <2>1. PICK asks \in BOOLEAN : ReplicaTick(asks)
    BY <1>11
  <2> QED
    BY <2>1, ChainReplicaTick
<1>12. CASE UNCHANGED vars
  BY <1>0, <1>12 DEF vars, scripts, network
<1> QED
  BY <1>1, <1>2, <1>3, <1>4, <1>5, <1>6, <1>7, <1>8, <1>9, <1>10, <1>11, <1>12 DEF Next

\* Of one event, what is fired is heard in the order it was fired and at most once,
\* through every place it may wait in, however ids are given, instances come and go
\* and connections break: what is held and what goes at once never change places
\* (session.cpp, sendMessages and flush).
THEOREM HeardInOrderHolds == Spec => []HeardInOrder
<1>1. Init => Chain
  BY ChainInit
<1>2. Base /\ Chain /\ [Next]_vars => Chain'
  BY ChainStep DEF Base
<1>3. Chain => HeardInOrder
  BY DEF Chain, Line, Ascends, HeardInOrder
<1> QED
  BY <1>1, <1>2, <1>3, BaseHolds, PTL DEF Spec

-----------------------------------------------------------------------------
(* What is named is there.                                                   *)

\* A connection from its Hello to its end: a session that has lost its own has
\* nothing left to read, and while one stands the authority has either taken its
\* Hello, and will not hear of its end, or still has it before it.
Connected ==
    /\ rep.lost => ~up /\ toRep = <<>> /\ ~rep.welcomed
    /\ ~up => toRep = <<>> \/ toRep = <<Gone>>
    /\ up => Kind(toRep, "Gone") = {}
    /\ up /\ ~Here(rep.conn) => toRep = <<>> /\ ~rep.welcomed
    /\ up /\ Here(rep.conn) => Kind(toAuth, "Gone") = {}
    /\ \A i \in Kind(toAuth, "Hello") :
           /\ up /\ ~Here(rep.conn) /\ toAuth[i].conn = rep.conn
           /\ \A j \in DOMAIN toAuth : j > i => toAuth[j].kind = "Question"
    /\ peer.player <= rep.conn

\* What the authority takes the replica to know it knows, once it has read what is
\* on its way.
KnownIsThere == up /\ Here(rep.conn) => \A r \in peer.known : IsThere(r, Len(toRep))

There == Connected /\ KnownIsThere /\ NamedIsThere

LEMMA ThereInit ==
    ASSUME Init PROVE There
<1>1. /\ rep.conn = 0 /\ rep.lost = TRUE /\ rep.welcomed = FALSE /\ peer.player = 0
      /\ up = FALSE /\ toRep = <<>> /\ toAuth = <<>>
  BY DEF Init, Nobody
<1>2. \A k : Kind(toRep, k) = {} /\ Kind(toAuth, k) = {}
  BY <1>1 DEF Kind
<1>3. Connected
  BY <1>1, <1>2 DEF Connected
<1>4. KnownIsThere
  BY <1>1 DEF KnownIsThere
<1>5. NamedIsThere
  BY <1>1 DEF NamedIsThere
<1> QED
  BY <1>3, <1>4, <1>5 DEF There

LEMMA ThereSame ==
    ASSUME There, rep'.lost = rep.lost, rep'.welcomed = rep.welcomed, rep'.conn = rep.conn,
           rep'.locals = rep.locals, up' = up, toRep' = toRep, toAuth' = toAuth,
           peer'.player = peer.player, peer'.welcomed = peer.welcomed, peer'.known = peer.known
    PROVE  There'
<1>1. Connected'
  BY DEF There, Connected, Here, Kind
<1>2. \A r, n : IsThere(r, n) <=> IsThere(r, n)'
  BY DEF IsThere
<1>3. KnownIsThere'
  BY <1>2 DEF There, KnownIsThere, Here
<1>4. NamedIsThere'
  BY <1>2 DEF There, NamedIsThere
<1> QED
  BY <1>1, <1>3, <1>4 DEF There

LEMMA ThereDial ==
    ASSUME Types, There, Dial PROVE There'
<1> DEFINE h == [kind |-> "Hello", conn |-> rep.conn + 1]
<1>1. /\ rep.lost /\ ~up /\ toAuth' = Append(toAuth, h) /\ up' = TRUE
      /\ rep' = [rep EXCEPT !.conn = @ + 1, !.lost = FALSE]
      /\ UNCHANGED <<peer, toRep>>
  BY DEF Dial
<1>2. rep \in RepType /\ rep.conn \in Nat /\ toAuth \in Seq(ToAuth) /\ peer.player \in Nat
  BY TypesGive, RepIs, PeerIs DEF WireTypes
<1>3. rep'.conn = rep.conn + 1 /\ rep'.lost = FALSE /\ rep'.welcomed = rep.welcomed /\ rep'.locals = rep.locals
  <2> DEFINE r == [rep EXCEPT !.conn = @ + 1]
  <2>1. /\ r \in RepType /\ r.conn = rep.conn + 1 /\ r.welcomed = rep.welcomed /\ r.locals = rep.locals
    <3>1. rep \in RepType /\ rep.conn + 1 \in Nat
      BY <1>2
    <3> QED
      BY <3>1 DEF RepType
  <2>2. rep' = [r EXCEPT !.lost = FALSE]
    BY <1>1
  <2> HIDE DEF r
  <2> QED
    BY <2>1, <2>2 DEF RepType
<1>4. h \in ToAuth /\ h.kind = "Hello" /\ h.conn = rep.conn + 1
  BY <1>2 DEF ToAuth
<1> HIDE DEF h
<1>5. /\ Len(toAuth) \in Nat /\ DOMAIN toAuth = 1..Len(toAuth) /\ DOMAIN toAuth' = 1..(Len(toAuth) + 1)
      /\ \A i \in 1..Len(toAuth) : toAuth'[i] = toAuth[i]
      /\ toAuth'[Len(toAuth) + 1] = h
  BY <1>1, <1>2, <1>4, AppendIs
<1>6. toRep = <<>> /\ ~rep.welcomed /\ peer.player <= rep.conn /\ Kind(toAuth, "Hello") = {}
  BY <1>1 DEF There, Connected
<1>7. ~Here(rep.conn)'
  BY <1>1, <1>2, <1>3, <1>6 DEF Here
<1>8. \A i \in Kind(toAuth', "Hello") : i = Len(toAuth) + 1
  <2> SUFFICES ASSUME NEW i \in DOMAIN toAuth', toAuth'[i].kind = "Hello", i \in 1..Len(toAuth) PROVE FALSE
    BY <1>5 DEF Kind
  <2>1. i \in Kind(toAuth, "Hello")
    BY <1>5 DEF Kind
  <2> QED
    BY <1>6, <2>1
<1>9. \A i \in Kind(toAuth', "Hello") :
          /\ toAuth'[i].conn = rep'.conn
          /\ \A j \in DOMAIN toAuth' : j > i => toAuth'[j].kind = "Question"
  BY <1>3, <1>4, <1>5, <1>8
<1>10. Kind(toRep', "Gone") = {}
  BY <1>1, <1>6 DEF Kind
<1>11. Connected'
  <2>1. ~rep'.lost /\ up' /\ toRep' = <<>> /\ ~rep'.welcomed /\ peer'.player <= rep'.conn
    BY <1>1, <1>2, <1>3, <1>6
  <2> QED
    BY <1>7, <1>9, <1>10, <2>1 DEF Connected
<1>12. KnownIsThere'
  BY <1>7 DEF KnownIsThere
<1>13. NamedIsThere'
  BY <1>1, <1>6 DEF NamedIsThere
<1> QED
  BY <1>11, <1>12, <1>13 DEF There

LEMMA ThereBreak ==
    ASSUME Types, There, Break PROVE There'
<1>1. up /\ up' = FALSE /\ toRep' = <<Gone>> /\ toAuth' = <<Gone>> /\ UNCHANGED <<peer, rep>>
  BY DEF Break
<1>2. ~rep.lost /\ peer.player <= rep.conn
  BY <1>1 DEF There, Connected
<1>3. Kind(toAuth', "Hello") = {} /\ \A i \in DOMAIN toRep' : toRep'[i].kind = "Gone"
  BY <1>1 DEF Kind, Gone
<1>4. Connected'
  BY <1>1, <1>2, <1>3 DEF Connected
<1>5. KnownIsThere'
  BY <1>1 DEF KnownIsThere
<1>6. NamedIsThere'
  BY <1>3 DEF NamedIsThere
<1> QED
  BY <1>4, <1>5, <1>6 DEF There

\* What comes behind takes nothing away from what is in front.
LEMMA ThereBehind ==
    ASSUME NEW r, NEW n \in Nat, IsThere(r, n), rep'.locals = rep.locals,
           \A i \in 1..n : toRep'[i] = toRep[i]
    PROVE  IsThere(r, n)'
<1>1. PICK i \in 0..n : /\ IF i = 0 THEN r \in rep.locals ELSE Brings(toRep[i], r)
                        /\ \A j \in (i + 1)..n : ~Takes(toRep[j], r)
  BY DEF IsThere
<1>2. \A j \in (i + 1)..n : toRep'[j] = toRep[j]
  BY <1>1
<1>3. \A j \in (i + 1)..n : ~Takes(toRep'[j], r)
  BY <1>1, <1>2
<1>4. IF i = 0 THEN r \in rep'.locals ELSE Brings(toRep'[i], r)
  BY <1>1
<1>5. \E k \in 0..n : /\ IF k = 0 THEN r \in rep'.locals ELSE Brings(toRep'[k], r)
                      /\ \A j \in (k + 1)..n : ~Takes(toRep'[j], r)
  BY <1>3, <1>4
<1> QED
  BY <1>5 DEF IsThere

LEMMA ThereReceives ==
    ASSUME Types, There, NEW k \in 1..Len(toAuth), AuthorityReceive(k) PROVE There'
<1>1. /\ toAuth' = SubSeq(toAuth, k + 1, Len(toAuth))
      /\ peer' = IF Hellos(k) # {} THEN [Nobody EXCEPT !.welcomed = TRUE, !.player = Who(k)]
                 ELSE IF Kind(Polled(k), "Gone") # {} THEN Nobody ELSE peer
      /\ toRep' = IF Hellos(k) # {} /\ up THEN Append(toRep, [kind |-> "Welcome"]) ELSE toRep
      /\ UNCHANGED <<rep, up>>
  BY ReceiveIs
<1>2. /\ DOMAIN Polled(k) = 1..k /\ \A i \in 1..k : Polled(k)[i] = toAuth[i]
      /\ toAuth \in Seq(ToAuth) /\ Len(toAuth) \in Nat /\ k \in Nat /\ k <= Len(toAuth)
      /\ Hellos(k) # {} => Place(Hellos(k), 1) \in Hellos(k)
  BY PollIs
<1>3. /\ DOMAIN toAuth = 1..Len(toAuth) /\ DOMAIN toAuth' = 1..(Len(toAuth) - k)
      /\ \A i \in 1..(Len(toAuth) - k) : toAuth'[i] = toAuth[k + i]
  <2>1. k \in 0..Len(toAuth)
    BY <1>2
  <2> QED
    BY <1>1, <1>2, <2>1, CutIs
<1>4. \A q : \A i \in Kind(Polled(k), q) : i \in Kind(toAuth, q) /\ i \in 1..k
  BY <1>2, <1>3 DEF Kind
<1>5. \A q : \A i \in Kind(toAuth', q) : i \in 1..(Len(toAuth) - k) /\ k + i \in Kind(toAuth, q)
  <2> SUFFICES ASSUME NEW q, NEW i \in Kind(toAuth', q) PROVE i \in 1..(Len(toAuth) - k) /\ k + i \in Kind(toAuth, q)
    OBVIOUS
  <2>1. i \in 1..(Len(toAuth) - k) /\ toAuth'[i].kind = q
    BY <1>3 DEF Kind
  <2>2. k + i \in 1..Len(toAuth)
    BY <1>2, <2>1
  <2> QED
    BY <1>3, <2>1, <2>2 DEF Kind
<1>6. toRep \in Seq(ToRep) /\ rep.conn \in Nat /\ peer.player \in Nat /\ up \in BOOLEAN
  BY TypesGive, RepIs, PeerIs DEF WireTypes
<1>7. CASE Hellos(k) # {}
  <2> DEFINE f == Place(Hellos(k), 1)
  <2>1. f \in Hellos(k) /\ f \in Kind(toAuth, "Hello") /\ f \in 1..k
    BY <1>2, <1>4, <1>7 DEF Hellos
  <2>2. Who(k) = toAuth[f].conn
    BY <1>7 DEF Who
  <2> HIDE DEF f
  <2>3. /\ up /\ ~Here(rep.conn) /\ toAuth[f].conn = rep.conn
        /\ \A j \in DOMAIN toAuth : j > f => toAuth[j].kind = "Question"
    BY <2>1 DEF There, Connected
  <2>4. peer'.welcomed = TRUE /\ peer'.player = rep.conn /\ peer'.known = {}
    <3>1. peer' = [Nobody EXCEPT !.welcomed = TRUE, !.player = rep.conn]
      BY <1>1, <1>7, <2>2, <2>3
    <3> QED
      BY <1>6, <3>1, NewPeer
  <2>5. \A i \in DOMAIN toAuth' : toAuth'[i].kind = "Question"
    <3> SUFFICES ASSUME NEW i \in DOMAIN toAuth' PROVE toAuth'[i].kind = "Question"
      OBVIOUS
    <3>1. k + i \in DOMAIN toAuth /\ k + i > f /\ toAuth'[i] = toAuth[k + i]
      BY <1>2, <1>3, <2>1
    <3> QED
      BY <2>3, <3>1
  <2>6. toRep = <<>> /\ ~rep.welcomed /\ ~rep.lost
    BY <2>3 DEF There, Connected
  <2>7. toRep' = Append(<<>>, [kind |-> "Welcome"])
    BY <1>1, <1>7, <2>3, <2>6
  <2>8. toRep' = <<[kind |-> "Welcome"]>>
    BY <2>7
  <2>9. \A i \in DOMAIN toRep' : toRep'[i].kind = "Welcome"
    BY <2>8
  <2>10. Kind(toAuth', "Gone") = {} /\ Kind(toAuth', "Hello") = {} /\ Kind(toRep', "Gone") = {}
    BY <2>5, <2>9 DEF Kind
  <2>11. Here(rep.conn)'
    BY <1>1, <2>4 DEF Here
  <2>12. Connected'
    <3>1. ~rep'.lost /\ up' /\ peer'.player <= rep'.conn
      BY <1>1, <1>6, <2>3, <2>4, <2>6
    <3> QED
      BY <2>10, <2>11, <3>1 DEF Connected
  <2>13. KnownIsThere'
    BY <2>4 DEF KnownIsThere
  <2>14. NamedIsThere'
    BY <2>9 DEF NamedIsThere
  <2> QED
    BY <2>12, <2>13, <2>14 DEF There
<1>8. ASSUME Hellos(k) = {}
      PROVE  /\ toRep' = toRep
             /\ \A i \in Kind(toAuth', "Hello") :
                    /\ up /\ ~Here(rep.conn) /\ toAuth'[i].conn = rep.conn
                    /\ \A j \in DOMAIN toAuth' : j > i => toAuth'[j].kind = "Question"
             /\ up /\ Here(rep.conn) => Kind(toAuth', "Gone") = {}
  <2>1. toRep' = toRep
    BY <1>1, <1>8
  <2>2. ASSUME NEW i \in Kind(toAuth', "Hello")
        PROVE  /\ up /\ ~Here(rep.conn) /\ toAuth'[i].conn = rep.conn
               /\ \A j \in DOMAIN toAuth' : j > i => toAuth'[j].kind = "Question"
    <3>1. k + i \in Kind(toAuth, "Hello") /\ i \in 1..(Len(toAuth) - k) /\ toAuth'[i] = toAuth[k + i]
      BY <1>3, <1>5
    <3>2. /\ up /\ ~Here(rep.conn) /\ toAuth[k + i].conn = rep.conn
          /\ \A j \in DOMAIN toAuth : j > k + i => toAuth[j].kind = "Question"
      BY <3>1 DEF There, Connected
    <3>3. \A j \in DOMAIN toAuth' : j > i => k + j \in DOMAIN toAuth /\ k + j > k + i /\ toAuth'[j] = toAuth[k + j]
      BY <1>2, <1>3, <3>1
    <3> QED
      BY <3>1, <3>2, <3>3
  <2>3. ASSUME up, Here(rep.conn) PROVE Kind(toAuth', "Gone") = {}
    BY <1>5, <2>3 DEF There, Connected
  <2> QED
    BY <2>1, <2>2, <2>3
<1>9. ASSUME Hellos(k) = {}, peer' = peer PROVE There'
  <2>1. Here(rep.conn)' <=> Here(rep.conn)
    BY <1>1, <1>9 DEF Here
  <2>2. Connected'
    <3>1. /\ rep.lost => ~up /\ toRep = <<>> /\ ~rep.welcomed
          /\ ~up => toRep = <<>> \/ toRep = <<Gone>>
          /\ up => Kind(toRep, "Gone") = {}
          /\ up /\ ~Here(rep.conn) => toRep = <<>> /\ ~rep.welcomed
          /\ peer.player <= rep.conn
      BY DEF There, Connected
    <3> QED
      BY <1>1, <1>8, <1>9, <2>1, <3>1 DEF Connected
  <2>3. \A r, n : IsThere(r, n) <=> IsThere(r, n)'
    BY <1>1, <1>8, <1>9 DEF IsThere
  <2>4. KnownIsThere'
    BY <1>1, <1>8, <1>9, <2>1, <2>3 DEF There, KnownIsThere
  <2>5. NamedIsThere'
    BY <1>8, <1>9, <2>3 DEF There, NamedIsThere
  <2> QED
    BY <2>2, <2>4, <2>5 DEF There
<1>10. CASE Hellos(k) = {} /\ Kind(Polled(k), "Gone") # {}
  <2>1. peer' = Nobody /\ ~peer'.welcomed /\ peer'.player = 0
    BY <1>1, <1>10 DEF Nobody
  <2>2. Kind(toAuth, "Gone") # {}
    BY <1>4, <1>10
  <2>3. up => ~Here(rep.conn) /\ toRep = <<>> /\ ~rep.welcomed
    BY <2>2 DEF There, Connected
  <2>4. ~Here(rep.conn)'
    BY <2>1 DEF Here
  <2>5. Connected'
    <3>1. /\ rep.lost => ~up /\ toRep = <<>> /\ ~rep.welcomed
          /\ ~up => toRep = <<>> \/ toRep = <<Gone>>
          /\ up => Kind(toRep, "Gone") = {}
      BY DEF There, Connected
    <3>2. peer'.player <= rep'.conn /\ rep' = rep /\ up' = up /\ toRep' = toRep
      BY <1>1, <1>6, <1>8, <1>10, <2>1
    <3>3. \A i \in Kind(toAuth', "Hello") :
              /\ up' /\ toAuth'[i].conn = rep'.conn
              /\ \A j \in DOMAIN toAuth' : j > i => toAuth'[j].kind = "Question"
      BY <1>8, <1>10, <3>2
    <3> QED
      BY <2>3, <2>4, <3>1, <3>2, <3>3 DEF Connected
  <2>6. KnownIsThere'
    BY <2>4 DEF KnownIsThere
  <2>7. \A r, n : IsThere(r, n) <=> IsThere(r, n)'
    BY <1>1, <1>8, <1>10 DEF IsThere
  <2>8. NamedIsThere'
    BY <1>8, <1>10, <2>7 DEF There, NamedIsThere
  <2> QED
    BY <2>5, <2>6, <2>8 DEF There
<1>11. CASE Hellos(k) = {} /\ Kind(Polled(k), "Gone") = {}
  BY <1>1, <1>9, <1>11
<1> QED
  BY <1>7, <1>10, <1>11

\* Reading one message brings what the rest of the wire is read with.
LEMMA ThereAhead ==
    ASSUME Types, ReplicaReceive, NEW r, NEW n \in 1..Len(toRep), IsThere(r, n)
    PROVE  IsThere(r, n - 1)'
<1> DEFINE m == Head(toRep)
<1>1. /\ toRep # <<>> /\ toRep' = Tail(toRep) /\ m \in ToRep
      /\ rep'.locals = CASE m.kind = "Welcome" -> {}
                         [] m.kind = "Spawn"   -> rep.locals \cup m.ids
                         [] m.kind = "Despawn" -> rep.locals \ m.ids
                         [] OTHER -> rep.locals
  BY ReplicaReceiveIs
<1>2. /\ m = toRep[1] /\ Len(toRep) \in Nat \ {0} /\ DOMAIN toRep = 1..Len(toRep)
      /\ \A i \in 1..(Len(toRep) - 1) : toRep'[i] = toRep[i + 1]
  BY <1>1, TypesGive, TailIs DEF WireTypes
<1> HIDE DEF m
<1>3. PICK i \in 0..n : /\ IF i = 0 THEN r \in rep.locals ELSE Brings(toRep[i], r)
                        /\ \A j \in (i + 1)..n : ~Takes(toRep[j], r)
  BY DEF IsThere
<1>4. \A j \in i..(n - 1) : j >= 1 => ~Takes(toRep'[j], r)
  <2> SUFFICES ASSUME NEW j \in i..(n - 1), j >= 1 PROVE ~Takes(toRep'[j], r)
    OBVIOUS
  <2>1. j + 1 \in (i + 1)..n /\ j \in 1..(Len(toRep) - 1)
    BY <1>2, <1>3
  <2> QED
    BY <1>2, <1>3, <2>1
<1>5. CASE i = 0
  <2>1. ~Takes(m, r) /\ r \in rep.locals
    <3>1. 1 \in (i + 1)..n
      BY <1>2, <1>5
    <3> QED
      BY <1>2, <1>3, <1>5, <3>1
  <2>2. r \in rep'.locals
    BY <1>1, <2>1 DEF Takes
  <2>3. 0 \in 0..(n - 1) /\ \A j \in (0 + 1)..(n - 1) : ~Takes(toRep'[j], r)
    BY <1>2, <1>4, <1>5
  <2> QED
    BY <2>2, <2>3 DEF IsThere
<1>6. CASE i = 1
  <2>1. Brings(m, r)
    BY <1>2, <1>3, <1>6
  <2>2. r \in rep'.locals
    BY <1>1, <2>1 DEF Brings
  <2>3. 0 \in 0..(n - 1) /\ \A j \in (0 + 1)..(n - 1) : ~Takes(toRep'[j], r)
    BY <1>2, <1>4, <1>6
  <2> QED
    BY <2>2, <2>3 DEF IsThere
<1>7. CASE i > 1
  <2> DEFINE k == i - 1
  <2>1. /\ k \in 0..(n - 1) /\ k # 0 /\ k \in 1..(Len(toRep) - 1) /\ k + 1 = i /\ i # 0
    <3>1. n \in 1..Len(toRep) /\ i \in 0..n /\ i > 1 /\ Len(toRep) \in Nat
      BY <1>2, <1>7
    <3> QED
      BY <3>1
  <2> HIDE DEF k
  <2>2. Brings(toRep'[k], r)
    BY <1>2, <1>3, <2>1
  <2>3. \A j \in (k + 1)..(n - 1) : ~Takes(toRep'[j], r)
    BY <1>2, <1>4, <1>7, <2>1
  <2>4. IF k = 0 THEN r \in rep'.locals ELSE Brings(toRep'[k], r)
    BY <2>1, <2>2
  <2> QED
    BY <2>1, <2>3, <2>4 DEF IsThere
<1> QED
  BY <1>2, <1>3, <1>5, <1>6, <1>7

LEMMA ThereReplicaReceive ==
    ASSUME Types, There, ReplicaReceive PROVE There'
<1> DEFINE m == Head(toRep)
<1>1. /\ toRep # <<>> /\ toRep' = Tail(toRep) /\ m \in ToRep
      /\ UNCHANGED <<peer, up, toAuth>> /\ rep'.conn = rep.conn
      /\ rep'.lost = (rep.lost \/ m.kind = "Gone")
      /\ rep'.welcomed = ((rep.welcomed \/ m.kind = "Welcome") /\ m.kind # "Gone")
  BY ReplicaReceiveIs
<1>2. /\ m = toRep[1] /\ Len(toRep) \in Nat \ {0} /\ DOMAIN toRep = 1..Len(toRep)
      /\ Len(toRep') = Len(toRep) - 1 /\ DOMAIN toRep' = 1..(Len(toRep) - 1)
      /\ \A i \in 1..(Len(toRep) - 1) : toRep'[i] = toRep[i + 1]
  BY <1>1, TypesGive, TailIs DEF WireTypes
<1>3. rep.lost \in BOOLEAN /\ rep.welcomed \in BOOLEAN /\ up \in BOOLEAN
  BY TypesGive, RepIs DEF WireTypes
<1> HIDE DEF m
<1>4. /\ ~rep.lost
      /\ ~up => toRep = <<Gone>>
      /\ up => Kind(toRep, "Gone") = {} /\ Here(rep.conn)
      /\ up /\ Here(rep.conn) => Kind(toAuth, "Gone") = {}
      /\ \A i \in Kind(toAuth, "Hello") : up /\ ~Here(rep.conn)
      /\ peer.player <= rep.conn
  BY <1>1 DEF There, Connected
<1>5. Kind(toAuth, "Hello") = {}
  BY <1>4
<1>6. up => m.kind # "Gone"
  <2>1. 1 \in DOMAIN toRep
    BY <1>2
  <2> QED
    BY <1>2, <1>4, <2>1 DEF Kind
<1>7. ~up => toRep' = <<>> /\ m.kind = "Gone"
  <2>1. ASSUME ~up PROVE toRep' = <<>> /\ m.kind = "Gone"
    <3>1. toRep = <<Gone>>
      BY <1>4, <2>1
    <3>2. Tail(<<Gone>>) = <<>> /\ <<Gone>>[1] = Gone
      OBVIOUS
    <3> QED
      BY <1>1, <1>2, <3>1, <3>2 DEF Gone
  <2> QED
    BY <2>1
<1>8. up => Kind(toRep', "Gone") = {}
  <2> SUFFICES ASSUME up, NEW i \in DOMAIN toRep', toRep'[i].kind = "Gone" PROVE FALSE
    BY DEF Kind
  <2>1. i + 1 \in DOMAIN toRep /\ toRep[i + 1].kind = "Gone"
    BY <1>2
  <2>2. i + 1 \in Kind(toRep, "Gone")
    BY <2>1 DEF Kind
  <2> QED
    BY <1>4, <2>2
<1>9. Here(rep.conn)' <=> Here(rep.conn)
  BY <1>1 DEF Here
<1>10. Connected'
  <2>1. rep'.lost => ~up' /\ toRep' = <<>> /\ ~rep'.welcomed
    BY <1>1, <1>3, <1>4, <1>6, <1>7
  <2>2. ~up' => toRep' = <<>>
    BY <1>1, <1>7
  <2>3. up' => Kind(toRep', "Gone") = {}
    BY <1>1, <1>8
  <2>4. Kind(toAuth', "Hello") = {} /\ Kind(toAuth', "Gone") = Kind(toAuth, "Gone")
    BY <1>1, <1>5
  <2>5. peer'.player <= rep'.conn
    BY <1>1, <1>4
  <2>6. up' => Here(rep.conn)' /\ Kind(toAuth', "Gone") = {}
    BY <1>1, <1>4, <1>9, <2>4
  <2> QED
    BY <2>1, <2>2, <2>3, <2>4, <2>5, <2>6 DEF Connected
<1>11. KnownIsThere'
  <2> SUFFICES ASSUME up, NEW r \in peer.known PROVE IsThere(r, Len(toRep))'
    BY <1>1, <1>9 DEF KnownIsThere
  <2>1. PICK n \in Nat : n = Len(toRep)
    BY <1>2
  <2>2. n \in 1..Len(toRep) /\ IsThere(r, n) /\ Len(toRep') = n - 1
    BY <1>2, <1>4, <2>1 DEF There, KnownIsThere
  <2>3. IsThere(r, n - 1)'
    BY <2>2, ThereAhead
  <2> QED
    BY <2>2, <2>3 DEF IsThere
<1>12. NamedIsThere'
  <2> SUFFICES ASSUME NEW i \in DOMAIN toRep', toRep'[i].kind \in {"Fired", "Answer"}
               PROVE  IsThere(toRep[i].remote, i - 1)'
    BY DEF NamedIsThere
  <2> DEFINE r == toRep[i + 1].remote
  <2>1. /\ i + 1 \in DOMAIN toRep /\ toRep'[i] = toRep[i + 1] /\ (i + 1) - 1 = i /\ i \in 1..Len(toRep)
    BY <1>2
  <2>2. IsThere(r, i)
    BY <2>1 DEF There, NamedIsThere
  <2> QED
    BY <2>1, <2>2, ThereAhead
<1> QED
  BY <1>10, <1>11, <1>12 DEF There

LEMMA NewsBring ==
    ASSUME Types, NEW capture \in BOOLEAN, NEW r \in KnownNow(capture)
    PROVE  /\ \A i \in DOMAIN News(capture) : ~Takes(News(capture)[i], r)
           /\ r \notin peer.known => \E i \in DOMAIN News(capture) : Brings(News(capture)[i], r)
<1> DEFINE l == ListOf("Despawn", peer.known \ KnownNow(capture))
           s == ListOf("Spawn", KnownNow(capture) \ peer.known)
           e == [kind |-> "Spawn", ids |-> KnownNow(capture) \ peer.known]
           g == l \o s
<1>1. KnownNow(capture) \in SUBSET Remote /\ peer.known \in SUBSET Remote
  BY TickLists, PeerIs DEF Types, WireTypes
<1>2. \A i \in DOMAIN News(capture) : ~Takes(News(capture)[i], r)
  <2> SUFFICES ASSUME NEW i \in DOMAIN News(capture) PROVE ~Takes(News(capture)[i], r)
    OBVIOUS
  <2>1. \/ News(capture)[i] = [kind |-> "Despawn", ids |-> peer.known \ KnownNow(capture)]
        \/ News(capture)[i] = [kind |-> "Spawn", ids |-> KnownNow(capture) \ peer.known]
    BY NewsAre
  <2> QED
    BY <2>1 DEF Takes
<1>3. ASSUME r \notin peer.known PROVE \E i \in DOMAIN News(capture) : Brings(News(capture)[i], r)
  <2>1. /\ l \in Seq(ToRep) /\ s \in Seq(ToRep) /\ DOMAIN s = 1..Len(s) /\ \A i \in DOMAIN s : s[i] = e
        /\ Len(s) = 1
    <3>1. (KnownNow(capture) \ peer.known) # {}
      BY <1>3
    <3>2. (peer.known \ KnownNow(capture)) \in SUBSET Remote /\ (KnownNow(capture) \ peer.known) \in SUBSET Remote
      BY <1>1
    <3> QED
      BY <3>1, <3>2, ListOfIs
  <2>2. e.kind = "Spawn" /\ r \in e.ids
    BY <1>3
  <2>3. News(capture) = g
    BY DEF News
  <2> HIDE DEF l, s, e
  <2>4. /\ DOMAIN g = 1..(Len(l) + Len(s)) /\ Len(l) \in Nat
        /\ \A i \in 1..Len(s) : g[Len(l) + i] = s[i]
    <3>1. l \in Seq(ToRep) /\ s \in Seq(ToRep)
      BY <2>1
    <3> QED
      BY <3>1, ConcatIs
  <2> HIDE DEF g
  <2>5. Len(l) + 1 \in DOMAIN g /\ g[Len(l) + 1] = e
    BY <2>1, <2>4
  <2> QED
    BY <2>2, <2>3, <2>5 DEF Brings
<1> QED
  BY <1>2, <1>3

\* Behind the news goes only what is known.
LEMMA OutgoingHas ==
    ASSUME Types, NEW capture \in BOOLEAN
    PROVE  /\ Outgoing(capture) \in Seq(ToRep) /\ Len(News(capture)) \in Nat
           /\ Len(News(capture)) <= Len(Outgoing(capture))
           /\ \A i \in 1..Len(News(capture)) : Outgoing(capture)[i] = News(capture)[i]
           /\ \A i \in 1..Len(Outgoing(capture)) : i > Len(News(capture)) =>
                  Outgoing(capture)[i] \in Sent /\ Outgoing(capture)[i].remote \in KnownNow(capture)
<1> DEFINE N == News(capture)
           G == Going(capture)
           A == AtOnce(capture)
           K == KnownNow(capture)
           F == Flush(capture)
           S == Known(F, K)
           g == Wired(G)
           a == Wired(A)
           v == N \o g
           u == v \o a
<1>1. N \in Seq(ToRep) /\ g \in Seq(ToRep) /\ a \in Seq(ToRep) /\ v \in Seq(ToRep) /\ u = Outgoing(capture)
  BY OutgoingIs DEF Outgoing
<1>2. G \in Seq(Message) /\ A \in Seq(Message) /\ F \in Seq(Message) /\ S \in SUBSET DOMAIN F /\ G = Sublist(F, S)
  BY TickLists, TickCuts DEF Going
<1>3. \A i \in DOMAIN G : G[i].remote \in K
  <2> HIDE DEF G, F
  <2> SUFFICES ASSUME NEW i \in DOMAIN G PROVE G[i].remote \in K
    OBVIOUS
  <2>1. Place(S, i) \in S /\ G[i] = F[Place(S, i)]
    <3> HIDE DEF S
    <3> QED BY <1>2, SublistFrom
  <2> QED
    BY <2>1 DEF Known
<1>4. \A i \in DOMAIN A : A[i].remote \in K
  <2>1. \A i \in 1..Len(A) : A[i] = Named(capture)[i] /\ Named(capture)[i].remote \in K
    BY TickCuts
  <2>2. DOMAIN A = 1..Len(A)
    BY <1>2, LenProperties
  <2> QED
    BY <2>1, <2>2
<1> HIDE DEF N, G, A, K
<1>5. \A i \in DOMAIN g : g[i] \in Sent /\ g[i].remote \in K
  <2>1. g \in Seq(Sent) /\ DOMAIN g = DOMAIN G /\ \A i \in DOMAIN G : g[i].remote = G[i].remote
    BY <1>2, WiredIs
  <2> HIDE DEF g
  <2> QED BY <1>3, <2>1
<1>6. \A i \in DOMAIN a : a[i] \in Sent /\ a[i].remote \in K
  <2>1. a \in Seq(Sent) /\ DOMAIN a = DOMAIN A /\ \A i \in DOMAIN A : a[i].remote = A[i].remote
    BY <1>2, WiredIs
  <2> HIDE DEF a
  <2> QED BY <1>4, <2>1
<1> HIDE DEF g, a
<1>7. /\ Len(v) = Len(N) + Len(g) /\ Len(N) \in Nat /\ Len(g) \in Nat /\ DOMAIN g = 1..Len(g)
      /\ \A i \in 1..Len(N) : v[i] = N[i]
      /\ \A i \in 1..(Len(N) + Len(g)) :
             (i \in 1..Len(N)) \/ (i - Len(N) \in 1..Len(g) /\ v[i] = g[i - Len(N)])
  BY <1>1, ConcatIs
<1> HIDE DEF v
<1>8. /\ u \in Seq(ToRep) /\ Len(u) = Len(v) + Len(a) /\ Len(v) \in Nat /\ Len(a) \in Nat /\ DOMAIN a = 1..Len(a)
      /\ \A i \in 1..Len(v) : u[i] = v[i]
      /\ \A i \in 1..(Len(v) + Len(a)) :
             (i \in 1..Len(v)) \/ (i - Len(v) \in 1..Len(a) /\ u[i] = a[i - Len(v)])
  <2>1. v \in Seq(ToRep) /\ a \in Seq(ToRep)
    BY <1>1
  <2> QED
    BY <2>1, ConcatIs
<1> HIDE DEF u
<1>9. \A i \in 1..Len(N) : i \in 1..Len(v)
  BY <1>7, <1>8
<1>10. \A i \in 1..Len(u) : i > Len(N) => u[i] \in Sent /\ u[i].remote \in K
  <2> SUFFICES ASSUME NEW i \in 1..Len(u), i > Len(N) PROVE u[i] \in Sent /\ u[i].remote \in K
    OBVIOUS
  <2>1. CASE i \in 1..Len(v)
    <3>1. i - Len(N) \in DOMAIN g /\ u[i] = g[i - Len(N)]
      BY <1>7, <1>8, <2>1
    <3> QED
      BY <1>5, <3>1
  <2>2. CASE i \notin 1..Len(v)
    <3>1. i - Len(v) \in DOMAIN a /\ u[i] = a[i - Len(v)]
      BY <1>8, <2>2
    <3> QED
      BY <1>6, <3>1
  <2> QED
    BY <2>1, <2>2
<1>11. Len(N) <= Len(u)
  BY <1>7, <1>8
<1> QED
  BY <1>1, <1>7, <1>8, <1>9, <1>10, <1>11 DEF N, K

LEMMA ThereTickEnds ==
    ASSUME Types, There, NEW capture \in BOOLEAN, TickEnds(capture) PROVE There'
<1>1. /\ toRep' = IF up /\ Here(rep.conn) THEN toRep \o Outgoing(capture) ELSE toRep
      /\ UNCHANGED <<rep, up, toAuth>>
  BY TickEndsIs
<1>2. /\ peer'.welcomed = peer.welcomed /\ peer'.player = peer.player
      /\ peer.welcomed => peer'.known = KnownNow(capture)
  BY PeerAfter
<1>3. Here(rep.conn)' <=> Here(rep.conn)
  BY <1>1, <1>2 DEF Here
<1>4. CASE ~(up /\ Here(rep.conn))
  <2>1. toRep' = toRep
    BY <1>1, <1>4
  <2>2. Connected'
    BY <1>1, <1>2, <1>3, <2>1 DEF There, Connected
  <2>3. KnownIsThere'
    BY <1>1, <1>3, <1>4 DEF KnownIsThere
  <2>4. \A r, n : IsThere(r, n) <=> IsThere(r, n)'
    BY <1>1, <2>1 DEF IsThere
  <2>5. NamedIsThere'
    BY <2>1, <2>4 DEF There, NamedIsThere
  <2> QED
    BY <2>2, <2>3, <2>5 DEF There
<1>5. CASE up /\ Here(rep.conn)
  <2> DEFINE u == Outgoing(capture)
             N == News(capture)
             K == KnownNow(capture)
             x == Len(toRep)
             y == Len(N)
             z == Len(u)
  <2>1. toRep' = toRep \o u /\ peer.welcomed
    BY <1>1, <1>5 DEF Here
  <2>2. /\ u \in Seq(ToRep) /\ y \in Nat /\ y <= z
        /\ \A i \in 1..y : u[i] = N[i]
        /\ \A i \in 1..z : i > y => u[i] \in Sent /\ u[i].remote \in K
    BY OutgoingHas
  <2>3. toRep \in Seq(ToRep)
    BY TypesGive DEF WireTypes
  <2>4. N \in Seq(ToRep) /\ DOMAIN N = 1..y
    <3>1. N \in Seq(ToRep)
      BY OutgoingIs
    <3> QED
      BY <3>1, LenProperties
  <2>5. \A r \in K : /\ \A i \in DOMAIN N : ~Takes(N[i], r)
                     /\ r \notin peer.known => \E i \in DOMAIN N : Brings(N[i], r)
    BY NewsBring
  <2> HIDE DEF u, N, K
  <2>6. /\ Len(toRep') = x + z /\ DOMAIN toRep' = 1..(x + z) /\ x \in Nat /\ z \in Nat
        /\ DOMAIN toRep = 1..x
        /\ \A i \in 1..x : toRep'[i] = toRep[i]
        /\ \A i \in 1..(x + z) : (i \in 1..x) \/ (i - x \in 1..z /\ toRep'[i] = u[i - x])
    <3>1. LET c == toRep \o u
          IN  /\ Len(c) = x + z /\ DOMAIN c = 1..(x + z) /\ x \in Nat /\ z \in Nat
              /\ DOMAIN toRep = 1..x
              /\ \A i \in 1..x : c[i] = toRep[i]
              /\ \A i \in 1..(x + z) : (i \in 1..x) \/ (i - x \in 1..z /\ c[i] = u[i - x])
      BY <2>2, <2>3, ConcatIs
    <3> QED
      BY <2>1, <3>1
  <2>7. PICK X \in Nat, Y \in Nat, Z \in Nat : X = x /\ Y = y /\ Z = z
    BY <2>2, <2>6
  <2> HIDE DEF x, y, z
  <2>8. ASSUME NEW i \in (X + 1)..(X + Z)
        PROVE  \/ i - X \in 1..Y /\ toRep'[i] = N[i - X]
               \/ i - X > Y /\ toRep'[i] \in Sent /\ toRep'[i].remote \in K
    <3>1. i - X \in 1..Z /\ toRep'[i] = u[i - X]
      BY <2>6, <2>7
    <3> QED
      BY <2>2, <2>7, <3>1
  <2>9. ASSUME NEW r \in K, NEW i \in (X + 1)..(X + Z) PROVE ~Takes(toRep'[i], r)
    <3>1. CASE i - X \in 1..Y /\ toRep'[i] = N[i - X]
      BY <2>4, <2>5, <2>7, <3>1
    <3>2. CASE toRep'[i] \in Sent
      BY <3>2, SentIs DEF Takes
    <3> QED
      BY <2>8, <3>1, <3>2
  <2>10. ASSUME NEW r \in K, NEW n \in (X + Y)..(X + Z)
         PROVE  IsThere(r, n)'
    <3>1. CASE r \in peer.known
      <4>1. IsThere(r, X)
        BY <1>5, <2>7, <3>1 DEF There, KnownIsThere, x
      <4>2. PICK i \in 0..X : /\ IF i = 0 THEN r \in rep.locals ELSE Brings(toRep[i], r)
                              /\ \A j \in (i + 1)..X : ~Takes(toRep[j], r)
        BY <4>1 DEF IsThere
      <4>3. i \in 0..n /\ IF i = 0 THEN r \in rep'.locals ELSE Brings(toRep'[i], r)
        BY <1>1, <2>6, <2>7, <4>2
      <4>4. \A j \in (i + 1)..n : ~Takes(toRep'[j], r)
        <5> SUFFICES ASSUME NEW j \in (i + 1)..n PROVE ~Takes(toRep'[j], r)
          OBVIOUS
        <5>1. CASE j <= X
          BY <2>6, <2>7, <4>2, <5>1
        <5>2. CASE j > X
          <6>1. j \in (X + 1)..(X + Z)
            BY <5>2
          <6> QED
            BY <2>9, <6>1
        <5> QED
          BY <5>1, <5>2
      <4> QED
        BY <4>3, <4>4 DEF IsThere
    <3>2. CASE r \notin peer.known
      <4>1. PICK p \in 1..Y : Brings(N[p], r)
        BY <2>4, <2>5, <2>7, <3>2
      <4> DEFINE i == X + p
      <4>2. i \in (X + 1)..(X + Z) /\ i - X = p /\ i \in 0..n /\ i # 0
        BY <2>2, <2>7, <4>1
      <4> HIDE DEF i
      <4>3. toRep'[i] = N[p]
        BY <2>8, <4>1, <4>2
      <4>4. \A j \in (i + 1)..n : ~Takes(toRep'[j], r)
        <5> SUFFICES ASSUME NEW j \in (i + 1)..n PROVE ~Takes(toRep'[j], r)
          OBVIOUS
        <5>1. j \in (X + 1)..(X + Z)
          BY <4>2
        <5> QED
          BY <2>9, <5>1
      <4>5. IF i = 0 THEN r \in rep'.locals ELSE Brings(toRep'[i], r)
        BY <4>1, <4>2, <4>3
      <4> QED
        BY <4>2, <4>4, <4>5 DEF IsThere
    <3> QED
      BY <3>1, <3>2
  <2>11. KnownIsThere'
    <3> SUFFICES ASSUME NEW r \in peer'.known PROVE IsThere(r, Len(toRep))'
      BY DEF KnownIsThere
    <3>1. r \in K
      BY <1>2, <2>1 DEF K
    <3>2. PICK n \in Nat : n = X + Z
      OBVIOUS
    <3>3. n \in (X + Y)..(X + Z) /\ Len(toRep') = n
      BY <2>2, <2>6, <2>7, <3>2
    <3>4. IsThere(r, n)'
      BY <2>10, <3>1, <3>3
    <3> QED
      BY <3>3, <3>4 DEF IsThere
  <2>12. NamedIsThere'
    <3> SUFFICES ASSUME NEW i \in DOMAIN toRep', toRep'[i].kind \in {"Fired", "Answer"}
                 PROVE  IsThere(toRep[i].remote, i - 1)'
      BY DEF NamedIsThere
    <3>1. i \in 1..(X + Z)
      BY <2>6, <2>7
    <3>2. PICK r : r = toRep'[i].remote
      OBVIOUS
    <3>3. CASE i <= X
      <4>1. i \in DOMAIN toRep /\ toRep'[i] = toRep[i] /\ i - 1 \in Nat /\ i \in 1..X
        BY <2>6, <2>7, <3>1, <3>3
      <4>2. IsThere(r, i - 1)
        BY <3>2, <4>1 DEF There, NamedIsThere
      <4>3. \A j \in 1..(i - 1) : toRep'[j] = toRep[j]
        BY <2>6, <2>7, <4>1
      <4>4. IsThere(r, i - 1)'
        BY <1>1, <4>1, <4>2, <4>3, ThereBehind
      <4> QED
        BY <3>2, <4>4
    <3>4. CASE i > X
      <4>1. i \in (X + 1)..(X + Z)
        BY <3>1, <3>4
      <4>2. i - X > Y /\ r \in K
        <5>1. CASE i - X \in 1..Y /\ toRep'[i] = N[i - X]
          <6>1. N[i - X] \in {[kind |-> "Despawn", ids |-> peer.known \ KnownNow(capture)],
                              [kind |-> "Spawn", ids |-> KnownNow(capture) \ peer.known]}
            BY <2>4, <2>7, <5>1, NewsAre DEF N
          <6>2. N[i - X].kind \notin {"Fired", "Answer"}
            BY <6>1
          <6> QED
            BY <5>1, <6>2
        <5>2. CASE i - X > Y /\ toRep'[i].remote \in K
          BY <3>2, <5>2
        <5> QED
          BY <2>8, <4>1, <5>1, <5>2
      <4>3. i - 1 \in (X + Y)..(X + Z)
        BY <4>1, <4>2
      <4>4. IsThere(r, i - 1)'
        BY <2>10, <4>2, <4>3
      <4> QED
        BY <3>2, <4>4
    <3> QED
      BY <2>7, <3>1, <3>3, <3>4
  <2>13. Connected'
    <3>1. Kind(toRep', "Gone") = {}
      <4> SUFFICES ASSUME NEW i \in DOMAIN toRep', toRep'[i].kind = "Gone" PROVE FALSE
        BY DEF Kind
      <4>1. i \in 1..(X + Z)
        BY <2>6, <2>7
      <4>2. CASE i <= X
        <5>1. i \in DOMAIN toRep /\ toRep[i].kind = "Gone"
          BY <2>6, <2>7, <4>1, <4>2
        <5>2. i \in Kind(toRep, "Gone")
          BY <5>1 DEF Kind
        <5> QED
          BY <1>5, <5>2 DEF There, Connected
      <4>3. CASE i > X
        <5>1. i \in (X + 1)..(X + Z)
          BY <4>1, <4>3
        <5>2. CASE i - X \in 1..Y /\ toRep'[i] = N[i - X]
          <6>1. N[i - X] \in {[kind |-> "Despawn", ids |-> peer.known \ KnownNow(capture)],
                              [kind |-> "Spawn", ids |-> KnownNow(capture) \ peer.known]}
            BY <2>4, <2>7, <5>2, NewsAre DEF N
          <6>2. N[i - X].kind # "Gone"
            BY <6>1
          <6> QED
            BY <5>2, <6>2
        <5>3. CASE toRep'[i] \in Sent
          BY <5>3, SentIs
        <5> QED
          BY <2>8, <5>1, <5>2, <5>3
      <4> QED
        BY <2>7, <4>1, <4>2, <4>3
    <3>2. /\ ~rep.lost /\ Kind(toAuth, "Gone") = {} /\ Kind(toAuth, "Hello") = {} /\ peer.player <= rep.conn
      <4>1. ~rep.lost /\ Kind(toAuth, "Gone") = {} /\ peer.player <= rep.conn
        BY <1>5 DEF There, Connected
      <4>2. \A i \in Kind(toAuth, "Hello") : ~Here(rep.conn)
        BY DEF There, Connected
      <4> QED
        BY <1>5, <4>1, <4>2
    <3>3. /\ ~rep'.lost /\ up' /\ Kind(toAuth', "Gone") = {} /\ Kind(toAuth', "Hello") = {}
          /\ peer'.player <= rep'.conn /\ Here(rep.conn)'
      BY <1>1, <1>2, <1>3, <1>5, <3>2
    <3> QED
      BY <3>1, <3>3 DEF Connected
  <2> QED
    BY <2>11, <2>12, <2>13 DEF There
<1> QED
  BY <1>4, <1>5
LEMMA ThereReplicaTick ==
    ASSUME Types, There, NEW asks \in BOOLEAN, ReplicaTick(asks) PROVE There'
<1> DEFINE a == Asked(asks)
           X == Len(toAuth)
           Y == Len(a)
<1>1. /\ rep'.conn = rep.conn /\ rep'.welcomed = rep.welcomed /\ rep'.lost = rep.lost
      /\ rep'.locals = rep.locals /\ toAuth' = (IF up THEN toAuth \o a ELSE toAuth)
      /\ UNCHANGED <<peer, up, toRep>>
      /\ asks => rep.next \in Call
  BY ReplicaTickIs
<1>2. a \in Seq(ToAuth) /\ \A i \in DOMAIN a : a[i].kind = "Question"
  BY <1>1, QueuedIs
<1> HIDE DEF a
<1>3. CASE ~up
  <2>1. toAuth' = toAuth
    BY <1>1, <1>3
  <2> QED
    BY <1>1, <2>1, ThereSame
<1>4. CASE up
  <2>1. toAuth' = toAuth \o a /\ toAuth \in Seq(ToAuth) /\ a \in Seq(ToAuth)
    BY <1>1, <1>2, <1>4, TypesGive DEF WireTypes
  <2>2. /\ X \in Nat /\ Y \in Nat /\ DOMAIN toAuth = 1..X /\ DOMAIN a = 1..Y
        /\ DOMAIN toAuth' = 1..(X + Y)
        /\ \A i \in 1..X : toAuth'[i] = toAuth[i]
        /\ \A i \in 1..(X + Y) : i \in 1..X \/ (i - X \in 1..Y /\ toAuth'[i] = a[i - X])
    BY <2>1, ConcatIs
  <2> HIDE DEF X, Y
  <2>3. \A i \in 1..(X + Y) : i \notin 1..X => toAuth'[i].kind = "Question"
    BY <1>2, <2>2
  <2>4. ASSUME NEW k, k # "Question" PROVE Kind(toAuth', k) = Kind(toAuth, k)
    <3>1. \A i \in DOMAIN toAuth' : toAuth'[i].kind = k => i \in 1..X
      BY <2>2, <2>3, <2>4
    <3>2. \A i \in 1..X : i \in DOMAIN toAuth' /\ i \in DOMAIN toAuth
      BY <2>2
    <3> QED
      BY <2>2, <3>1, <3>2 DEF Kind
  <2>5. Kind(toAuth', "Gone") = Kind(toAuth, "Gone") /\ Kind(toAuth', "Hello") = Kind(toAuth, "Hello")
    BY <2>4
  <2>6. \A i \in Kind(toAuth, "Hello") :
            /\ up /\ ~Here(rep.conn) /\ toAuth[i].conn = rep.conn /\ i \in 1..X
            /\ \A j \in 1..X : j > i => toAuth[j].kind = "Question"
    BY <2>2 DEF There, Connected, Kind
  <2>7. \A i \in Kind(toAuth, "Hello") :
            /\ toAuth'[i].conn = rep.conn
            /\ \A j \in DOMAIN toAuth' : j > i => toAuth'[j].kind = "Question"
    BY <2>2, <2>3, <2>6
  <2>8. Here(rep.conn)' <=> Here(rep.conn)
    BY <1>1 DEF Here
  <2>9. Connected'
    <3>1. /\ rep.lost => ~up /\ toRep = <<>> /\ ~rep.welcomed
          /\ Kind(toRep, "Gone") = {} /\ peer.player <= rep.conn
          /\ ~Here(rep.conn) => toRep = <<>> /\ ~rep.welcomed
          /\ Here(rep.conn) => Kind(toAuth, "Gone") = {}
      BY <1>4 DEF There, Connected
    <3>2. /\ rep'.lost => ~up' /\ toRep' = <<>> /\ ~rep'.welcomed
          /\ Kind(toRep', "Gone") = {} /\ peer'.player <= rep'.conn /\ up'
          /\ ~Here(rep.conn)' => toRep' = <<>> /\ ~rep'.welcomed
          /\ Here(rep.conn)' => Kind(toAuth', "Gone") = {}
      BY <1>1, <1>4, <2>5, <2>8, <3>1
    <3>3. \A i \in Kind(toAuth', "Hello") :
              /\ up' /\ ~Here(rep.conn)' /\ toAuth'[i].conn = rep'.conn
              /\ \A j \in DOMAIN toAuth' : j > i => toAuth'[j].kind = "Question"
      BY <1>1, <1>4, <2>5, <2>6, <2>7, <2>8
    <3> QED
      BY <3>2, <3>3 DEF Connected
  <2>10. \A r, n : IsThere(r, n) <=> IsThere(r, n)'
    BY <1>1 DEF IsThere
  <2>11. KnownIsThere'
    BY <1>1, <2>8, <2>10 DEF There, KnownIsThere
  <2>12. NamedIsThere'
    BY <1>1, <2>10 DEF There, NamedIsThere
  <2> QED
    BY <2>9, <2>11, <2>12 DEF There
<1> QED
  BY <1>3, <1>4

LEMMA ThereStep ==
    ASSUME Types, There, [Next]_vars PROVE There'
<1>0. ASSUME UNCHANGED <<peer, rep, up, toRep, toAuth>> PROVE There'
  BY <1>0, ThereSame
<1>1. CASE Dial
  BY <1>1, ThereDial
<1>2. CASE Break
  BY <1>2, ThereBreak
<1>3. CASE Receives
  <2>1. PICK k \in 1..Len(toAuth) : AuthorityReceive(k)
    BY <1>3 DEF Receives
  <2> QED
    BY <2>1, ThereReceives
<1>4. CASE TickStarts
  BY <1>0, <1>4 DEF TickStarts, network
<1>5. CASE Handles
  <2>1. PICK wait \in Waits : Handle(wait)
    BY <1>5 DEF Handles
  <2> QED
    BY <1>0, <2>1 DEF Handle, network
<1>6. CASE TimersDue
  BY <1>0, <1>6 DEF TimersDue, network
<1>7. CASE ResumeTimer
  BY <1>0, <1>7 DEF ResumeTimer, network
<1>8. CASE Script
  BY <1>0, <1>8 DEF Script, FireClient, Delay, Cancel, Create, Destroy, Move, SetHandler, SetEnabled,
                    BesideScript, network
<1>9. CASE Ends
  <2>1. PICK capture \in BOOLEAN : TickEnds(capture)
    BY <1>9 DEF Ends
  <2> QED
    BY <2>1, ThereTickEnds
<1>10. CASE ReplicaReceive
  BY <1>10, ThereReplicaReceive
<1>11. CASE ReplicaTick(TRUE) \/ ReplicaTick(FALSE)
  <2>1. PICK asks \in BOOLEAN : ReplicaTick(asks)
    BY <1>11
  <2> QED
    BY <2>1, ThereReplicaTick
<1>12. CASE UNCHANGED vars
  BY <1>0, <1>12 DEF vars, network
<1> QED
  BY <1>1, <1>2, <1>3, <1>4, <1>5, <1>6, <1>7, <1>8, <1>9, <1>10, <1>11, <1>12 DEF Next

\* What is on its way to a replica names what it has by the time it is read there:
\* news of what comes and goes is sent before the messages of the same tick, and
\* what the authority takes the replica to know is forgotten with the connection
\* it was told on (session.cpp, send, sendMessages and the Hello).
THEOREM NamedIsThereHolds == Spec => []NamedIsThere
<1>1. Init => There
  BY ThereInit
<1>2. Base /\ There /\ [Next]_vars => There'
  BY ThereStep DEF Base
<1>3. There => NamedIsThere
  BY DEF There
<1> QED
  BY <1>1, <1>2, <1>3, BaseHolds, PTL DEF Spec

-----------------------------------------------------------------------------
(* How many elements of a list are of a kind.                                *)

Hits(s, T)  == {i \in DOMAIN s : s[i] \in T}
Tally(s, T) == Cardinality(Hits(s, T))

LEMMA Matched ==
    ASSUME NEW S, IsFiniteSet(S), NEW T, NEW f \in [S -> T],
           \A x, y \in S : f[x] = f[y] => x = y, \A t \in T : \E x \in S : f[x] = t
    PROVE  IsFiniteSet(T) /\ Cardinality(T) = Cardinality(S)
<1>1. f \in Injection(S, T)
  BY DEF Injection, IsInjective
<1>2. f \in Surjection(S, T)
  BY DEF Surjection
<1>3. ExistsBijection(S, T)
  BY <1>1, <1>2 DEF ExistsBijection, Bijection
<1> QED
  BY <1>3, FS_Bijection

LEMMA HitsAreFew ==
    ASSUME NEW A, NEW s \in Seq(A), NEW T
    PROVE  /\ Hits(s, T) \in SUBSET (1..Len(s)) /\ IsFiniteSet(Hits(s, T)) /\ Tally(s, T) \in Nat
           /\ Tally(s, T) = 0 <=> \A i \in DOMAIN s : s[i] \notin T
<1>1. Len(s) \in Nat /\ DOMAIN s = 1..Len(s)
  BY LenProperties
<1>2. Hits(s, T) \in SUBSET (1..Len(s))
  BY <1>1 DEF Hits
<1>3. IsFiniteSet(1..Len(s))
  BY <1>1, FS_Interval
<1>4. IsFiniteSet(Hits(s, T))
  BY <1>2, <1>3, FS_Subset
<1>5. Tally(s, T) \in Nat /\ (Tally(s, T) = 0 <=> Hits(s, T) = {})
  BY <1>4, FS_CardinalityType, FS_EmptySet DEF Tally
<1>6. Hits(s, T) = {} <=> \A i \in DOMAIN s : s[i] \notin T
  BY DEF Hits
<1> QED
  BY <1>2, <1>4, <1>5, <1>6

LEMMA TallyIsNat ==
    ASSUME NEW A, NEW s \in Seq(A), NEW T
    PROVE  Tally(s, T) \in Nat
  BY HitsAreFew

\* Of a list in two pieces.
Spliced(g, a, b) == /\ Len(g) = Len(a) + Len(b)
                    /\ \A i \in 1..Len(a) : g[i] = a[i]
                    /\ \A i \in 1..Len(b) : g[Len(a) + i] = b[i]
LEMMA TallySplice ==
    ASSUME NEW A, NEW a \in Seq(A), NEW b \in Seq(A), NEW g \in Seq(A), NEW T,
           Spliced(g, a, b)
    PROVE  Tally(g, T) = Tally(a, T) + Tally(b, T)
<1> DEFINE X == Len(a)
           Y == Len(b)
           S == Hits(a, T)
           R == Hits(b, T)
           U == Hits(g, T)
           V == U \ (1..X)
           f == [i \in R |-> X + i]
<1>1. /\ X \in Nat /\ Y \in Nat /\ DOMAIN a = 1..X /\ DOMAIN b = 1..Y /\ DOMAIN g = 1..(X + Y)
  BY LenProperties DEF Spliced
<1>2. /\ IsFiniteSet(S) /\ IsFiniteSet(R) /\ IsFiniteSet(U) /\ R \in SUBSET (1..Y) /\ S \in SUBSET (1..X)
      /\ U \in SUBSET (1..(X + Y)) /\ Cardinality(S) \in Nat /\ Cardinality(R) \in Nat
  BY HitsAreFew DEF Tally, Spliced
<1>3. /\ \A i \in 1..X : g[i] = a[i]
      /\ \A i \in 1..Y : g[X + i] = b[i]
  BY DEF Spliced
<1>4. U \cap (1..X) = S
  <2>1. ASSUME NEW i \in 1..X PROVE i \in U <=> i \in S
    BY <1>1, <1>3 DEF Hits
  <2> QED
    BY <1>2, <2>1
<1>5. \A i \in 1..Y : i \in R <=> X + i \in U
  BY <1>1, <1>3 DEF Hits
<1>6. \A i \in R : X + i \in V
  <2> HIDE DEF R, U, X, Y
  <2> QED BY <1>1, <1>2, <1>5
<1>7. \A j \in V : \E i \in R : X + i = j
  <2> HIDE DEF R, U, X, Y
  <2> SUFFICES ASSUME NEW j \in V PROVE \E i \in R : X + i = j
    OBVIOUS
  <2>1. j \in 1..(X + Y) /\ j \notin 1..X /\ j \in U
    BY <1>2
  <2>2. j - X \in 1..Y /\ X + (j - X) = j
    BY <1>1, <2>1
  <2>3. j - X \in R
    BY <1>5, <2>1, <2>2
  <2> QED
    BY <2>2, <2>3
<1> HIDE DEF V
<1>8. f \in [R -> V]
  BY <1>6
<1>9. \A i, j \in R : f[i] = f[j] => i = j
  <2> HIDE DEF R, X, Y
  <2> QED BY <1>1, <1>2
<1>10. \A j \in V : \E i \in R : f[i] = j
  BY <1>7
<1> HIDE DEF f, S, R, U, X, Y
<1>11. IsFiniteSet(V) /\ Cardinality(V) = Cardinality(R)
  BY <1>2, <1>8, <1>9, <1>10, Matched
<1>12. S \cup V = U /\ S \cap V = {}
  BY <1>4 DEF V
<1>13. Cardinality(U) = Cardinality(S) + Cardinality(V) - Cardinality(S \cap V)
  BY <1>2, <1>11, <1>12, FS_Union
<1>14. Cardinality(S \cap V) = 0
  BY <1>12, FS_EmptySet
<1>15. Cardinality(U) = Cardinality(S) + Cardinality(R)
  BY <1>2, <1>11, <1>13, <1>14
<1> QED
  BY <1>15 DEF Tally, S, R, U

LEMMA TallyConcat ==
    ASSUME NEW A, NEW a \in Seq(A), NEW b \in Seq(A), NEW T
    PROVE  Tally(a \o b, T) = Tally(a, T) + Tally(b, T)
<1> DEFINE g == a \o b
<1>1. /\ g \in Seq(A) /\ Len(g) = Len(a) + Len(b)
      /\ \A i \in 1..Len(a) : g[i] = a[i]
      /\ \A i \in 1..Len(b) : g[Len(a) + i] = b[i]
  BY ConcatIs
<1> HIDE DEF g
<1>2. Tally(g, T) = Tally(a, T) + Tally(b, T)
  BY <1>1, TallySplice DEF Spliced
<1> QED
  BY <1>2 DEF g

\* Of one element.
Whether(e, T) == IF e \in T THEN 1 ELSE 0
LEMMA TallyOne ==
    ASSUME NEW e, NEW T
    PROVE  Tally(<<e>>, T) = Whether(e, T)
<1> DEFINE s == <<e>>
<1>1. DOMAIN s = {1} /\ s[1] = e
  OBVIOUS
<1> HIDE DEF s
<1>2. CASE e \in T
  <2>1. Hits(s, T) = {1}
    BY <1>1, <1>2 DEF Hits
  <2> QED
    BY <1>2, <2>1, FS_Singleton DEF Tally, Whether, s
<1>3. CASE e \notin T
  <2>1. Hits(s, T) = {}
    BY <1>1, <1>3 DEF Hits
  <2> QED
    BY <1>3, <2>1, FS_EmptySet DEF Tally, Whether, s
<1> QED
  BY <1>2, <1>3

LEMMA TallyAppend ==
    ASSUME NEW A, NEW a \in Seq(A), NEW e \in A, NEW T
    PROVE  Tally(Append(a, e), T) = Tally(a, T) + Whether(e, T)
<1> DEFINE g == Append(a, e)
           b == <<e>>
<1>1. /\ g \in Seq(A) /\ Len(g) = Len(a) + 1 /\ Len(a) \in Nat
      /\ \A i \in 1..Len(a) : g[i] = a[i]
      /\ g[Len(a) + 1] = e
  BY AppendIs
<1>2. b \in Seq(A) /\ Len(b) = 1 /\ b[1] = e
  OBVIOUS
<1> HIDE DEF g, b
<1>3. /\ Len(g) = Len(a) + Len(b)
      /\ \A i \in 1..Len(b) : g[Len(a) + i] = b[i]
  BY <1>1, <1>2
<1>4. Tally(g, T) = Tally(a, T) + Tally(b, T)
  <2>1. a \in Seq(A) /\ b \in Seq(A) /\ g \in Seq(A)
    BY <1>1, <1>2
  <2>2. Spliced(g, a, b)
    BY <1>1, <1>3 DEF Spliced
  <2> QED
    BY <2>1, <2>2, TallySplice
<1>5. Tally(b, T) = Whether(e, T)
  BY TallyOne DEF b
<1> QED
  BY <1>4, <1>5 DEF g

LEMMA TallyTail ==
    ASSUME NEW A, NEW s \in Seq(A), s # <<>>, NEW T
    PROVE  Tally(s, T) = Whether(Head(s), T) + Tally(Tail(s), T)
<1> DEFINE a == <<Head(s)>>
           b == Tail(s)
<1>1. /\ Head(s) \in A /\ b \in Seq(A) /\ Len(s) \in Nat \ {0} /\ Head(s) = s[1]
      /\ Len(b) = Len(s) - 1
      /\ \A i \in 1..(Len(s) - 1) : b[i] = s[i + 1]
  BY TailIs
<1>2. a \in Seq(A) /\ Len(a) = 1 /\ a[1] = s[1]
  <2>1. Head(s) \in A /\ Head(s) = s[1]
    BY <1>1
  <2> QED
    BY <2>1
<1>3. Tally(a, T) = Whether(Head(s), T)
  BY TallyOne
<1> HIDE DEF a, b
<1>4. /\ Len(s) = Len(a) + Len(b)
      /\ \A i \in 1..Len(a) : s[i] = a[i]
      /\ \A i \in 1..Len(b) : s[Len(a) + i] = b[i]
  BY <1>1, <1>2
<1>5. Tally(s, T) = Tally(a, T) + Tally(b, T)
  <2>1. a \in Seq(A) /\ b \in Seq(A) /\ s \in Seq(A)
    BY <1>1, <1>2
  <2>2. Spliced(s, a, b)
    BY <1>4 DEF Spliced
  <2> QED
    BY <2>1, <2>2, TallySplice
<1> QED
  BY <1>3, <1>5 DEF b

LEMMA TallyCut ==
    ASSUME NEW A, NEW s \in Seq(A), NEW k \in 0..Len(s), NEW T
    PROVE  Tally(s, T) = Tally(SubSeq(s, 1, k), T) + Tally(SubSeq(s, k + 1, Len(s)), T)
<1> DEFINE a == SubSeq(s, 1, k)
           b == SubSeq(s, k + 1, Len(s))
<1>1. /\ a \in Seq(A) /\ b \in Seq(A) /\ Len(a) = k /\ Len(b) = Len(s) - k /\ Len(s) \in Nat
      /\ \A i \in 1..k : a[i] = s[i]
      /\ \A i \in 1..(Len(s) - k) : b[i] = s[k + i]
  BY CutIs
<1> HIDE DEF a, b
<1>4. k \in Nat /\ k <= Len(s)
  BY <1>1
<1>5. Len(s) = k + Len(b) /\ Len(b) = Len(s) - k
  BY <1>1, <1>4
<1>6. \A i \in 1..Len(b) : b[i] = s[k + i]
  BY <1>1, <1>5
<1>2. /\ Len(s) = Len(a) + Len(b)
      /\ \A i \in 1..Len(a) : s[i] = a[i]
      /\ \A i \in 1..Len(b) : s[Len(a) + i] = b[i]
  BY <1>1, <1>5, <1>6
<1>3. Tally(s, T) = Tally(a, T) + Tally(b, T)
  <2>1. a \in Seq(A) /\ b \in Seq(A) /\ s \in Seq(A)
    BY <1>1
  <2>2. Spliced(s, a, b)
    BY <1>2 DEF Spliced
  <2> QED
    BY <2>1, <2>2, TallySplice
<1> QED
  BY <1>3 DEF a, b

\* Of two lists alike.
LEMMA TallySame ==
    ASSUME NEW A, NEW s \in Seq(A), NEW B, NEW t \in Seq(B), NEW T, NEW U, DOMAIN s = DOMAIN t
    PROVE  /\ (\A i \in DOMAIN s : s[i] \in T <=> t[i] \in U) => Tally(s, T) = Tally(t, U)
           /\ (\A i \in DOMAIN s : s[i] \in T => t[i] \in U) => Tally(s, T) <= Tally(t, U)
<1>1. ASSUME \A i \in DOMAIN s : s[i] \in T <=> t[i] \in U PROVE Tally(s, T) = Tally(t, U)
  <2>1. Hits(s, T) = Hits(t, U)
    BY <1>1 DEF Hits
  <2> QED
    BY <2>1 DEF Tally
<1>2. ASSUME \A i \in DOMAIN s : s[i] \in T => t[i] \in U PROVE Tally(s, T) <= Tally(t, U)
  <2>1. Hits(s, T) \in SUBSET Hits(t, U)
    BY <1>2 DEF Hits
  <2>2. IsFiniteSet(Hits(t, U))
    BY HitsAreFew
  <2> QED
    BY <2>1, <2>2, FS_Subset DEF Tally
<1> QED
  BY <1>1, <1>2

\* Of some of a list.
LEMMA TallySublist ==
    ASSUME NEW A, NEW s \in Seq(A), NEW I \in SUBSET DOMAIN s, NEW T
    PROVE  Tally(Sublist(s, I), T) = Cardinality(I \cap Hits(s, T))
<1> DEFINE g == Sublist(s, I)
           S == Hits(g, T)
           R == I \cap Hits(s, T)
           f == [n \in S |-> Place(I, n)]
<1>1. /\ g \in Seq(A) /\ IsFiniteSet(S) /\ S \in SUBSET (1..Len(g))
  BY SublistIn, HitsAreFew
<1>2. /\ \A n \in DOMAIN g : Place(I, n) \in I /\ g[n] = s[Place(I, n)]
      /\ \A n, k \in DOMAIN g : n < k => Place(I, n) < Place(I, k)
      /\ \A i \in I : \E n \in DOMAIN g : Place(I, n) = i
  BY SublistFrom
<1>3. \A i \in I : i \in DOMAIN s /\ i \in Int
  BY LenProperties
<1> HIDE DEF g
<1>4. f \in [S -> R]
  BY <1>2, <1>3 DEF Hits
<1>5. \A n, k \in S : f[n] = f[k] => n = k
  <2>1. \A n, k \in DOMAIN g : Place(I, n) = Place(I, k) => n = k
    <3> SUFFICES ASSUME NEW n \in DOMAIN g, NEW k \in DOMAIN g, n # k PROVE Place(I, n) # Place(I, k)
      OBVIOUS
    <3>1. n \in Int /\ k \in Int
      BY <1>1, LenProperties
    <3>2. n < k \/ k < n
      BY <3>1
    <3>3. Place(I, n) \in Int /\ Place(I, k) \in Int
      BY <1>2, <1>3
    <3>4. Place(I, n) < Place(I, k) \/ Place(I, k) < Place(I, n)
      BY <1>2, <3>2
    <3> QED
      BY <3>3, <3>4
  <2> QED
    BY <2>1 DEF Hits
<1>6. \A i \in R : \E n \in S : f[n] = i
  <2> SUFFICES ASSUME NEW i \in R PROVE \E n \in S : f[n] = i
    OBVIOUS
  <2>1. PICK n \in DOMAIN g : Place(I, n) = i
    BY <1>2
  <2>2. n \in S
    BY <1>2, <2>1 DEF Hits
  <2> QED
    BY <2>1, <2>2
<1> HIDE DEF f, S, R
<1>7. Cardinality(R) = Cardinality(S)
  BY <1>1, <1>4, <1>5, <1>6, Matched
<1> QED
  BY <1>7 DEF Tally, S, R, g

\* A list and what is taken from it: two lots of it that have nothing in common
\* are no more than the whole, one with all of a kind has as many.
LEMMA TallyPart ==
    ASSUME NEW A, NEW s \in Seq(A), NEW I \in SUBSET DOMAIN s, NEW T
    PROVE  /\ Tally(Sublist(s, I), T) <= Tally(s, T)
           /\ (\A i \in DOMAIN s : s[i] \in T => i \in I) => Tally(Sublist(s, I), T) = Tally(s, T)
           /\ (\A i \in I : s[i] \notin T) => Tally(Sublist(s, I), T) = 0
<1> DEFINE U == Hits(s, T)
           R == I \cap U
<1>1. IsFiniteSet(U) /\ R \in SUBSET U
  BY HitsAreFew
<1>2. Tally(Sublist(s, I), T) = Cardinality(R) /\ Tally(s, T) = Cardinality(U)
  BY TallySublist DEF Tally
<1>3. (\A i \in DOMAIN s : s[i] \in T => i \in I) => R = U
  BY DEF Hits
<1>4. (\A i \in I : s[i] \notin T) => R = {}
  BY DEF Hits
<1> HIDE DEF U, R
<1>5. Cardinality(R) <= Cardinality(U)
  BY <1>1, FS_Subset
<1> QED
  BY <1>2, <1>3, <1>4, <1>5, FS_EmptySet

LEMMA TallyTwo ==
    ASSUME NEW A, NEW s \in Seq(A), NEW I \in SUBSET DOMAIN s, NEW J \in SUBSET DOMAIN s, I \cap J = {}, NEW T
    PROVE  /\ Tally(Sublist(s, I), T) + Tally(Sublist(s, J), T) <= Tally(s, T)
           /\ (\A i \in DOMAIN s : s[i] \in T => i \in I \cup J)
              => Tally(Sublist(s, I), T) + Tally(Sublist(s, J), T) = Tally(s, T)
<1> DEFINE U == Hits(s, T)
           R == I \cap U
           K == J \cap U
<1>1. IsFiniteSet(U) /\ R \in SUBSET U /\ K \in SUBSET U /\ R \cap K = {} /\ R \cup K \in SUBSET U
  BY HitsAreFew
<1>2. /\ Tally(Sublist(s, I), T) = Cardinality(R) /\ Tally(Sublist(s, J), T) = Cardinality(K)
      /\ Tally(s, T) = Cardinality(U)
  BY TallySublist DEF Tally
<1>3. (\A i \in DOMAIN s : s[i] \in T => i \in I \cup J) => R \cup K = U
  BY DEF Hits
<1> HIDE DEF U, R, K
<1>4. IsFiniteSet(R) /\ IsFiniteSet(K)
  BY <1>1, FS_Subset
<1>5. /\ Cardinality(R) \in Nat /\ Cardinality(K) \in Nat /\ Cardinality(R \cap K) = 0
      /\ Cardinality(R \cup K) = Cardinality(R) + Cardinality(K) - Cardinality(R \cap K)
  BY <1>1, <1>4, FS_CardinalityType, FS_Union, FS_EmptySet
<1>6. Cardinality(R \cup K) <= Cardinality(U)
  BY <1>1, FS_Subset
<1>7. Cardinality(R) + Cardinality(K) = Cardinality(R \cup K)
  BY <1>5
<1>8. ASSUME \A i \in DOMAIN s : s[i] \in T => i \in I \cup J
      PROVE  Cardinality(R) + Cardinality(K) = Cardinality(U)
  BY <1>3, <1>7, <1>8
<1> QED
  BY <1>2, <1>6, <1>7, <1>8

-----------------------------------------------------------------------------
(* Where a question is.                                                      *)

Awaiting(c)  == {e \in Waiting : e.call = c}
Asking(c)    == {e \in ToAuth : e.kind = "Question" /\ e.call = c}
AskedBy(c)   == {e \in Ask : e.call = c}
Replying(c)  == {e \in Message : e.call = c}
Replied(c)   == {e \in ToRep : e.kind = "Answer" /\ e.call = c}

\* What Places adds up.
Shares(c, o, w, b, r, m, h, v, a) ==
    Tally(o, Awaiting(c)) + Tally(w, Asking(c)) + Tally(b, AskedBy(c)) + Tally(r, AskedBy(c))
    + Tally(m, Replying(c)) + Tally(h, Replying(c)) + Tally(v, Replied(c)) + Tally(a, Replied(c))

At(s, c)    == Cardinality({i \in DOMAIN s : s[i].call = c})
On(s, k, c) == Cardinality({i \in Kind(s, k) : s[i].call = c})

LEMMA AwaitingAt ==
    ASSUME NEW s \in Seq(Waiting), NEW c
    PROVE  At(s, c) = Tally(s, Awaiting(c)) /\ Tally(s, Awaiting(c)) \in Nat
<1>1. \A i \in DOMAIN s : s[i] \in Waiting
  OBVIOUS
<1>2. {i \in DOMAIN s : s[i].call = c} = Hits(s, Awaiting(c))
  BY <1>1 DEF Hits, Awaiting
<1>3. Tally(s, Awaiting(c)) \in Nat
  BY TallyIsNat
<1> QED
  BY <1>2, <1>3 DEF Tally, At

LEMMA AskingOn ==
    ASSUME NEW s \in Seq(ToAuth), NEW c
    PROVE  On(s, "Question", c) = Tally(s, Asking(c)) /\ Tally(s, Asking(c)) \in Nat
<1>1. \A i \in DOMAIN s : s[i] \in ToAuth
  OBVIOUS
<1>2. {i \in Kind(s, "Question") : s[i].call = c} = Hits(s, Asking(c))
  BY <1>1 DEF Hits, Asking, Kind
<1>3. Tally(s, Asking(c)) \in Nat
  BY TallyIsNat
<1> QED
  BY <1>2, <1>3 DEF Tally, On

LEMMA AskedAt ==
    ASSUME NEW s \in Seq(Ask), NEW c
    PROVE  At(s, c) = Tally(s, AskedBy(c)) /\ Tally(s, AskedBy(c)) \in Nat
<1>1. \A i \in DOMAIN s : s[i] \in Ask
  OBVIOUS
<1>2. {i \in DOMAIN s : s[i].call = c} = Hits(s, AskedBy(c))
  BY <1>1 DEF Hits, AskedBy
<1>3. Tally(s, AskedBy(c)) \in Nat
  BY TallyIsNat
<1> QED
  BY <1>2, <1>3 DEF Tally, At

LEMMA ReplyingAt ==
    ASSUME NEW s \in Seq(Message), NEW c
    PROVE  At(s, c) = Tally(s, Replying(c)) /\ Tally(s, Replying(c)) \in Nat
<1>1. \A i \in DOMAIN s : s[i] \in Message
  OBVIOUS
<1>2. {i \in DOMAIN s : s[i].call = c} = Hits(s, Replying(c))
  BY <1>1 DEF Hits, Replying
<1>3. Tally(s, Replying(c)) \in Nat
  BY TallyIsNat
<1> QED
  BY <1>2, <1>3 DEF Tally, At

LEMMA RepliedOn ==
    ASSUME NEW s \in Seq(ToRep), NEW c
    PROVE  On(s, "Answer", c) = Tally(s, Replied(c)) /\ Tally(s, Replied(c)) \in Nat
<1>1. \A i \in DOMAIN s : s[i] \in ToRep
  OBVIOUS
<1>2. {i \in Kind(s, "Answer") : s[i].call = c} = Hits(s, Replied(c))
  BY <1>1 DEF Hits, Replied, Kind
<1>3. Tally(s, Replied(c)) \in Nat
  BY TallyIsNat
<1> QED
  BY <1>2, <1>3 DEF Tally, On

LEMMA SentToRep ==
    Seq(Sent) \subseteq Seq(ToRep)
<1>1. Sent \subseteq ToRep
  BY DEF ToRep
<1> QED
  BY <1>1, SeqMonotonic

LEMMA SharesAre ==
    ASSUME NEW c, NEW o \in Seq(Waiting), NEW w \in Seq(ToAuth), NEW b \in Seq(Ask), NEW r \in Seq(Ask),
           NEW m \in Seq(Message), NEW h \in Seq(Message), NEW v \in Seq(ToRep), NEW a \in Seq(Sent)
    PROVE  /\ Shares(c, o, w, b, r, m, h, v, a) =
                  At(o, c) + On(w, "Question", c) + At(b, c) + At(r, c) + At(m, c) + At(h, c)
                  + On(v, "Answer", c) + On(a, "Answer", c)
           /\ Tally(o, Awaiting(c)) \in Nat /\ Tally(w, Asking(c)) \in Nat
           /\ Tally(b, AskedBy(c)) \in Nat /\ Tally(r, AskedBy(c)) \in Nat
           /\ Tally(m, Replying(c)) \in Nat /\ Tally(h, Replying(c)) \in Nat
           /\ Tally(v, Replied(c)) \in Nat /\ Tally(a, Replied(c)) \in Nat
<1>1. a \in Seq(ToRep)
  BY SentToRep
<1>2. At(o, c) = Tally(o, Awaiting(c)) /\ Tally(o, Awaiting(c)) \in Nat
  BY AwaitingAt
<1>3. On(w, "Question", c) = Tally(w, Asking(c)) /\ Tally(w, Asking(c)) \in Nat
  BY AskingOn
<1>4. /\ At(b, c) = Tally(b, AskedBy(c)) /\ Tally(b, AskedBy(c)) \in Nat
      /\ At(r, c) = Tally(r, AskedBy(c)) /\ Tally(r, AskedBy(c)) \in Nat
  BY AskedAt
<1>5. /\ At(m, c) = Tally(m, Replying(c)) /\ Tally(m, Replying(c)) \in Nat
      /\ At(h, c) = Tally(h, Replying(c)) /\ Tally(h, Replying(c)) \in Nat
  BY ReplyingAt
<1>6. /\ On(v, "Answer", c) = Tally(v, Replied(c)) /\ Tally(v, Replied(c)) \in Nat
      /\ On(a, "Answer", c) = Tally(a, Replied(c)) /\ Tally(a, Replied(c)) \in Nat
  BY <1>1, RepliedOn
<1> QED
  BY <1>2, <1>3, <1>4, <1>5, <1>6 DEF Shares

LEMMA PlacesAre ==
    ASSUME Types, NEW c
    PROVE  /\ Places(c) = Shares(c, rep.outbox, toAuth, inbox, running, outbox, peer.held, toRep, rep.inbox)
           /\ Tally(rep.outbox, Awaiting(c)) \in Nat /\ Tally(toAuth, Asking(c)) \in Nat
           /\ Tally(inbox, AskedBy(c)) \in Nat /\ Tally(running, AskedBy(c)) \in Nat
           /\ Tally(outbox, Replying(c)) \in Nat /\ Tally(peer.held, Replying(c)) \in Nat
           /\ Tally(toRep, Replied(c)) \in Nat /\ Tally(rep.inbox, Replied(c)) \in Nat
<1>1. /\ rep.outbox \in Seq(Waiting) /\ toAuth \in Seq(ToAuth) /\ inbox \in Seq(Ask) /\ running \in Seq(Ask)
      /\ outbox \in Seq(Message) /\ peer.held \in Seq(Message) /\ toRep \in Seq(ToRep) /\ rep.inbox \in Seq(Sent)
  BY TypesGive, RepIs, PeerIs DEF WorldTypes, WireTypes
<1>2. Places(c) = At(rep.outbox, c) + On(toAuth, "Question", c) + At(inbox, c) + At(running, c) + At(outbox, c)
                  + At(peer.held, c) + On(toRep, "Answer", c) + On(rep.inbox, "Answer", c)
  BY DEF Places, At, On
<1> QED
  BY <1>1, <1>2, SharesAre

\* The same after a step.
LEMMA PlacesAfter ==
    ASSUME Types', NEW c
    PROVE  /\ Places(c)' = Shares(c, rep'.outbox, toAuth', inbox', running', outbox', peer'.held, toRep', rep'.inbox)
           /\ Tally(rep'.outbox, Awaiting(c)) \in Nat /\ Tally(toAuth', Asking(c)) \in Nat
           /\ Tally(inbox', AskedBy(c)) \in Nat /\ Tally(running', AskedBy(c)) \in Nat
           /\ Tally(outbox', Replying(c)) \in Nat /\ Tally(peer'.held, Replying(c)) \in Nat
           /\ Tally(toRep', Replied(c)) \in Nat /\ Tally(rep'.inbox, Replied(c)) \in Nat
<1>1. rep' \in RepType /\ peer' \in PeerType
  BY DEF Types, WireTypes
<1>2. /\ rep'.outbox \in Seq(Waiting) /\ rep'.inbox \in Seq(Sent) /\ peer'.held \in Seq(Message)
  BY <1>1 DEF RepType, PeerType
<1>3. /\ toAuth' \in Seq(ToAuth) /\ inbox' \in Seq(Ask) /\ running' \in Seq(Ask)
      /\ outbox' \in Seq(Message) /\ toRep' \in Seq(ToRep)
  BY DEF Types, WorldTypes, WireTypes
<1>4. Places(c)' = At(rep'.outbox, c) + On(toAuth', "Question", c) + At(inbox', c) + At(running', c)
                   + At(outbox', c) + At(peer'.held, c) + On(toRep', "Answer", c) + On(rep'.inbox, "Answer", c)
  BY DEF Places, At, On
<1> QED
  BY <1>2, <1>3, <1>4, SharesAre

\* Questions nothing has happened to.
Live == rep.waiters \ excused

\* A question at the authority was asked on the connection that stands, of a
\* function that has been given an id.
Attended(s) == \A i \in DOMAIN s : s[i].call \in Live => s[i].player = rep.conn /\ Fn \in ids
Numberable  == \A i \in DOMAIN outbox : outbox[i].call \in Live => Fn \in ids

Parked == \A i \in DOMAIN running :
              running[i].call \in excused \cup ended \cup Threads(timers) \cup Threads(due)

Course ==
    /\ \A c \in Call : c >= rep.next => Places(c) = 0
    /\ \A c \in Live : Places(c) = 1
    /\ \A c \in Live : up /\ rep.welcomed /\ Fn \in alive
    /\ \A i \in DOMAIN rep.outbox : rep.outbox[i].call \notin Live
    /\ Attended(inbox) /\ Attended(running) /\ Numberable
    /\ Parked
    /\ due # <<>> => phase = "resume"

LEMMA CourseInit ==
    ASSUME Init PROVE Course
<1>1. /\ inbox = <<>> /\ running = <<>> /\ outbox = <<>> /\ due = <<>> /\ peer = Nobody
      /\ toRep = <<>> /\ toAuth = <<>> /\ rep.inbox = <<>> /\ rep.outbox = <<>> /\ rep.waiters = {}
  BY DEF Init
<1>2. peer.held = <<>>
  BY <1>1 DEF Nobody
<1>3. Live = {}
  BY <1>1 DEF Live
<1>4. \A c, T : Tally(<<>>, T) = 0
  <2>1. \A T : Hits(<<>>, T) = {}
    BY DEF Hits
  <2> QED
    BY <2>1, FS_EmptySet DEF Tally
<1>5. \A c \in Call : Places(c) = 0
  BY <1>1, <1>2, <1>4, TypesInit, PlacesAre DEF Shares
<1> QED
  BY <1>1, <1>3, <1>5 DEF Course, Attended, Numberable, Parked

\* What has not happened to a question yet.
LEMMA LiveIs ==
    ASSUME Types, There, Course, NEW c \in Live
    PROVE  /\ c \in Call /\ c < rep.next /\ Places(c) = 1 /\ up /\ rep.welcomed /\ Fn \in alive
           /\ Here(rep.conn) /\ Kind(toAuth, "Gone") = {} /\ Kind(toAuth, "Hello") = {}
           /\ Kind(toRep, "Gone") = {}
<1>1. c \in rep.waiters /\ rep.waiters \in SUBSET Call /\ c < rep.next
  BY TypesGive, RepIs DEF Live, WireTypes
<1>2. up /\ rep.welcomed /\ Fn \in alive /\ Places(c) = 1
  BY DEF Course
<1>3. /\ Here(rep.conn) /\ Kind(toAuth, "Gone") = {} /\ Kind(toRep, "Gone") = {}
      /\ \A i \in Kind(toAuth, "Hello") : ~Here(rep.conn)
  BY <1>2 DEF There, Connected
<1> QED
  BY <1>1, <1>2, <1>3

LEMMA CourseFrom ==
    ASSUME Types, Types', Course,
           rep'.next = rep.next, rep'.waiters = rep.waiters, rep'.outbox = rep.outbox, excused \subseteq excused',
           \A c \in Call : Places(c)' <= Places(c),
           \A c \in Live : c \notin excused' => Places(c)' = Places(c) /\ up' /\ rep'.welcomed /\ Fn \in alive',
           Attended(inbox)', Attended(running)', Numberable', Parked',
           due' # <<>> => phase' = "resume"
    PROVE  Course'
<1>1. \A c \in Live' : c \in Live /\ c \notin excused'
  BY DEF Live
<1>2. ASSUME NEW c \in Call, c >= rep'.next PROVE Places(c)' = 0
  <2>1. Places(c)' \in Nat
    BY PlacesAfter DEF Shares
  <2>2. Places(c) = 0 /\ Places(c)' <= Places(c)
    BY <1>2 DEF Course
  <2> QED
    BY <2>1, <2>2
<1>3. \A c \in Live' : Places(c)' = 1 /\ up' /\ rep'.welcomed /\ Fn \in alive'
  <2> SUFFICES ASSUME NEW c \in Live' PROVE Places(c)' = 1 /\ up' /\ rep'.welcomed /\ Fn \in alive'
    OBVIOUS
  <2>1. c \in Live /\ c \notin excused'
    BY <1>1
  <2>2. Places(c) = 1
    BY <2>1 DEF Course
  <2>3. Places(c)' = Places(c) /\ up' /\ rep'.welcomed /\ Fn \in alive'
    BY <2>1
  <2> QED
    BY <2>2, <2>3
<1>4. \A i \in DOMAIN rep'.outbox : rep'.outbox[i].call \notin Live'
  BY <1>1 DEF Course
<1> QED
  BY <1>2, <1>3, <1>4 DEF Course

\* A step that leaves every place as it is.
LEMMA CourseSame ==
    ASSUME Types, Types', Course, UNCHANGED <<inbox, running, outbox, ids, toRep, toAuth, rep>>,
           peer'.held = peer.held, excused \subseteq excused',
           \A c \in Live : c \notin excused' => up' /\ Fn \in alive',
           Parked', due' # <<>> => phase' = "resume"
    PROVE  Course'
<1>1. \A c \in Call : Places(c)' = Places(c) /\ Places(c) \in Int
  <2> SUFFICES ASSUME NEW c \in Call PROVE Places(c)' = Places(c) /\ Places(c) \in Int
    OBVIOUS
  <2>1. Places(c) \in Int
    BY PlacesAre DEF Shares
  <2>2. Places(c)' = Places(c)
    BY PlacesAre, PlacesAfter
  <2> QED
    BY <2>1, <2>2
<1>2. \A c \in Call : Places(c)' <= Places(c)
  BY <1>1
<1>3. \A c \in Live : c \notin excused' => Places(c)' = Places(c) /\ up' /\ rep'.welcomed /\ Fn \in alive'
  <2>1. \A c \in Live : c \in Call /\ rep.welcomed
    BY TypesGive, RepIs DEF Course, Live
  <2> QED
    BY <1>1, <2>1
<1>4. Attended(inbox)' /\ Attended(running)' /\ Numberable'
  BY DEF Course, Attended, Numberable, Live
<1> QED
  BY <1>2, <1>3, <1>4, CourseFrom

LEMMA CourseDial ==
    ASSUME Types, Types', Course, Dial PROVE Course'
<1> DEFINE h == [kind |-> "Hello", conn |-> rep.conn + 1]
           r == [rep EXCEPT !.conn = @ + 1]
<1>1. /\ ~up /\ toAuth' = Append(toAuth, h) /\ rep' = [r EXCEPT !.lost = FALSE]
      /\ UNCHANGED <<scripts, tick, ids, peer, toRep, excused>>
  BY DEF Dial
<1>2. rep \in RepType /\ rep.conn + 1 \in Nat /\ toAuth \in Seq(ToAuth)
  BY TypesGive, RepIs DEF WireTypes
<1>3. h \in ToAuth /\ h.kind = "Hello"
  BY <1>2 DEF ToAuth
<1>4. /\ r \in RepType /\ r.outbox = rep.outbox /\ r.inbox = rep.inbox /\ r.next = rep.next
      /\ r.waiters = rep.waiters
  BY <1>2 DEF RepType
<1> HIDE DEF h, r
<1>5. /\ rep'.outbox = rep.outbox /\ rep'.inbox = rep.inbox /\ rep'.next = rep.next
      /\ rep'.waiters = rep.waiters
  BY <1>1, <1>4 DEF RepType
<1>6. Live = {} /\ Live' = {}
  <2>1. Live = {}
    BY <1>1 DEF Course
  <2> QED
    BY <1>1, <1>5, <2>1 DEF Live
<1>7. ASSUME NEW c \in Call PROVE Places(c)' <= Places(c)
  <2>1. Tally(toAuth', Asking(c)) = Tally(toAuth, Asking(c)) + Whether(h, Asking(c))
    BY <1>1, <1>2, <1>3, TallyAppend
  <2>2. Whether(h, Asking(c)) = 0
    BY <1>3 DEF Whether, Asking
  <2>3. /\ inbox' = inbox /\ running' = running /\ outbox' = outbox /\ peer' = peer /\ toRep' = toRep
    BY <1>1 DEF scripts, tick
  <2>4. Tally(toAuth', Asking(c)) = Tally(toAuth, Asking(c))
    BY <2>1, <2>2, PlacesAre
  <2>5. Places(c)' = Places(c) /\ Places(c) \in Int
    BY <1>5, <2>3, <2>4, PlacesAre, PlacesAfter DEF Shares
  <2> QED
    BY <2>5
<1>8. Attended(inbox)' /\ Attended(running)' /\ Numberable'
  BY <1>6 DEF Attended, Numberable
<1>9. Parked' /\ (due' # <<>> => phase' = "resume")
  BY <1>1 DEF Course, Parked, scripts, tick, Threads
<1> QED
  BY <1>1, <1>5, <1>6, <1>7, <1>8, <1>9, CourseFrom

LEMMA CourseBreak ==
    ASSUME Types, Types', Course, Break PROVE Course'
<1>1. /\ toRep' = <<Gone>> /\ toAuth' = <<Gone>> /\ excused' = excused \cup rep.waiters
      /\ UNCHANGED <<outbox, timers, tick, ids, peer, rep>>
  BY DEF Break
<1>2. Live' = {}
  BY <1>1 DEF Live
<1>3. ASSUME NEW c \in Call PROVE Places(c)' <= Places(c)
  <2>1. Gone \notin Asking(c) /\ Gone \notin Replied(c)
    BY DEF Gone, Asking, Replied
  <2>2. Tally(toAuth', Asking(c)) = 0 /\ Tally(toRep', Replied(c)) = 0
    BY <1>1, <2>1, TallyOne DEF Whether
  <2>3. inbox' = inbox /\ running' = running /\ outbox' = outbox /\ peer' = peer /\ rep' = rep
    BY <1>1 DEF tick
  <2> QED
    BY <2>2, <2>3, PlacesAre, PlacesAfter DEF Shares
<1>4. \A c \in Live : c \in excused'
  BY <1>1 DEF Live
<1>5. Attended(inbox)' /\ Attended(running)' /\ Numberable'
  BY <1>2 DEF Attended, Numberable
<1>6. Parked' /\ (due' # <<>> => phase' = "resume")
  BY <1>1 DEF Course, Parked, tick, Threads
<1>7. rep' = rep /\ excused \subseteq excused'
  BY <1>1
<1> QED
  BY <1>3, <1>4, <1>5, <1>6, <1>7, CourseFrom

LEMMA CourseTimersDue ==
    ASSUME Types, TimersFit, Course, TimersDue PROVE Course'
<1>1. /\ phase = "inbox" /\ phase' = "resume" /\ UNCHANGED <<inbox, running, ended, ids, peer, rep, network, excused, alive, outbox>>
  BY DEF TimersDue
<1>2. Types' /\ Threads(timers) = Threads(due') \cup Threads(timers')
  BY TimersDueTypes
<1>3. Parked'
  <2>1. due = <<>>
    BY <1>1 DEF Course
  <2>2. Threads(due) = {}
    BY <2>1 DEF Threads
  <2>3. Parked
    BY DEF Course
  <2> HIDE DEF Threads
  <2>4. \A i \in DOMAIN running' :
            running'[i].call \in excused' \cup ended' \cup Threads(timers') \cup Threads(due')
    BY <1>1, <1>2, <2>2, <2>3 DEF Parked
  <2> QED
    BY <2>4 DEF Parked
<1>4. \A c \in Live : up' /\ Fn \in alive'
  BY <1>1 DEF Course, network
<1> QED
  BY <1>1, <1>2, <1>3, <1>4, CourseSame DEF network

LEMMA CourseResumeTimer ==
    ASSUME Types, TimersFit, Course, ResumeTimer PROVE Course'
<1> DEFINE thread == Head(due).thread
<1>1. /\ phase = "resume" /\ phase' = phase
      /\ UNCHANGED <<alive, outbox, inbox, running, ids, peer, rep, network>>
  BY DEF ResumeTimer
<1>2. /\ Types' /\ Threads(due) \subseteq Threads(due') \cup {thread}
      /\ Threads(timers) \subseteq Threads(timers')
      /\ \/ ended' = ended \cup ({thread} \cap Call) /\ excused' = excused
         \/ thread \in Threads(timers') /\ ended' = ended /\ excused' = excused
         \/ excused' = excused \cup ({thread} \cap Call) /\ ended' = ended
  BY ResumeTimerTypes
<1> HIDE DEF thread
<1>3. \A i \in DOMAIN running : running[i].call \in Call
  <2>1. \A i \in DOMAIN running : running[i] \in Ask
    BY TypesGive DEF WorldTypes
  <2> QED
    BY <2>1 DEF Ask
<1>4. Parked'
  <2>1. Parked /\ running' = running
    BY <1>1 DEF Course
  <2>2. ASSUME NEW i \in DOMAIN running
        PROVE  running[i].call \in excused' \cup ended' \cup Threads(timers') \cup Threads(due')
    <3>1. running[i].call \in excused \cup ended \cup Threads(timers) \cup Threads(due)
      BY <2>1 DEF Parked
    <3> QED
      BY <1>2, <1>3, <3>1
  <2>3. \A i \in DOMAIN running' :
            running'[i].call \in excused' \cup ended' \cup Threads(timers') \cup Threads(due')
    BY <2>1, <2>2
  <2> QED
    BY <2>3 DEF Parked
<1>5. excused \subseteq excused' /\ alive' = alive /\ outbox' = outbox
  BY <1>1, <1>2
<1>6. \A c \in Live : up' /\ Fn \in alive'
  BY <1>1, <1>5 DEF Course, network
<1> QED
  BY <1>1, <1>2, <1>4, <1>5, <1>6, CourseSame DEF network

LEMMA CourseDelay ==
    ASSUME Types, TimersFit, Course, NEW wait \in Waits, Delay(wait) PROVE Course'
<1>1. /\ Types' /\ Threads(timers) \subseteq Threads(timers') /\ due' = due
      /\ UNCHANGED <<born, alive, near, handled, enabled, outbox, fired, excused>>
      /\ UNCHANGED <<tick, ids, peer, rep, network, heard>>
  BY DelayTypes
<1>2. Parked'
  <2>1. Parked
    BY DEF Course
  <2>2. \A i \in DOMAIN running' :
            running'[i].call \in excused' \cup ended' \cup Threads(timers') \cup Threads(due')
    BY <1>1, <2>1 DEF Parked, tick
  <2> QED
    BY <2>2 DEF Parked
<1>3. \A c \in Live : up' /\ Fn \in alive'
  BY <1>1 DEF Course, network
<1>4. due' # <<>> => phase' = "resume"
  BY <1>1 DEF Course, tick
<1> QED
  BY <1>1, <1>2, <1>3, <1>4, CourseSame DEF network, tick

LEMMA CourseCancel ==
    ASSUME Types, TimersFit, Course, NEW thread \in Thread, Cancel(thread) PROVE Course'
<1>1. /\ Types' /\ due' = due /\ Threads(timers) \subseteq Threads(timers') \cup {thread}
      /\ excused' = excused \cup ({thread} \cap Call)
      /\ UNCHANGED <<born, alive, near, handled, enabled, outbox, fired>>
      /\ UNCHANGED <<tick, ids, peer, rep, network, heard>>
  BY CancelTypes
<1>2. \A i \in DOMAIN running : running[i].call \in Call
  <2>1. \A i \in DOMAIN running : running[i] \in Ask
    BY TypesGive DEF WorldTypes
  <2> QED
    BY <2>1 DEF Ask
<1>3. Parked'
  <2>1. Parked
    BY DEF Course
  <2>2. \A i \in DOMAIN running' :
            running'[i].call \in excused' \cup ended' \cup Threads(timers') \cup Threads(due')
    BY <1>1, <1>2, <2>1 DEF Parked, tick
  <2> QED
    BY <2>2 DEF Parked
<1>4. \A c \in Live : up' /\ Fn \in alive'
  BY <1>1 DEF Course, network
<1>5. due' # <<>> => phase' = "resume"
  BY <1>1 DEF Course, tick
<1> QED
  BY <1>1, <1>3, <1>4, <1>5, CourseSame DEF network, tick

LEMMA CourseWorldChange ==
    ASSUME Types, Course, (\E r \in Remote : Create(r) \/ Destroy(r) \/ Move(r)) \/ SetHandler \/ SetEnabled
    PROVE  Course'
<1>1. /\ Types' /\ excused \subseteq excused'
      /\ UNCHANGED <<timers, outbox, fired>> /\ UNCHANGED <<tick, ids, peer, rep, network, heard>>
      /\ Fn \in alive /\ Fn \notin alive' => rep.waiters \subseteq excused'
  BY WorldChangeTypes
<1>2. Parked'
  <2>1. Parked
    BY DEF Course
  <2>2. \A i \in DOMAIN running' :
            running'[i].call \in excused' \cup ended' \cup Threads(timers') \cup Threads(due')
    BY <1>1, <2>1 DEF Parked, tick
  <2> QED
    BY <2>2 DEF Parked
<1>3. \A c \in Live : c \notin excused' => up' /\ Fn \in alive'
  BY <1>1 DEF Course, network, Live
<1>4. due' # <<>> => phase' = "resume"
  BY <1>1 DEF Course, tick
<1> QED
  BY <1>1, <1>2, <1>3, <1>4, CourseSame DEF network, tick

\* What is fired is of no question.
LEMMA CourseFireClient ==
    ASSUME Types, Course, NEW e \in Event, FireClient(e) PROVE Course'
<1> DEFINE m == [remote |-> e, call |-> 0, n |-> fired + 1, waited |-> 0]
<1>1. /\ Types' /\ m \in Message /\ outbox' = Append(outbox, m)
      /\ UNCHANGED <<born, alive, near, handled, enabled, timers, changes, excused>>
      /\ UNCHANGED <<tick, ids, peer, rep, network, heard>>
  BY FireClientTypes
<1>2. m.call = 0
  OBVIOUS
<1> HIDE DEF m
<1>3. outbox \in Seq(Message)
  BY TypesGive DEF WorldTypes
<1>4. /\ Len(outbox) \in Nat /\ DOMAIN outbox = 1..Len(outbox) /\ DOMAIN outbox' = 1..(Len(outbox) + 1)
      /\ \A i \in 1..Len(outbox) : outbox'[i] = outbox[i]
      /\ outbox'[Len(outbox) + 1] = m
  BY <1>1, <1>3, AppendIs
<1>5. 0 \notin Call
  BY CallsAre
<1>6. ASSUME NEW c \in Call PROVE Places(c)' = Places(c) /\ Places(c) \in Int
  <2>1. Whether(m, Replying(c)) = 0
    BY <1>2, <1>5 DEF Whether, Replying
  <2>2. Tally(outbox', Replying(c)) = Tally(outbox, Replying(c)) + Whether(m, Replying(c))
    BY <1>1, <1>3, TallyAppend
  <2>3. Tally(outbox', Replying(c)) = Tally(outbox, Replying(c))
    BY <2>1, <2>2, PlacesAre
  <2>4. /\ inbox' = inbox /\ running' = running /\ peer' = peer /\ rep' = rep /\ toRep' = toRep
        /\ toAuth' = toAuth
    BY <1>1 DEF tick, network
  <2> QED
    BY <1>1, <2>3, <2>4, PlacesAre, PlacesAfter DEF Shares
<1>7. \A c \in Live : c \in Call
  BY TypesGive, RepIs DEF Live
<1>8. Live' = Live
  BY <1>1 DEF Live
<1>9. Attended(inbox)' /\ Attended(running)'
  BY <1>1, <1>8 DEF Course, Attended, tick
<1>10. Numberable'
  <2>1. \A i \in 1..Len(outbox) : outbox[i].call \in Live => Fn \in ids
    BY <1>4 DEF Course, Numberable
  <2>2. \A i \in DOMAIN outbox' : i \in 1..Len(outbox) \/ outbox'[i] = m
    BY <1>4
  <2>3. \A i \in DOMAIN outbox' : outbox'[i].call \in Live => Fn \in ids
    BY <1>2, <1>4, <1>5, <1>7, <2>1, <2>2
  <2> QED
    BY <1>1, <1>8, <2>3 DEF Numberable
<1>11. Parked'
  BY <1>1 DEF Course, Parked, tick, Threads
<1>12. \A c \in Call : Places(c)' <= Places(c)
  BY <1>6
<1>13. \A c \in Live : c \notin excused' => Places(c)' = Places(c) /\ up' /\ rep'.welcomed /\ Fn \in alive'
  BY <1>1, <1>6, <1>7 DEF Course, network
<1>14. due' # <<>> => phase' = "resume"
  BY <1>1 DEF Course, tick
<1>15. rep' = rep /\ excused \subseteq excused'
  BY <1>1
<1> QED
  BY <1>1, <1>9, <1>10, <1>11, <1>12, <1>13, <1>14, <1>15, CourseFrom

\* Answers are of what is answered, and all are answered whose callers are here.
LEMMA AnswersTally ==
    ASSUME NEW done \in Seq(Ask), NEW c
    PROVE  /\ Answers(done) \in Seq(Message)
           /\ Tally(Answers(done), Replying(c)) \in Nat /\ Tally(done, AskedBy(c)) \in Nat
           /\ Tally(Answers(done), Replying(c)) <= Tally(done, AskedBy(c))
           /\ (\A i \in DOMAIN done : done[i].call = c => Here(done[i].player))
              => Tally(Answers(done), Replying(c)) = Tally(done, AskedBy(c))
           /\ \A n \in DOMAIN Answers(done) : \E i \in DOMAIN done : Answers(done)[n].call = done[i].call
<1> DEFINE I == Answering(done)
           t == Sublist(done, I)
           a == Answers(done)
<1>1. I \in SUBSET DOMAIN done
  BY DEF Answering
<1>2. /\ a \in Seq(Message) /\ DOMAIN a = DOMAIN t /\ \A n \in DOMAIN a : a[n].call = t[n].call
  BY AnswersIs
<1>3. \A i \in DOMAIN done : Here(done[i].player) => i \in I
  BY DEF Answering
<1> HIDE DEF I, a
<1>4. t \in Seq(Ask) /\ \A n \in DOMAIN t : Place(I, n) \in I /\ t[n] = done[Place(I, n)]
  BY <1>1, SublistIn, SublistFrom
<1>5. /\ Tally(t, AskedBy(c)) <= Tally(done, AskedBy(c))
      /\ (\A i \in DOMAIN done : done[i] \in AskedBy(c) => i \in I)
         => Tally(t, AskedBy(c)) = Tally(done, AskedBy(c))
  BY <1>1, TallyPart
<1> HIDE DEF t
<1>6. Tally(a, Replying(c)) = Tally(t, AskedBy(c))
  <2>1. \A n \in DOMAIN a : a[n] \in Replying(c) <=> t[n] \in AskedBy(c)
    BY <1>2, <1>4 DEF Replying, AskedBy
  <2> QED
    BY <1>2, <1>4, <2>1, TallySame
<1>7. Tally(a, Replying(c)) \in Nat /\ Tally(done, AskedBy(c)) \in Nat
  BY <1>2, TallyIsNat
<1>8. \A i \in DOMAIN done : done[i] \in AskedBy(c) => done[i].call = c
  BY DEF AskedBy
<1>9. \A n \in DOMAIN a : \E i \in DOMAIN done : a[n].call = done[i].call
  BY <1>1, <1>2, <1>4
<1> QED
  BY <1>2, <1>3, <1>5, <1>6, <1>7, <1>8, <1>9 DEF a

LEMMA CourseTickStarts ==
    ASSUME Types, TimersFit, There, Course, TickStarts PROVE Course'
<1> DEFINE D == Sublist(running, Finished)
           S == DOMAIN running \ Finished
           R == Sublist(running, S)
           A == Answers(D)
<1>1. /\ phase = "idle" /\ phase' = "inbox" /\ outbox' = outbox \o A /\ running' = R /\ ended' = {}
      /\ UNCHANGED <<alive, inbox, due, ids, peer, rep, network, excused>>
  BY DEF TickStarts
<1>2. running \in Seq(Ask) /\ outbox \in Seq(Message) /\ Types'
  BY TypesGive, TickStartsTypes DEF WorldTypes
<1>3. /\ Finished \in SUBSET DOMAIN running /\ S \in SUBSET DOMAIN running /\ Finished \cap S = {}
      /\ \A i \in DOMAIN running : i \in Finished \cup S
      /\ \A i \in S : running[i].call \notin ended
  BY DEF Finished
<1>4. Live' = Live /\ rep' = rep /\ ids' = ids /\ Attended(running) /\ Attended(inbox)
  BY <1>1 DEF Live, Course
<1> HIDE DEF S
<1>5. /\ D \in Seq(Ask) /\ R \in Seq(Ask)
      /\ \A n \in DOMAIN D : \E i \in DOMAIN running : D[n] = running[i]
      /\ \A n \in DOMAIN R : \E i \in S : R[n] = running[i]
  BY <1>2, <1>3, SublistIn, SublistFrom
<1>6. \A c : Tally(D, AskedBy(c)) + Tally(R, AskedBy(c)) = Tally(running, AskedBy(c))
  BY <1>2, <1>3, TallyTwo
<1> HIDE DEF D, R
<1>7. \A i \in DOMAIN D : D[i].call \in Live => D[i].player = rep.conn /\ Fn \in ids
  BY <1>4, <1>5 DEF Attended
<1>8. \A c : /\ A \in Seq(Message) /\ Tally(A, Replying(c)) \in Nat /\ Tally(D, AskedBy(c)) \in Nat
             /\ Tally(A, Replying(c)) <= Tally(D, AskedBy(c))
             /\ (\A i \in DOMAIN D : D[i].call = c => Here(D[i].player))
                => Tally(A, Replying(c)) = Tally(D, AskedBy(c))
             /\ \A n \in DOMAIN A : \E i \in DOMAIN D : A[n].call = D[i].call
  BY <1>5, AnswersTally
<1> HIDE DEF A
<1>9. \A c : Tally(outbox', Replying(c)) = Tally(outbox, Replying(c)) + Tally(A, Replying(c))
  BY <1>1, <1>2, <1>8, TallyConcat
<1>10. ASSUME NEW c \in Call
       PROVE  /\ Places(c)' <= Places(c)
              /\ c \in Live => Places(c)' = Places(c)
  <2>1. c \in Live => Tally(A, Replying(c)) = Tally(D, AskedBy(c))
    <3>1. ASSUME c \in Live PROVE \A i \in DOMAIN D : D[i].call = c => Here(D[i].player)
      <4>1. Here(rep.conn)
        BY <3>1, LiveIs
      <4> QED
        BY <1>7, <3>1, <4>1
    <3> QED
      BY <1>8, <3>1
  <2>2. /\ toAuth' = toAuth /\ toRep' = toRep /\ inbox' = inbox /\ peer' = peer /\ rep' = rep /\ running' = R
    BY <1>1 DEF network
  <2>3. /\ Places(c) = Shares(c, rep.outbox, toAuth, inbox, running, outbox, peer.held, toRep, rep.inbox)
        /\ Places(c)' = Shares(c, rep'.outbox, toAuth', inbox', running', outbox', peer'.held, toRep', rep'.inbox)
        /\ Tally(rep.outbox, Awaiting(c)) \in Nat /\ Tally(toAuth, Asking(c)) \in Nat
        /\ Tally(inbox, AskedBy(c)) \in Nat /\ Tally(running, AskedBy(c)) \in Nat
        /\ Tally(outbox, Replying(c)) \in Nat /\ Tally(peer.held, Replying(c)) \in Nat
        /\ Tally(toRep, Replied(c)) \in Nat /\ Tally(rep.inbox, Replied(c)) \in Nat
    BY <1>2, PlacesAre, PlacesAfter
  <2>4. /\ Tally(D, AskedBy(c)) + Tally(R, AskedBy(c)) = Tally(running, AskedBy(c))
        /\ Tally(outbox', Replying(c)) = Tally(outbox, Replying(c)) + Tally(A, Replying(c))
        /\ Tally(A, Replying(c)) <= Tally(D, AskedBy(c))
        /\ Tally(A, Replying(c)) \in Nat /\ Tally(D, AskedBy(c)) \in Nat
    BY <1>6, <1>8, <1>9
  <2>5. Tally(R, AskedBy(c)) \in Nat
    BY <1>5, TallyIsNat
  <2> QED
    BY <2>1, <2>2, <2>3, <2>4, <2>5 DEF Shares
<1>11. Attended(running)' /\ Attended(inbox)'
  <2>1. \A n \in DOMAIN R : R[n].call \in Live => R[n].player = rep.conn /\ Fn \in ids
    BY <1>3, <1>4, <1>5 DEF Attended
  <2> QED
    BY <1>1, <1>4, <2>1 DEF Attended
<1>12. Numberable'
  <2>1. outbox \in Seq(Message) /\ A \in Seq(Message)
    BY <1>2, <1>8
  <2>2. /\ DOMAIN outbox' = 1..(Len(outbox) + Len(A)) /\ DOMAIN outbox = 1..Len(outbox)
        /\ DOMAIN A = 1..Len(A)
        /\ \A i \in 1..Len(outbox) : outbox'[i] = outbox[i]
        /\ \A i \in 1..(Len(outbox) + Len(A)) :
               (i \in 1..Len(outbox)) \/ (i - Len(outbox) \in 1..Len(A) /\ outbox'[i] = A[i - Len(outbox)])
    BY <1>1, <2>1, ConcatIs
  <2>3. \A i \in 1..Len(outbox) : outbox[i].call \in Live => Fn \in ids
    BY <2>2 DEF Course, Numberable
  <2>4. \A i \in DOMAIN A : A[i].call \in Live => Fn \in ids
    BY <1>7, <1>8
  <2>5. \A i \in DOMAIN outbox' : outbox'[i].call \in Live => Fn \in ids
    BY <2>2, <2>3, <2>4
  <2> QED
    BY <1>4, <2>5 DEF Numberable
<1>13. Parked'
  <2>1. ASSUME NEW n \in DOMAIN R PROVE R[n].call \in excused \cup Threads(timers) \cup Threads(due)
    <3>1. PICK i \in S : R[n] = running[i]
      BY <1>5
    <3>2. running[i].call \notin ended /\ i \in DOMAIN running
      BY <1>3
    <3> QED
      BY <3>1, <3>2 DEF Course, Parked
  <2>2. Threads(timers') = Threads(timers) /\ Threads(due') = Threads(due)
    BY <1>1, TickStartsFit
  <2>3. \A i \in DOMAIN running' :
            running'[i].call \in excused' \cup ended' \cup Threads(timers') \cup Threads(due')
    BY <1>1, <2>1, <2>2
  <2> QED
    BY <2>3 DEF Parked
<1>14. due' = <<>>
  BY <1>1 DEF Course
<1>15. \A c \in Live : c \in Call /\ up' /\ rep'.welcomed /\ Fn \in alive'
  BY <1>1, TypesGive, RepIs DEF Course, network, Live
<1> QED
  BY <1>1, <1>2, <1>10, <1>11, <1>12, <1>13, <1>14, <1>15, CourseFrom

LEMMA CourseHandle ==
    ASSUME Types, TimersFit, There, Course, NEW wait \in Waits, Handle(wait) PROVE Course'
<1> DEFINE q == Head(inbox)
           A == Answers(<<q>>)
<1>1. /\ \/ Fn \notin alive /\ UNCHANGED <<outbox, running, timers>>
         \/ outbox' = outbox \o A /\ UNCHANGED <<running, timers>>
         \/ /\ running' = Append(running, q)
            /\ timers' = InsertTimer(timers, q.call, wait) /\ UNCHANGED outbox
      /\ UNCHANGED <<alive, phase, ended, due, ids, peer, rep, network, excused>>
  BY DEF Handle
<1>2. Types' /\ q \in Ask /\ inbox # <<>> /\ inbox' = Tail(inbox) /\ Threads(timers) \subseteq Threads(timers')
  BY HandleTypes
<1>3. running \in Seq(Ask) /\ outbox \in Seq(Message) /\ inbox \in Seq(Ask) /\ timers \in Seq(Timer)
  BY TypesGive DEF WorldTypes
<1>4. /\ Live' = Live /\ rep' = rep /\ ids' = ids /\ Attended(running) /\ Attended(inbox) /\ Numberable
      /\ \A c \in Live : c \in Call /\ Here(rep.conn) /\ Fn \in alive
  BY <1>1, LiveIs DEF Live, Course
<1>5. timers' = InsertTimer(timers, q.call, wait) => q.call \in Threads(timers')
  <2>1. q.call \in Thread /\ wait \in Nat
    BY <1>2, RemoteAssumption DEF Ask
  <2> HIDE DEF q
  <2>2. Timed(timers) /\ Sorted(timers) /\ NotBefore(timers, Soonest)
    BY DEF TimersFit
  <2> QED
    BY <1>3, <2>1, <2>2, InsertTimerIs
<1>6. q.call \in Live => q.player = rep.conn /\ Fn \in ids
  <2>1. q = inbox[1] /\ 1 \in DOMAIN inbox
    BY <1>2, <1>3, TailIs
  <2> QED
    BY <1>4, <2>1 DEF Attended
<1>7. \A c : Tally(inbox, AskedBy(c)) = Whether(q, AskedBy(c)) + Tally(inbox', AskedBy(c))
  BY <1>2, <1>3, TallyTail
<1> HIDE DEF q
<1>8. <<q>> \in Seq(Ask) /\ DOMAIN <<q>> = {1} /\ <<q>>[1] = q
  BY <1>2
<1>9. \A c : /\ A \in Seq(Message) /\ Tally(A, Replying(c)) \in Nat
             /\ Tally(A, Replying(c)) <= Whether(q, AskedBy(c))
             /\ (q.call = c => Here(q.player)) => Tally(A, Replying(c)) = Whether(q, AskedBy(c))
             /\ \A n \in DOMAIN A : A[n].call = q.call
  BY <1>8, AnswersTally, TallyOne
<1> HIDE DEF A
<1>10. \A c : Whether(q, AskedBy(c)) \in {0, 1}
  BY DEF Whether
<1>11. ASSUME NEW c \in Call
       PROVE  /\ Places(c)' <= Places(c)
              /\ c \in Live => Places(c)' = Places(c)
  <2>1. /\ toAuth' = toAuth /\ toRep' = toRep /\ peer' = peer /\ rep' = rep
    BY <1>1 DEF network
  <2>5. /\ Places(c) = Shares(c, rep.outbox, toAuth, inbox, running, outbox, peer.held, toRep, rep.inbox)
        /\ Places(c)' = Shares(c, rep'.outbox, toAuth', inbox', running', outbox', peer'.held, toRep', rep'.inbox)
        /\ Tally(rep.outbox, Awaiting(c)) \in Nat /\ Tally(toAuth, Asking(c)) \in Nat
        /\ Tally(inbox, AskedBy(c)) \in Nat /\ Tally(running, AskedBy(c)) \in Nat
        /\ Tally(outbox, Replying(c)) \in Nat /\ Tally(peer.held, Replying(c)) \in Nat
        /\ Tally(toRep, Replied(c)) \in Nat /\ Tally(rep.inbox, Replied(c)) \in Nat
        /\ Tally(inbox', AskedBy(c)) \in Nat
    BY <1>2, PlacesAre, PlacesAfter
  <2>6. /\ Tally(inbox, AskedBy(c)) = Whether(q, AskedBy(c)) + Tally(inbox', AskedBy(c))
        /\ Whether(q, AskedBy(c)) \in Nat
    BY <1>7, <1>10
  <2>2. CASE Fn \notin alive /\ UNCHANGED <<outbox, running, timers>>
    <3>1. c \notin Live
      BY <1>4, <2>2
    <3> QED
      BY <2>1, <2>2, <2>5, <2>6, <3>1 DEF Shares
  <2>3. CASE outbox' = outbox \o A /\ UNCHANGED <<running, timers>>
    <3>1. Tally(outbox', Replying(c)) = Tally(outbox, Replying(c)) + Tally(A, Replying(c))
      BY <1>3, <1>9, <2>3, TallyConcat
    <3>2. c \in Live => Tally(A, Replying(c)) = Whether(q, AskedBy(c))
      <4>1. c \in Live => (q.call = c => Here(q.player))
        BY <1>4, <1>6
      <4> QED
        BY <1>9, <4>1
    <3>3. Tally(A, Replying(c)) <= Whether(q, AskedBy(c)) /\ Tally(A, Replying(c)) \in Nat
      BY <1>9
    <3>4. running' = running
      BY <2>3
    <3> QED
      BY <2>1, <2>5, <2>6, <3>1, <3>2, <3>3, <3>4 DEF Shares
  <2>4. CASE running' = Append(running, q) /\ UNCHANGED outbox
    <3>1. Tally(running', AskedBy(c)) = Tally(running, AskedBy(c)) + Whether(q, AskedBy(c))
      BY <1>2, <1>3, <2>4, TallyAppend
    <3>2. outbox' = outbox
      BY <2>4
    <3> QED
      BY <2>1, <2>5, <2>6, <3>1, <3>2 DEF Shares
  <2> QED
    BY <1>1, <2>2, <2>3, <2>4
<1>12. Attended(inbox)'
  <2>1. \A i \in DOMAIN inbox' : i + 1 \in DOMAIN inbox /\ inbox'[i] = inbox[i + 1]
    BY <1>2, <1>3, TailIs
  <2>2. \A i \in DOMAIN inbox' : inbox'[i].call \in Live => inbox'[i].player = rep.conn /\ Fn \in ids
    BY <1>4, <2>1 DEF Attended
  <2> QED
    BY <1>4, <2>2 DEF Attended
<1>13. \/ running' = running
       \/ /\ running' = Append(running, q) /\ q.call \in Threads(timers')
          /\ \A i \in DOMAIN running' : running'[i] = q \/ (i \in DOMAIN running /\ running'[i] = running[i])
  <2>1. CASE running' = Append(running, q) /\ timers' = InsertTimer(timers, q.call, wait)
    <3>1. /\ DOMAIN running = 1..Len(running) /\ DOMAIN running' = 1..(Len(running) + 1) /\ Len(running) \in Nat
          /\ \A i \in 1..Len(running) : running'[i] = running[i]
          /\ running'[Len(running) + 1] = q
      BY <1>2, <1>3, <2>1, AppendIs
    <3>2. \A i \in DOMAIN running' : running'[i] = q \/ (i \in DOMAIN running /\ running'[i] = running[i])
      <4> SUFFICES ASSUME NEW i \in DOMAIN running', i # Len(running) + 1
                   PROVE  i \in DOMAIN running /\ running'[i] = running[i]
        BY <3>1
      <4>1. i \in 1..Len(running)
        BY <3>1
      <4> QED
        BY <3>1, <4>1
    <3>3. q.call \in Threads(timers')
      BY <1>5, <2>1
    <3> QED
      BY <2>1, <3>2, <3>3
  <2> QED
    BY <1>1, <2>1
<1>14. Attended(running)'
  <2>1. \A i \in DOMAIN running' : running'[i].call \in Live => running'[i].player = rep.conn /\ Fn \in ids
    BY <1>4, <1>6, <1>13 DEF Attended
  <2> QED
    BY <1>4, <2>1 DEF Attended
<1>15. Numberable'
  <2>1. CASE outbox' = outbox
    BY <1>4, <2>1 DEF Numberable
  <2>2. CASE outbox' = outbox \o A
    <3>1. outbox \in Seq(Message) /\ A \in Seq(Message)
      BY <1>3, <1>9
    <3>2. /\ DOMAIN outbox' = 1..(Len(outbox) + Len(A)) /\ DOMAIN outbox = 1..Len(outbox)
          /\ DOMAIN A = 1..Len(A)
          /\ \A i \in 1..Len(outbox) : outbox'[i] = outbox[i]
          /\ \A i \in 1..(Len(outbox) + Len(A)) :
                 (i \in 1..Len(outbox)) \/ (i - Len(outbox) \in 1..Len(A) /\ outbox'[i] = A[i - Len(outbox)])
      BY <2>2, <3>1, ConcatIs
    <3>3. \A i \in 1..Len(outbox) : outbox[i].call \in Live => Fn \in ids
      BY <1>4, <3>2 DEF Numberable
    <3>4. \A i \in DOMAIN A : A[i].call \in Live => Fn \in ids
      BY <1>6, <1>9
    <3>5. \A i \in DOMAIN outbox' : outbox'[i].call \in Live => Fn \in ids
      BY <3>2, <3>3, <3>4
    <3> QED
      BY <1>4, <3>5 DEF Numberable
  <2> QED
    BY <1>1, <2>1, <2>2
<1>16. Parked'
  <2>1. Parked
    BY DEF Course
  <2>2. Threads(due') = Threads(due)
    BY <1>1
  <2>3. \A i \in DOMAIN running :
            running[i].call \in excused' \cup ended' \cup Threads(timers') \cup Threads(due')
    BY <1>1, <1>2, <2>1, <2>2 DEF Parked
  <2>4. \A i \in DOMAIN running' :
            running'[i].call \in excused' \cup ended' \cup Threads(timers') \cup Threads(due')
    BY <1>13, <2>3
  <2> QED
    BY <2>4 DEF Parked
<1>17. due' # <<>> => phase' = "resume"
  BY <1>1 DEF Course
<1>18. \A c \in Live : c \in Call /\ up' /\ rep'.welcomed /\ Fn \in alive'
  BY <1>1, <1>4 DEF Course, network
<1> QED
  BY <1>1, <1>2, <1>11, <1>12, <1>14, <1>15, <1>16, <1>17, <1>18, CourseFrom

\* An answer that is read is delivered: its function is there.
LEMMA CourseReplicaReceive ==
    ASSUME Types, There, Course, ReplicaReceive PROVE Course'
<1> DEFINE m == Head(toRep)
<1>1. /\ toRep # <<>> /\ toRep' = Tail(toRep) /\ m \in ToRep
      /\ UNCHANGED <<scripts, tick, ids, peer, up, toAuth, excused>>
      /\ rep' \in RepType /\ rep'.conn = rep.conn /\ rep'.outbox = rep.outbox
      /\ rep'.next = rep.next /\ rep'.waiters = rep.waiters
      /\ rep'.welcomed = ((rep.welcomed \/ m.kind = "Welcome") /\ m.kind # "Gone")
      /\ m.kind \in {"Fired", "Answer"} => m \in Sent
      /\ rep'.inbox = IF m.kind \in {"Fired", "Answer"} /\ m.remote \in rep.locals
                      THEN Append(rep.inbox, m) ELSE rep.inbox
  BY ReplicaReceiveIs
<1>2. Types' /\ toRep \in Seq(ToRep) /\ rep.inbox \in Seq(Sent) /\ rep.welcomed \in BOOLEAN
  BY ReplicaReceiveTypes, TypesGive, RepIs DEF WireTypes
<1>3. m = toRep[1] /\ 1 \in DOMAIN toRep
  BY <1>1, <1>2, TailIs
<1>4. m.kind = "Answer" => m.remote \in rep.locals
  <2> SUFFICES ASSUME m.kind = "Answer" PROVE m.remote \in rep.locals
    OBVIOUS
  <2> DEFINE r == toRep[1].remote
  <2>1. IsThere(r, 1 - 1)
    BY <1>3 DEF There, NamedIsThere
  <2>2. 1 - 1 = 0 /\ \A i \in 0..0 : i = 0
    OBVIOUS
  <2> HIDE DEF r
  <2>3. r \in rep.locals
    BY <2>1, <2>2 DEF IsThere
  <2> QED
    BY <1>3, <2>3 DEF r
<1> HIDE DEF m
<1>5. Live' = Live
  BY <1>1 DEF Live
<1>6. ASSUME NEW c \in Call PROVE Places(c)' = Places(c) /\ Places(c) \in Int
  <2>1. Tally(toRep, Replied(c)) = Whether(m, Replied(c)) + Tally(toRep', Replied(c))
    <3>1. Tally(toRep, Replied(c)) = Whether(Head(toRep), Replied(c)) + Tally(Tail(toRep), Replied(c))
      BY <1>1, <1>2, TallyTail
    <3> QED
      BY <1>1, <3>1 DEF m
  <2>2. Tally(rep'.inbox, Replied(c)) = Tally(rep.inbox, Replied(c)) + Whether(m, Replied(c))
    <3>1. CASE m.kind \in {"Fired", "Answer"} /\ m.remote \in rep.locals
      <4>1. m \in Sent /\ rep'.inbox = Append(rep.inbox, m)
        BY <1>1, <3>1
      <4> QED
        BY <1>2, <4>1, TallyAppend
    <3>2. CASE ~(m.kind \in {"Fired", "Answer"} /\ m.remote \in rep.locals)
      <4>1. m \notin Replied(c)
        BY <1>4, <3>2 DEF Replied
      <4>2. Whether(m, Replied(c)) = 0 /\ rep'.inbox = rep.inbox
        BY <1>1, <3>2, <4>1 DEF Whether
      <4>3. Tally(rep.inbox, Replied(c)) \in Nat
        BY PlacesAre
      <4> QED
        BY <4>2, <4>3
    <3> QED
      BY <3>1, <3>2
  <2>3. /\ Places(c) = Shares(c, rep.outbox, toAuth, inbox, running, outbox, peer.held, toRep, rep.inbox)
        /\ Places(c)' = Shares(c, rep'.outbox, toAuth', inbox', running', outbox', peer'.held, toRep', rep'.inbox)
        /\ Tally(rep.outbox, Awaiting(c)) \in Nat /\ Tally(toAuth, Asking(c)) \in Nat
        /\ Tally(inbox, AskedBy(c)) \in Nat /\ Tally(running, AskedBy(c)) \in Nat
        /\ Tally(outbox, Replying(c)) \in Nat /\ Tally(peer.held, Replying(c)) \in Nat
        /\ Tally(toRep', Replied(c)) \in Nat /\ Tally(rep.inbox, Replied(c)) \in Nat
    BY <1>2, PlacesAre, PlacesAfter
  <2>4. /\ rep'.outbox = rep.outbox /\ toAuth' = toAuth /\ inbox' = inbox /\ running' = running
        /\ outbox' = outbox /\ peer' = peer
    BY <1>1 DEF scripts, tick
  <2>5. Whether(m, Replied(c)) \in Nat
    BY DEF Whether
  <2> QED
    BY <2>1, <2>2, <2>3, <2>4, <2>5 DEF Shares
<1>7. Attended(inbox)' /\ Attended(running)' /\ Numberable'
  BY <1>1, <1>5 DEF Course, Attended, Numberable, scripts, tick
<1>8. Parked'
  BY <1>1 DEF Course, Parked, scripts, tick, Threads
<1>9. \A c \in Live : c \in Call /\ up' /\ rep'.welcomed /\ Fn \in alive'
  <2> SUFFICES ASSUME NEW c \in Live PROVE c \in Call /\ up' /\ rep'.welcomed /\ Fn \in alive'
    OBVIOUS
  <2>1. c \in Call /\ up /\ rep.welcomed /\ Fn \in alive /\ Kind(toRep, "Gone") = {}
    BY LiveIs
  <2>2. m.kind # "Gone"
    BY <1>3, <2>1 DEF Kind
  <2> QED
    BY <1>1, <2>1, <2>2 DEF scripts
<1>10. due' # <<>> => phase' = "resume"
  BY <1>1 DEF Course, tick
<1>11. \A c \in Call : Places(c)' <= Places(c)
  BY <1>6
<1>12. excused \subseteq excused'
  BY <1>1
<1>13. \A c \in Live : c \notin excused' => Places(c)' = Places(c) /\ up' /\ rep'.welcomed /\ Fn \in alive'
  BY <1>6, <1>9
<1> QED
  BY <1>1, <1>2, <1>7, <1>8, <1>10, <1>11, <1>12, <1>13, CourseFrom

\* A question that has not been asked is nowhere.
LEMMA Elsewhere ==
    ASSUME Types, Course, NEW c \in Call, Places(c) = 0
    PROVE  /\ Tally(rep.outbox, Awaiting(c)) = 0 /\ Tally(toAuth, Asking(c)) = 0 /\ Tally(inbox, AskedBy(c)) = 0
           /\ Tally(running, AskedBy(c)) = 0 /\ Tally(outbox, Replying(c)) = 0
           /\ Tally(peer.held, Replying(c)) = 0 /\ Tally(toRep, Replied(c)) = 0 /\ Tally(rep.inbox, Replied(c)) = 0
           /\ \A i \in DOMAIN inbox : inbox[i].call # c
           /\ \A i \in DOMAIN running : running[i].call # c
           /\ \A i \in DOMAIN outbox : outbox[i].call # c
<1>1. /\ Tally(rep.outbox, Awaiting(c)) = 0 /\ Tally(toAuth, Asking(c)) = 0 /\ Tally(inbox, AskedBy(c)) = 0
      /\ Tally(running, AskedBy(c)) = 0 /\ Tally(outbox, Replying(c)) = 0
      /\ Tally(peer.held, Replying(c)) = 0 /\ Tally(toRep, Replied(c)) = 0 /\ Tally(rep.inbox, Replied(c)) = 0
  BY PlacesAre DEF Shares
<1>2. inbox \in Seq(Ask) /\ running \in Seq(Ask) /\ outbox \in Seq(Message)
  BY TypesGive DEF WorldTypes
<1>3. \A i \in DOMAIN inbox : inbox[i].call # c
  <2>1. \A i \in DOMAIN inbox : inbox[i] \notin AskedBy(c) /\ inbox[i] \in Ask
    BY <1>1, <1>2, HitsAreFew
  <2> QED
    BY <2>1 DEF AskedBy
<1>4. \A i \in DOMAIN running : running[i].call # c
  <2>1. \A i \in DOMAIN running : running[i] \notin AskedBy(c) /\ running[i] \in Ask
    BY <1>1, <1>2, HitsAreFew
  <2> QED
    BY <2>1 DEF AskedBy
<1>5. \A i \in DOMAIN outbox : outbox[i].call # c
  <2>1. \A i \in DOMAIN outbox : outbox[i] \notin Replying(c) /\ outbox[i] \in Message
    BY <1>1, <1>2, HitsAreFew
  <2> QED
    BY <2>1 DEF Replying
<1> QED
  BY <1>1, <1>3, <1>4, <1>5

\* What a replica's tick does with the questions it holds.
LEMMA QueuedTally ==
    ASSUME Types, NEW asks \in BOOLEAN, asks => rep.next \in Call, NEW c \in Call
    PROVE  /\ Tally(Queued(asks), Awaiting(c)) =
                  Tally(rep.outbox, Awaiting(c)) + IF asks /\ c = rep.next THEN 1 ELSE 0
           /\ Tally(Staying(asks), Awaiting(c)) \in Nat /\ Tally(Asked(asks), Asking(c)) \in Nat
           /\ Tally(Staying(asks), Awaiting(c)) + Tally(Asked(asks), Asking(c)) <= Tally(Queued(asks), Awaiting(c))
           /\ (\A i \in DOMAIN Queued(asks) : Queued(asks)[i].call = c => i \in Goes(asks))
              => Tally(Asked(asks), Asking(c)) = Tally(Queued(asks), Awaiting(c))
           /\ rep.welcomed => Staying(asks) = <<>>
<1> DEFINE Q == Queued(asks)
           V == Sublist(Q, Parks(asks))
           G == Sublist(Q, Goes(asks))
           e == [call |-> rep.next, life |-> rep.life, waited |-> 0]
<1>1. /\ Q \in Seq(Waiting) /\ Parks(asks) \in SUBSET DOMAIN Q /\ Goes(asks) \in SUBSET DOMAIN Q
      /\ Staying(asks) \in Seq(Waiting) /\ DOMAIN Staying(asks) = DOMAIN V
      /\ \A i \in DOMAIN Staying(asks) : Staying(asks)[i].call = V[i].call
      /\ Asked(asks) \in Seq(ToAuth) /\ DOMAIN Asked(asks) = DOMAIN G
      /\ \A i \in DOMAIN Asked(asks) : Asked(asks)[i].kind = "Question" /\ Asked(asks)[i].call = G[i].call
  BY QueuedIs
<1>2. Parks(asks) \cap Goes(asks) = {} /\ (rep.welcomed => Parks(asks) = {})
  BY DEF Parks, Goes
<1>3. rep.outbox \in Seq(Waiting) /\ (asks => e \in Waiting) /\ e.call = rep.next
  BY TypesGive, RepIs DEF Waiting
<1>4. Q = IF asks THEN Append(rep.outbox, e) ELSE rep.outbox
  BY DEF Queued
<1> HIDE DEF Q, e
<1>5. Tally(Q, Awaiting(c)) = Tally(rep.outbox, Awaiting(c)) + IF asks /\ c = rep.next THEN 1 ELSE 0
  <2>1. Tally(rep.outbox, Awaiting(c)) \in Nat
    BY <1>3, TallyIsNat
  <2>2. CASE asks
    <3>1. Tally(Q, Awaiting(c)) = Tally(rep.outbox, Awaiting(c)) + Whether(e, Awaiting(c))
      BY <1>3, <1>4, <2>2, TallyAppend
    <3>2. Whether(e, Awaiting(c)) = IF c = rep.next THEN 1 ELSE 0
      BY <1>3, <2>2 DEF Whether, Awaiting
    <3> QED
      BY <2>2, <3>1, <3>2
  <2>3. CASE ~asks
    BY <1>4, <2>1, <2>3
  <2> QED
    BY <2>2, <2>3
<1>6. V \in Seq(Waiting) /\ G \in Seq(Waiting)
  BY <1>1, SublistIn
<1>7. /\ Tally(V, Awaiting(c)) + Tally(G, Awaiting(c)) <= Tally(Q, Awaiting(c))
      /\ (\A i \in DOMAIN Q : Q[i] \in Awaiting(c) => i \in Goes(asks))
         => Tally(G, Awaiting(c)) = Tally(Q, Awaiting(c))
  BY <1>1, <1>2, TallyTwo, TallyPart
<1>8. rep.welcomed => DOMAIN V = {}
  <2>1. rep.welcomed => Cardinality(Parks(asks)) = 0
    BY <1>2, FS_EmptySet
  <2>2. DOMAIN V = 1..Cardinality(Parks(asks))
    BY <1>1, SublistIn
  <2> QED
    BY <2>1, <2>2
<1> HIDE DEF V, G
<1>9. Tally(Staying(asks), Awaiting(c)) = Tally(V, Awaiting(c))
  <2>1. \A i \in DOMAIN V : Staying(asks)[i] \in Awaiting(c) <=> V[i] \in Awaiting(c)
    BY <1>1, <1>6 DEF Awaiting
  <2> QED
    BY <1>1, <1>6, <2>1, TallySame
<1>10. Tally(Asked(asks), Asking(c)) = Tally(G, Awaiting(c))
  <2>1. \A i \in DOMAIN G : Asked(asks)[i] \in Asking(c) <=> G[i] \in Awaiting(c)
    BY <1>1, <1>6 DEF Awaiting, Asking
  <2> QED
    BY <1>1, <1>6, <2>1, TallySame
<1>11. Tally(Staying(asks), Awaiting(c)) \in Nat /\ Tally(Asked(asks), Asking(c)) \in Nat
  BY <1>1, TallyIsNat
<1>12. \A i \in DOMAIN Q : Q[i] \in Awaiting(c) => Q[i].call = c
  BY DEF Awaiting
<1>13. rep.welcomed => Staying(asks) = <<>>
  BY <1>1, <1>8, EmptySeq
<1> QED
  BY <1>5, <1>7, <1>9, <1>10, <1>11, <1>12, <1>13 DEF Q

\* How many there are of a question after a replica's tick.
LEMMA ReplicaTickTally ==
    ASSUME Types, NEW asks \in BOOLEAN, ReplicaTick(asks), NEW c \in Call
    PROVE  LET new == IF asks /\ c = rep.next THEN 1 ELSE 0
               out == Tally(rep.outbox, Awaiting(c))
               rest == out + Tally(toAuth, Asking(c)) + Tally(inbox, AskedBy(c)) + Tally(running, AskedBy(c))
                       + Tally(outbox, Replying(c)) + Tally(peer.held, Replying(c)) + Tally(toRep, Replied(c))
           IN  /\ Places(c) = rest + Tally(rep.inbox, Replied(c))
               /\ Places(c)' \in Nat /\ Places(c)' <= rest + new
               /\ out = 0 /\ new = 0 => Places(c)' = rest
               /\ up /\ (\A i \in DOMAIN Queued(asks) : Queued(asks)[i].call = c => i \in Goes(asks))
                  => Places(c)' = rest + new
<1>1. /\ asks => rep.next \in Call
      /\ rep'.inbox = <<>> /\ rep'.outbox = Staying(asks)
      /\ toAuth' = IF up THEN toAuth \o Asked(asks) ELSE toAuth
      /\ UNCHANGED <<scripts, tick, ids, peer, up, toRep>>
  BY ReplicaTickIs
<1>2. Types' /\ Asked(asks) \in Seq(ToAuth) /\ toAuth \in Seq(ToAuth)
  BY <1>1, ReplicaTickTypes, QueuedIs, TypesGive DEF WireTypes
<1> DEFINE new == IF asks /\ c = rep.next THEN 1 ELSE 0
           out == Tally(rep.outbox, Awaiting(c))
           stay == Tally(Staying(asks), Awaiting(c))
           go == Tally(Asked(asks), Asking(c))
           gone == IF up THEN go ELSE 0
<1>3. /\ stay \in Nat /\ go \in Nat /\ stay + go <= out + new
      /\ (\A i \in DOMAIN Queued(asks) : Queued(asks)[i].call = c => i \in Goes(asks)) => go = out + new
  BY <1>1, QueuedTally
<1>4. /\ Places(c) = Shares(c, rep.outbox, toAuth, inbox, running, outbox, peer.held, toRep, rep.inbox)
      /\ Places(c)' = Shares(c, rep'.outbox, toAuth', inbox', running', outbox', peer'.held, toRep', rep'.inbox)
      /\ out \in Nat /\ Tally(toAuth, Asking(c)) \in Nat
      /\ Tally(inbox, AskedBy(c)) \in Nat /\ Tally(running, AskedBy(c)) \in Nat
      /\ Tally(outbox, Replying(c)) \in Nat /\ Tally(peer.held, Replying(c)) \in Nat
      /\ Tally(toRep, Replied(c)) \in Nat /\ Tally(rep.inbox, Replied(c)) \in Nat
  BY <1>2, PlacesAre, PlacesAfter
<1>5. Tally(rep'.outbox, Awaiting(c)) = stay
  BY <1>1
<1>6. Tally(rep'.inbox, Replied(c)) = 0
  <2>1. Hits(<<>>, Replied(c)) = {}
    BY DEF Hits
  <2> QED
    BY <1>1, <2>1, FS_EmptySet DEF Tally
<1>7. Tally(toAuth', Asking(c)) = Tally(toAuth, Asking(c)) + gone
  <2>1. CASE up
    BY <1>1, <1>2, <2>1, TallyConcat
  <2>2. CASE ~up
    BY <1>1, <1>4, <2>2
  <2> QED
    BY <2>1, <2>2
<1>8. inbox' = inbox /\ running' = running /\ outbox' = outbox /\ peer' = peer /\ toRep' = toRep
  BY <1>1 DEF scripts, tick
<1>9. new \in Nat
  OBVIOUS
<1> HIDE DEF new, out, stay, go
<1> DEFINE rest == out + Tally(toAuth, Asking(c)) + Tally(inbox, AskedBy(c)) + Tally(running, AskedBy(c))
                   + Tally(outbox, Replying(c)) + Tally(peer.held, Replying(c)) + Tally(toRep, Replied(c))
<1>10. Places(c) = rest + Tally(rep.inbox, Replied(c)) /\ rest \in Nat
  BY <1>4 DEF Shares, out
<1>11. Places(c)' = rest - out + stay + gone
  <2>1. Places(c)' = stay + (Tally(toAuth, Asking(c)) + gone) + Tally(inbox, AskedBy(c)) + Tally(running, AskedBy(c))
                     + Tally(outbox, Replying(c)) + Tally(peer.held, Replying(c)) + Tally(toRep, Replied(c)) + 0
    BY <1>4, <1>5, <1>6, <1>7, <1>8 DEF Shares
  <2>2. gone \in Nat
    BY <1>3
  <2> HIDE DEF gone
  <2> QED
    BY <1>3, <1>4, <2>1, <2>2
<1>12. rest >= out
  BY <1>4
<1> HIDE DEF rest
<1>13. /\ Places(c)' \in Nat /\ Places(c)' <= rest + new
       /\ out = 0 /\ new = 0 => Places(c)' = rest
       /\ up /\ go = out + new => Places(c)' = rest + new
  BY <1>3, <1>4, <1>9, <1>10, <1>11, <1>12
<1> QED
  BY <1>3, <1>10, <1>13 DEF rest, new, out

LEMMA CourseReplicaTick ==
    ASSUME Types, Course, NEW asks \in BOOLEAN, ReplicaTick(asks) PROVE Course'
<1>1. /\ asks => rep.next \in Call /\ Fn \in rep.locals
      /\ rep'.conn = rep.conn /\ rep'.welcomed = rep.welcomed /\ rep'.outbox = Staying(asks)
      /\ rep'.next = (IF asks THEN rep.next + 1 ELSE rep.next)
      /\ rep'.waiters = (rep.waiters \ Answered(rep.inbox)) \cup (IF asks THEN {rep.next} ELSE {})
      /\ excused' = IF asks /\ ~(up /\ rep.welcomed /\ Fn \in alive) THEN excused \cup {rep.next} ELSE excused
      /\ UNCHANGED <<scripts, tick, ids, peer, up, toRep>>
  BY ReplicaTickIs
<1>2. /\ rep.next \in Nat \ {0} /\ rep.waiters \in SUBSET Call /\ \A c \in rep.waiters : c < rep.next
      /\ rep.outbox \in Seq(Waiting) /\ rep.inbox \in Seq(Sent) /\ Call \subseteq Nat
  BY TypesGive, RepIs, CallsAre DEF WireTypes
<1>3. ASSUME NEW c \in Call, c >= rep.next
      PROVE  /\ Places(c) = 0 /\ \A i \in DOMAIN inbox : inbox[i].call # c
             /\ \A i \in DOMAIN running : running[i].call # c
             /\ \A i \in DOMAIN outbox : outbox[i].call # c
             /\ Tally(rep.outbox, Awaiting(c)) = 0 /\ Tally(rep.inbox, Replied(c)) = 0
  <2>1. Places(c) = 0
    BY <1>3 DEF Course
  <2> QED
    BY <2>1, Elsewhere
<1>4. ASSUME NEW c \in Call, c >= rep'.next PROVE Places(c)' = 0
  <2>1. c >= rep.next /\ ~(asks /\ c = rep.next)
    BY <1>1, <1>2, <1>4
  <2>2. Places(c) = 0 /\ Tally(rep.inbox, Replied(c)) = 0
    BY <1>3, <2>1
  <2> DEFINE rest == Tally(rep.outbox, Awaiting(c)) + Tally(toAuth, Asking(c)) + Tally(inbox, AskedBy(c)) + Tally(running, AskedBy(c))
                     + Tally(outbox, Replying(c)) + Tally(peer.held, Replying(c)) + Tally(toRep, Replied(c))
             new == IF asks /\ c = rep.next THEN 1 ELSE 0
  <2>3. /\ Places(c) = rest + Tally(rep.inbox, Replied(c))
        /\ Places(c)' \in Nat /\ Places(c)' <= rest + new
    BY ReplicaTickTally
  <2>4. rest \in Nat
    BY PlacesAre
  <2>5. new = 0
    BY <2>1
  <2> HIDE DEF rest, new
  <2> QED
    BY <2>2, <2>3, <2>4, <2>5
<1>5. ASSUME NEW c \in Live'
      PROVE  \/ asks /\ c = rep.next /\ up /\ rep.welcomed /\ Fn \in alive /\ excused' = excused
             \/ c \in Live /\ c \notin Answered(rep.inbox) /\ c < rep.next
  BY <1>1, <1>2 DEF Live
<1>6. ASSUME NEW c \in Call, asks /\ c = rep.next /\ up /\ rep.welcomed PROVE Places(c)' = 1
  <2>1. /\ Places(c) = 0 /\ Tally(rep.outbox, Awaiting(c)) = 0 /\ Tally(rep.inbox, Replied(c)) = 0
    BY <1>2, <1>3, <1>6
  <2>2. \A i \in DOMAIN Queued(asks) : Queued(asks)[i].call = c => i \in Goes(asks)
    <3> DEFINE e == [call |-> rep.next, life |-> rep.life, waited |-> 0]
               g == Append(rep.outbox, e)
    <3>1. Queued(asks) = g
      BY <1>6 DEF Queued
    <3>2. e \in Waiting /\ e.life = rep.life
      BY <1>1, <1>6, TypesGive, RepIs DEF Waiting
    <3>3. \A i \in DOMAIN rep.outbox : rep.outbox[i].call # c
      <4>1. \A i \in DOMAIN rep.outbox : rep.outbox[i] \notin Awaiting(c) /\ rep.outbox[i] \in Waiting
        BY <1>2, <2>1, HitsAreFew
      <4> QED
        BY <4>1 DEF Awaiting
    <3> HIDE DEF e
    <3>4. /\ DOMAIN rep.outbox = 1..Len(rep.outbox) /\ DOMAIN g = 1..(Len(rep.outbox) + 1) /\ Len(rep.outbox) \in Nat
          /\ \A i \in 1..Len(rep.outbox) : g[i] = rep.outbox[i]
          /\ g[Len(rep.outbox) + 1] = e
      BY <1>2, <3>2, AppendIs
    <3> HIDE DEF g
    <3>5. \A i \in DOMAIN g : g[i].call = c => g[i].life = rep.life
      <4> SUFFICES ASSUME NEW i \in DOMAIN g, g[i].call = c PROVE g[i].life = rep.life
        OBVIOUS
      <4>1. i \notin 1..Len(rep.outbox)
        BY <3>3, <3>4
      <4>2. i = Len(rep.outbox) + 1
        BY <3>4, <4>1
      <4> QED
        BY <3>2, <3>4, <4>2
    <3> QED
      BY <1>1, <1>6, <3>1, <3>5 DEF Goes
  <2> DEFINE rest == Tally(rep.outbox, Awaiting(c)) + Tally(toAuth, Asking(c)) + Tally(inbox, AskedBy(c)) + Tally(running, AskedBy(c))
                     + Tally(outbox, Replying(c)) + Tally(peer.held, Replying(c)) + Tally(toRep, Replied(c))
             new == IF asks /\ c = rep.next THEN 1 ELSE 0
  <2>3. Places(c) = rest + Tally(rep.inbox, Replied(c)) /\ Places(c)' = rest + new
    BY <1>6, <2>2, ReplicaTickTally
  <2>4. rest \in Nat
    BY PlacesAre
  <2>5. new = 1
    BY <1>6
  <2> HIDE DEF rest, new
  <2> QED
    BY <2>1, <2>3, <2>4, <2>5
<1>7. ASSUME NEW c \in Call, c \in Live, c \notin Answered(rep.inbox), c < rep.next PROVE Places(c)' = 1
  <2>1. Places(c) = 1 /\ c \in rep.waiters /\ c # rep.next
    BY <1>2, <1>7 DEF Course, Live
  <2>2. Tally(rep.outbox, Awaiting(c)) = 0
    <3>1. \A i \in DOMAIN rep.outbox : rep.outbox[i].call # c
      BY <1>7 DEF Course
    <3>2. \A i \in DOMAIN rep.outbox : rep.outbox[i] \notin Awaiting(c)
      BY <3>1 DEF Awaiting
    <3> QED
      BY <1>2, <3>2, HitsAreFew
  <2>3. Tally(rep.inbox, Replied(c)) = 0
    <3>1. \A i \in DOMAIN rep.inbox : rep.inbox[i].call # c
      BY <1>7, <2>1 DEF Answered
    <3>2. \A i \in DOMAIN rep.inbox : rep.inbox[i] \notin Replied(c)
      BY <3>1 DEF Replied
    <3> QED
      BY <1>2, <3>2, HitsAreFew
  <2> DEFINE rest == Tally(rep.outbox, Awaiting(c)) + Tally(toAuth, Asking(c)) + Tally(inbox, AskedBy(c)) + Tally(running, AskedBy(c))
                     + Tally(outbox, Replying(c)) + Tally(peer.held, Replying(c)) + Tally(toRep, Replied(c))
             new == IF asks /\ c = rep.next THEN 1 ELSE 0
  <2>4. /\ Places(c) = rest + Tally(rep.inbox, Replied(c))
        /\ Tally(rep.outbox, Awaiting(c)) = 0 /\ new = 0 => Places(c)' = rest
    BY ReplicaTickTally
  <2>5. rest \in Nat
    BY PlacesAre
  <2>6. new = 0
    BY <2>1
  <2> HIDE DEF rest, new
  <2> QED
    BY <2>1, <2>2, <2>3, <2>4, <2>5, <2>6
<1>8. \A c \in Live' : c \in Call
  BY <1>1, <1>2 DEF Live
<1>9. \A c \in Live' : up /\ rep.welcomed /\ Fn \in alive
  BY <1>5 DEF Course
<1>10. \A c \in Live' : Places(c)' = 1 /\ up' /\ rep'.welcomed /\ Fn \in alive'
  <2>1. \A c \in Live' : Places(c)' = 1
    BY <1>5, <1>6, <1>7, <1>8
  <2> QED
    BY <1>1, <1>9, <2>1 DEF scripts
<1>11. \A i \in DOMAIN rep'.outbox : rep'.outbox[i].call \notin Live'
  <2>1. ASSUME NEW c \in Live' PROVE rep'.outbox = <<>>
    <3>1. /\ c \in Call /\ rep.welcomed
          /\ asks => rep.next \in Call
      BY <1>1, <1>8, <1>9
    <3>2. rep.welcomed => Staying(asks) = <<>>
      BY <3>1, QueuedTally
    <3> QED
      BY <1>1, <3>1, <3>2
  <2>2. ASSUME NEW i \in DOMAIN rep'.outbox, NEW c \in Live' PROVE rep'.outbox[i].call # c
    BY <2>1
  <2> QED
    BY <2>2
<1>12. ASSUME NEW c \in Live', c \notin Live PROVE asks /\ c = rep.next /\ c \in Call /\ c >= rep.next
  BY <1>2, <1>5, <1>8, <1>12
<1>13. inbox' = inbox /\ running' = running /\ outbox' = outbox /\ ids' = ids /\ rep'.conn = rep.conn
  BY <1>1 DEF scripts, tick
<1>14. Attended(inbox)'
  <2>1. \A i \in DOMAIN inbox : inbox[i].call \in Live' => inbox[i].player = rep.conn /\ Fn \in ids
    BY <1>3, <1>12 DEF Course, Attended
  <2> QED
    BY <1>13, <2>1 DEF Attended
<1>15. Attended(running)'
  <2>1. \A i \in DOMAIN running : running[i].call \in Live' => running[i].player = rep.conn /\ Fn \in ids
    BY <1>3, <1>12 DEF Course, Attended
  <2> QED
    BY <1>13, <2>1 DEF Attended
<1>16. Numberable'
  <2>1. \A i \in DOMAIN outbox : outbox[i].call \in Live' => Fn \in ids
    BY <1>3, <1>12 DEF Course, Numberable
  <2> QED
    BY <1>13, <2>1 DEF Numberable
<1>17. Parked'
  <2>1. Parked /\ running' = running /\ ended' = ended /\ timers' = timers /\ due' = due /\ excused \subseteq excused'
    BY <1>1 DEF Course, scripts, tick
  <2>2. \A i \in DOMAIN running' :
            running'[i].call \in excused' \cup ended' \cup Threads(timers') \cup Threads(due')
    BY <2>1 DEF Parked
  <2> QED
    BY <2>2 DEF Parked
<1>18. due' # <<>> => phase' = "resume"
  BY <1>1 DEF Course, tick
<1> QED
  BY <1>4, <1>10, <1>11, <1>14, <1>15, <1>16, <1>17, <1>18 DEF Course
\* What the authority takes of a poll.
LEMMA NotedIs ==
    ASSUME Types, Types', NEW k \in 1..Len(toAuth), AuthorityReceive(k)
    PROVE  /\ Taken(k) \in Seq(ToAuth) /\ Noted(k) \in Seq(Ask) /\ DOMAIN Noted(k) = DOMAIN Taken(k)
           /\ \A n \in DOMAIN Noted(k) : /\ Noted(k)[n].call = Taken(k)[n].call /\ Noted(k)[n].player = Who(k)
                                         /\ Taken(k)[n].kind = "Question" /\ Noted(k)[n] \in Ask
                                         /\ Fn \in ids
<1>1. inbox' = inbox \o Noted(k) /\ inbox \in Seq(Ask) /\ inbox' \in Seq(Ask)
  BY ReceiveIs, TypesGive DEF Types, WorldTypes
<1>2. /\ Taken(k) \in Seq(ToAuth)
      /\ \A n \in DOMAIN Taken(k) : Taken(k)[n].kind = "Question" /\ Taken(k)[n].call \in Call /\ Fn \in ids
  <2>1. CASE Fn \in ids \cap alive
    BY <2>1, QuestionsAre DEF Taken
  <2>2. CASE Fn \notin ids \cap alive
    BY <2>2 DEF Taken
  <2> QED
    BY <2>1, <2>2
<1>3. Who(k) \in Nat
  <2>1. CASE Hellos(k) # {}
    <3> DEFINE i == Place(Hellos(k), 1)
    <3>1. i \in Hellos(k) /\ i \in 1..k /\ Polled(k)[i] = toAuth[i] /\ Polled(k)[i] \in ToAuth
      BY <2>1, PollIs
    <3>2. Polled(k)[i].kind = "Hello"
      BY <3>1 DEF Hellos, Kind
    <3>3. toAuth[i].conn \in Nat
      BY <3>1, <3>2, ToAuthIs
    <3> QED
      BY <2>1, <3>3 DEF Who
  <2>2. CASE Hellos(k) = {}
    BY <2>2, TypesGive, PeerIs DEF Who
  <2> QED
    BY <2>1, <2>2
<1>4. \A n \in DOMAIN Taken(k) : [call |-> Taken(k)[n].call, player |-> Who(k)] \in Ask
  BY <1>2, <1>3 DEF Ask
<1>5. DOMAIN Taken(k) = 1..Len(Taken(k)) /\ Len(Taken(k)) \in Nat
  BY <1>2, LenProperties
<1>6. Noted(k) \in Seq(Ask) /\ DOMAIN Noted(k) = DOMAIN Taken(k)
  BY <1>4, <1>5 DEF Noted
<1>7. \A n \in DOMAIN Noted(k) : Noted(k)[n] = [call |-> Taken(k)[n].call, player |-> Who(k)]
  BY <1>6 DEF Noted
<1> QED
  BY <1>2, <1>4, <1>6, <1>7

\* So many of a question are polled, and so many of them are taken.
LEMMA PollTally ==
    ASSUME Types, Types', NEW k \in 1..Len(toAuth), AuthorityReceive(k), NEW c \in Call
    PROVE  LET polled == Tally(Polled(k), Asking(c))
               noted  == Tally(Noted(k), AskedBy(c))
           IN  /\ polled \in Nat /\ noted \in Nat /\ noted <= polled
               /\ Tally(toAuth, Asking(c)) = polled + Tally(toAuth', Asking(c))
               /\ Tally(inbox', AskedBy(c)) = Tally(inbox, AskedBy(c)) + noted
               /\ polled # 0 => c \in CallsOf(Polled(k))
               /\ c \in CallsOf(Taken(k)) => noted # 0
<1> DEFINE Q == Kind(Polled(k), "Question")
           a == Sublist(Polled(k), Q)
           l == IF Len(a) < MaxPerPoll THEN Len(a) ELSE MaxPerPoll
           T == Asking(c)
<1>1. /\ inbox' = inbox \o Noted(k) /\ toAuth' = SubSeq(toAuth, k + 1, Len(toAuth))
  BY ReceiveIs
<1>2. /\ Taken(k) \in Seq(ToAuth) /\ Noted(k) \in Seq(Ask) /\ DOMAIN Noted(k) = DOMAIN Taken(k)
      /\ \A n \in DOMAIN Noted(k) : /\ Noted(k)[n].call = Taken(k)[n].call /\ Noted(k)[n] \in Ask
                                    /\ Taken(k)[n].kind = "Question"
  BY NotedIs
<1>3. /\ Polled(k) \in Seq(ToAuth) /\ toAuth \in Seq(ToAuth) /\ k \in 0..Len(toAuth) /\ inbox \in Seq(Ask)
      /\ Q \in SUBSET DOMAIN Polled(k)
  BY PollIs, QuestionsAre, TypesGive DEF WorldTypes
<1>4. Tally(toAuth, T) = Tally(Polled(k), T) + Tally(toAuth', T)
  BY <1>1, <1>3, TallyCut DEF Polled
<1>5. Tally(inbox', AskedBy(c)) = Tally(inbox, AskedBy(c)) + Tally(Noted(k), AskedBy(c))
  BY <1>1, <1>2, <1>3, TallyConcat
<1>6. Tally(Noted(k), AskedBy(c)) = Tally(Taken(k), T)
  <2>1. \A n \in DOMAIN Taken(k) : Taken(k)[n] \in ToAuth
    BY <1>2
  <2>2. \A n \in DOMAIN Noted(k) : Noted(k)[n] \in AskedBy(c) <=> Taken(k)[n] \in T
    BY <1>2, <2>1 DEF AskedBy, Asking
  <2> HIDE DEF T
  <2> QED
    BY <1>2, <2>2, TallySame
<1>7. Tally(Polled(k), T) \in Nat /\ Tally(Taken(k), T) \in Nat
  BY <1>2, <1>3, TallyIsNat
<1>8. Tally(Taken(k), T) <= Tally(Polled(k), T)
  <2>1. CASE Taken(k) = <<>>
    <3>1. Hits(<<>>, T) = {}
      BY DEF Hits
    <3>2. Tally(Taken(k), T) = 0
      BY <2>1, <3>1, FS_EmptySet DEF Tally
    <3> QED
      BY <1>7, <3>2
  <2>2. CASE Taken(k) = Questions(k)
    <3>1. Questions(k) = SubSeq(a, 1, l)
      BY DEF Questions
    <3>2. a \in Seq(ToAuth) /\ Len(a) \in Nat /\ Tally(a, T) <= Tally(Polled(k), T)
      <4> HIDE DEF Q, T
      <4> QED BY <1>3, SublistIn, TallyPart
    <3> HIDE DEF a, T
    <3>3. l \in 0..Len(a)
      BY <3>2, RemoteAssumption
    <3> HIDE DEF l
    <3>4. Tally(a, T) = Tally(SubSeq(a, 1, l), T) + Tally(SubSeq(a, l + 1, Len(a)), T)
      BY <3>2, <3>3, TallyCut
    <3>5. SubSeq(a, l + 1, Len(a)) \in Seq(ToAuth)
      BY <3>2, <3>3, CutIs
    <3>6. Tally(SubSeq(a, l + 1, Len(a)), T) \in Nat
      BY <3>5, TallyIsNat
    <3>7. Tally(a, T) = Tally(Taken(k), T) + Tally(SubSeq(a, l + 1, Len(a)), T)
      BY <2>2, <3>1, <3>4
    <3> QED
      BY <1>7, <3>2, <3>6, <3>7
  <2> QED
    BY <2>1, <2>2 DEF Taken
<1>9. ASSUME Tally(Polled(k), T) # 0 PROVE c \in CallsOf(Polled(k))
  <2>1. PICK i \in DOMAIN Polled(k) : Polled(k)[i] \in T
    BY <1>3, <1>9, HitsAreFew
  <2>2. i \in Kind(Polled(k), "Question") /\ Polled(k)[i].call = c
    BY <2>1 DEF Asking, Kind
  <2> QED
    BY <2>2 DEF CallsOf
<1>10. ASSUME c \in CallsOf(Taken(k)) PROVE Tally(Taken(k), T) # 0
  <2>1. PICK i \in Kind(Taken(k), "Question") : Taken(k)[i].call = c
    BY <1>10 DEF CallsOf
  <2>2. i \in DOMAIN Taken(k) /\ Taken(k)[i].kind = "Question" /\ Taken(k)[i] \in ToAuth
    BY <1>2, <2>1 DEF Kind
  <2>3. Taken(k)[i] \in T
    BY <2>1, <2>2 DEF Asking
  <2> QED
    BY <1>2, <2>2, <2>3, HitsAreFew
<1> QED
  BY <1>4, <1>5, <1>6, <1>7, <1>8, <1>9, <1>10

LEMMA CourseReceives ==
    ASSUME Types, There, Course, NEW k \in 1..Len(toAuth), AuthorityReceive(k) PROVE Course'
<1>1. /\ phase = "idle" /\ inbox' = inbox \o Noted(k)
      /\ peer' = IF Hellos(k) # {} THEN [Nobody EXCEPT !.welcomed = TRUE, !.player = Who(k)]
                 ELSE IF Kind(Polled(k), "Gone") # {} THEN Nobody ELSE peer
      /\ toRep' = IF Hellos(k) # {} /\ up THEN Append(toRep, [kind |-> "Welcome"]) ELSE toRep
      /\ excused' = excused \cup (CallsOf(Polled(k)) \ CallsOf(Taken(k)))
      /\ UNCHANGED <<scripts, phase, running, ended, due, ids, rep, up, heard>>
  BY ReceiveIs
<1>2. Types'
  BY ReceiveTypes
<1>3. /\ running' = running /\ outbox' = outbox /\ rep' = rep /\ alive' = alive /\ ids' = ids
      /\ timers' = timers /\ due' = due /\ ended' = ended /\ up' = up /\ phase' = phase
  BY <1>1 DEF scripts
<1>4. /\ toRep \in Seq(ToRep) /\ inbox \in Seq(Ask) /\ excused \subseteq excused'
  BY <1>1, TypesGive DEF WorldTypes, WireTypes
<1>5. ASSUME NEW c \in Live PROVE Hellos(k) = {} /\ Kind(Polled(k), "Gone") = {} /\ c \in Call
  <2>1. Kind(toAuth, "Hello") = {} /\ Kind(toAuth, "Gone") = {} /\ c \in Call
    BY LiveIs
  <2>2. \A i \in 1..k : i \in DOMAIN toAuth /\ Polled(k)[i] = toAuth[i] /\ DOMAIN Polled(k) = 1..k
    BY PollIs
  <2> QED
    BY <2>1, <2>2, PollIs DEF Hellos, Kind
<1>6. ASSUME NEW c \in Call
      PROVE  /\ Tally(peer'.held, Replying(c)) <= Tally(peer.held, Replying(c))
             /\ Tally(toRep', Replied(c)) = Tally(toRep, Replied(c))
  <2>1. peer'.held = <<>> \/ peer'.held = peer.held
    BY <1>1 DEF Nobody
  <2>2. Tally(<<>>, Replying(c)) = 0
    <3>1. Hits(<<>>, Replying(c)) = {}
      BY DEF Hits
    <3> QED
      BY <3>1, FS_EmptySet DEF Tally
  <2>3. Tally(peer.held, Replying(c)) \in Nat /\ Tally(toRep, Replied(c)) \in Nat
    BY PlacesAre
  <2>4. Tally(peer'.held, Replying(c)) <= Tally(peer.held, Replying(c))
    <3>1. CASE peer'.held = <<>>
      BY <2>2, <2>3, <3>1
    <3>2. CASE peer'.held = peer.held
      BY <2>3, <3>2
    <3> QED
      BY <2>1, <3>1, <3>2
  <2>5. Tally(toRep', Replied(c)) = Tally(toRep, Replied(c))
    <3> DEFINE w == [kind |-> "Welcome"]
    <3>1. w \in ToRep /\ w \notin Replied(c)
      BY DEF ToRep, Replied
    <3>2. toRep' = Append(toRep, w) \/ toRep' = toRep
      BY <1>1
    <3> HIDE DEF w
    <3>3. Whether(w, Replied(c)) = 0
      BY <3>1 DEF Whether
    <3>4. Tally(Append(toRep, w), Replied(c)) = Tally(toRep, Replied(c)) + Whether(w, Replied(c))
      BY <1>4, <3>1, TallyAppend
    <3>5. Tally(Append(toRep, w), Replied(c)) = Tally(toRep, Replied(c))
      BY <2>3, <3>3, <3>4
    <3>6. CASE toRep' = Append(toRep, w)
      BY <3>5, <3>6
    <3>7. CASE toRep' = toRep
      BY <3>7
    <3> QED
      BY <3>2, <3>6, <3>7
  <2> QED
    BY <2>4, <2>5
<1>7. ASSUME NEW c \in Call
      PROVE  /\ Places(c)' <= Places(c)
             /\ c \in Live /\ c \notin excused' => Places(c)' = Places(c)
  <2> DEFINE polled == Tally(Polled(k), Asking(c))
             noted  == Tally(Noted(k), AskedBy(c))
             sum == Tally(rep.outbox, Awaiting(c)) + Tally(toAuth', Asking(c)) + Tally(inbox, AskedBy(c))
                    + Tally(running, AskedBy(c)) + Tally(outbox, Replying(c)) + Tally(toRep, Replied(c))
                    + Tally(rep.inbox, Replied(c))
  <2>1. /\ polled \in Nat /\ noted \in Nat /\ noted <= polled
        /\ Tally(toAuth, Asking(c)) = polled + Tally(toAuth', Asking(c))
        /\ Tally(inbox', AskedBy(c)) = Tally(inbox, AskedBy(c)) + noted
        /\ polled # 0 => c \in CallsOf(Polled(k))
        /\ c \in CallsOf(Taken(k)) => noted # 0
    BY <1>2, PollTally
  <2>2. /\ Places(c) = Shares(c, rep.outbox, toAuth, inbox, running, outbox, peer.held, toRep, rep.inbox)
        /\ Places(c)' = Shares(c, rep'.outbox, toAuth', inbox', running', outbox', peer'.held, toRep', rep'.inbox)
        /\ Tally(rep.outbox, Awaiting(c)) \in Nat /\ Tally(toAuth', Asking(c)) \in Nat
        /\ Tally(inbox, AskedBy(c)) \in Nat /\ Tally(running, AskedBy(c)) \in Nat
        /\ Tally(outbox, Replying(c)) \in Nat /\ Tally(peer.held, Replying(c)) \in Nat
        /\ Tally(toRep, Replied(c)) \in Nat /\ Tally(rep.inbox, Replied(c)) \in Nat
        /\ Tally(peer'.held, Replying(c)) \in Nat
    BY <1>2, PlacesAre, PlacesAfter
  <2> HIDE DEF polled, noted
  <2>7. /\ polled \in Nat /\ noted \in Nat /\ Tally(toAuth, Asking(c)) = polled + Tally(toAuth', Asking(c))
        /\ Tally(inbox', AskedBy(c)) = Tally(inbox, AskedBy(c)) + noted
        /\ Tally(toRep', Replied(c)) = Tally(toRep, Replied(c))
    BY <1>6, <2>1
  <2> DEFINE o == Tally(rep.outbox, Awaiting(c))
             w == Tally(toAuth', Asking(c))
             b == Tally(inbox, AskedBy(c))
             r == Tally(running, AskedBy(c))
             m == Tally(outbox, Replying(c))
             h == Tally(peer.held, Replying(c))
             n == Tally(peer'.held, Replying(c))
             v == Tally(toRep, Replied(c))
             a == Tally(rep.inbox, Replied(c))
  <2>8. Places(c) = o + (polled + w) + b + r + m + h + v + a
    BY <2>2, <2>7 DEF Shares
  <2>9. Places(c)' = o + w + (b + noted) + r + m + n + v + a
    BY <1>3, <2>2, <2>7 DEF Shares
  <2>10. /\ o \in Nat /\ w \in Nat /\ b \in Nat /\ r \in Nat /\ m \in Nat /\ h \in Nat /\ n \in Nat
         /\ v \in Nat /\ a \in Nat /\ sum = o + w + b + r + m + v + a
    BY <2>2
  <2> HIDE DEF sum, o, w, b, r, m, h, n, v, a
  <2>3. Places(c) = sum + polled + Tally(peer.held, Replying(c)) /\ sum \in Nat
    <3>1. Places(c) = sum + polled + h /\ sum \in Nat
      BY <2>7, <2>8, <2>10
    <3> QED
      BY <3>1 DEF h
  <2>4. Places(c)' = sum + noted + Tally(peer'.held, Replying(c))
    <3>1. Places(c)' = sum + noted + n
      BY <2>7, <2>9, <2>10
    <3> QED
      BY <3>1 DEF n
  <2>5. Places(c)' <= Places(c)
    <3>1. /\ Places(c) = sum + polled + h /\ Places(c)' = sum + noted + n
          /\ sum \in Nat /\ polled \in Nat /\ noted \in Nat /\ h \in Nat /\ n \in Nat
      BY <2>3, <2>4, <2>7, <2>10 DEF h, n
    <3>2. noted <= polled /\ n <= h
      BY <1>6, <2>1 DEF h, n
    <3> QED
      BY <3>1, <3>2
  <2>6. ASSUME c \in Live, c \notin excused' PROVE Places(c)' = Places(c)
    <3>1. Places(c) = 1
      BY <2>6 DEF Course
    <3>2. peer' = peer
      BY <1>1, <1>5, <2>6
    <3>3. polled # 0 => noted # 0
      BY <1>1, <2>1, <2>6
    <3>4. noted = polled
      BY <2>1, <2>2, <2>3, <3>1, <3>3
    <3> QED
      BY <2>3, <2>4, <3>2, <3>4
  <2> QED
    BY <2>5, <2>6
<1>8. \A c \in Live : c \in Call /\ up' /\ rep'.welcomed /\ Fn \in alive'
  BY <1>3, <1>5 DEF Course
<1>9. \A c \in Live' : c \in Live
  BY <1>3, <1>4 DEF Live
<1>10. Attended(inbox)'
  <2>1. Noted(k) \in Seq(Ask) /\ \A n \in DOMAIN Noted(k) : Noted(k)[n].player = Who(k) /\ Fn \in ids
    BY <1>2, NotedIs
  <2>2. /\ DOMAIN inbox' = 1..(Len(inbox) + Len(Noted(k))) /\ DOMAIN inbox = 1..Len(inbox)
        /\ DOMAIN Noted(k) = 1..Len(Noted(k))
        /\ \A i \in 1..Len(inbox) : inbox'[i] = inbox[i]
        /\ \A i \in 1..(Len(inbox) + Len(Noted(k))) :
               (i \in 1..Len(inbox)) \/ (i - Len(inbox) \in 1..Len(Noted(k)) /\ inbox'[i] = Noted(k)[i - Len(inbox)])
    BY <1>1, <1>4, <2>1, ConcatIs
  <2>3. Attended(inbox)
    BY DEF Course
  <2>4. ASSUME NEW i \in DOMAIN inbox', inbox'[i].call \in Live PROVE inbox'[i].player = rep.conn /\ Fn \in ids
    <3>1. CASE i \in 1..Len(inbox)
      BY <2>2, <2>3, <2>4, <3>1 DEF Attended
    <3>2. CASE i - Len(inbox) \in 1..Len(Noted(k)) /\ inbox'[i] = Noted(k)[i - Len(inbox)]
      <4>1. inbox'[i].player = Who(k) /\ Fn \in ids
        BY <2>1, <2>2, <3>2
      <4>2. Hellos(k) = {} /\ Here(rep.conn)
        BY <1>5, <2>4, LiveIs
      <4> QED
        BY <4>1, <4>2 DEF Who, Here
    <3> QED
      BY <2>2, <2>4, <3>1, <3>2
  <2> QED
    BY <1>3, <1>9, <2>4 DEF Attended
<1>11. Attended(running)' /\ Numberable'
  BY <1>3, <1>9 DEF Course, Attended, Numberable
<1>12. Parked'
  <2>1. \A i \in DOMAIN running' :
            running'[i].call \in excused' \cup ended' \cup Threads(timers') \cup Threads(due')
    BY <1>3, <1>4 DEF Course, Parked
  <2> QED
    BY <2>1 DEF Parked
<1>13. due' # <<>> => phase' = "resume"
  BY <1>3 DEF Course
<1>14. \A c \in Call : Places(c)' <= Places(c)
  BY <1>7
<1>15. \A c \in Live : c \notin excused' => Places(c)' = Places(c) /\ up' /\ rep'.welcomed /\ Fn \in alive'
  BY <1>7, <1>8
<1>16. rep'.next = rep.next /\ rep'.waiters = rep.waiters /\ rep'.outbox = rep.outbox
  BY <1>3
<1> QED
  BY <1>2, <1>4, <1>10, <1>11, <1>12, <1>13, <1>14, <1>15, <1>16, CourseFrom
\* An answer is the same answer on the wire.
LEMMA WiredTally ==
    ASSUME NEW s \in Seq(Message), NEW c \in Call
    PROVE  Tally(Wired(s), Replied(c)) = Tally(s, Replying(c))
<1>1. /\ Wired(s) \in Seq(Sent) /\ DOMAIN Wired(s) = DOMAIN s
      /\ \A i \in DOMAIN s : /\ Wired(s)[i].kind = IF s[i].call = 0 THEN "Fired" ELSE "Answer"
                             /\ Wired(s)[i].call = s[i].call
  BY WiredIs
<1>2. Wired(s) \in Seq(ToRep) /\ \A i \in DOMAIN s : s[i] \in Message
  BY <1>1, SentToRep
<1>3. c # 0
  BY CallsAre
<1>4. \A i \in DOMAIN Wired(s) : Wired(s)[i] \in ToRep
  BY <1>2
<1>5. \A i \in DOMAIN Wired(s) : Wired(s)[i] \in Replied(c) <=> s[i] \in Replying(c)
  <2> SUFFICES ASSUME NEW i \in DOMAIN s PROVE Wired(s)[i] \in Replied(c) <=> s[i] \in Replying(c)
    BY <1>1
  <2>1. Wired(s)[i] \in ToRep /\ s[i] \in Message /\ Wired(s)[i].call = s[i].call
    BY <1>1, <1>2, <1>4
  <2>2. s[i].call = c => Wired(s)[i].kind = "Answer"
    BY <1>1, <1>3
  <2> QED
    BY <2>1, <2>2 DEF Replied, Replying
<1> QED
  BY <1>1, <1>2, <1>5, TallySame

LEMMA AlikeTally ==
    ASSUME NEW s \in Seq(Message), NEW t \in Seq(Message), Alike(s, t), NEW c
    PROVE  Tally(s, Replying(c)) = Tally(t, Replying(c))
<1>1. DOMAIN s = DOMAIN t /\ \A i \in DOMAIN t : s[i].call = t[i].call
  BY DEF Alike
<1>2. (\A i \in DOMAIN s : s[i] \in Message) /\ (\A i \in DOMAIN t : t[i] \in Message)
  OBVIOUS
<1>3. \A i \in DOMAIN s : s[i] \in Replying(c) <=> t[i] \in Replying(c)
  BY <1>1, <1>2 DEF Replying
<1> QED
  BY <1>1, <1>3, TallySame

\* What waits for a peer, and what the flush takes of it and leaves.
LEMMA FlushTally ==
    ASSUME NEW held \in Seq(Message), NEW known, NEW c
    PROVE  Tally(held, Replying(c)) = Tally(Flushed(held, known), Replying(c)) + Tally(Rest(held, known), Replying(c))
<1> DEFINE f == Flushed(held, known)
           r == Rest(held, known)
           b == SubSeq(held, Len(f) + 1, Len(held))
<1>1. /\ f \in Seq(Message) /\ r \in Seq(Message)
      /\ Len(f) \in 0..Len(held) /\ Len(r) = Len(held) - Len(f)
      /\ \A i \in 1..Len(f) : f[i] = held[i]
      /\ \A i \in 1..Len(r) : r[i].call = held[Len(f) + i].call
  BY FlushedIs
<1> HIDE DEF f, r
<1>2. /\ b \in Seq(Message) /\ Len(b) = Len(held) - Len(f) /\ DOMAIN b = 1..(Len(held) - Len(f)) /\ Len(held) \in Nat
      /\ \A i \in 1..(Len(held) - Len(f)) : b[i] = held[Len(f) + i]
  BY <1>1, CutIs
<1> HIDE DEF b
<1>3. Spliced(held, f, b)
  BY <1>1, <1>2 DEF Spliced
<1>4. Tally(held, Replying(c)) = Tally(f, Replying(c)) + Tally(b, Replying(c))
  BY <1>1, <1>2, <1>3, TallySplice
<1>5. Tally(r, Replying(c)) = Tally(b, Replying(c))
  <2>1. DOMAIN r = 1..Len(r) /\ DOMAIN r = DOMAIN b
    BY <1>1, <1>2, LenProperties
  <2>2. \A i \in DOMAIN r : r[i].call = b[i].call
    BY <1>1, <1>2, <2>1
  <2>3. (\A i \in DOMAIN r : r[i] \in Message) /\ (\A i \in DOMAIN b : b[i] \in Message)
    BY <1>1, <1>2
  <2>4. \A i \in DOMAIN r : r[i] \in Replying(c) <=> b[i] \in Replying(c)
    BY <2>1, <2>2, <2>3 DEF Replying
  <2>5. r \in Seq(Message) /\ b \in Seq(Message) /\ DOMAIN r = DOMAIN b
    BY <1>1, <1>2, <2>1
  <2> QED
    BY <2>4, <2>5, TallySame
<1> QED
  BY <1>4, <1>5 DEF f, r

\* The end of a tick divides what was queued, and what was waiting.
LEMMA TickDivides ==
    ASSUME Types, NEW capture \in BOOLEAN, NEW c \in Call
    PROVE  /\ Tally(AtOnce(capture), Replying(c)) + Tally(Later(capture), Replying(c)) + Tally(Again(capture), Replying(c))
                  <= Tally(outbox, Replying(c))
           /\ (\A i \in DOMAIN outbox : outbox[i].call = c => outbox[i].remote \in Numbered(capture))
              => Tally(AtOnce(capture), Replying(c)) + Tally(Later(capture), Replying(c)) = Tally(outbox, Replying(c))
           /\ Tally(Flush(capture), Replying(c)) + Tally(Left(capture), Replying(c)) = Tally(peer.held, Replying(c))
           /\ Tally(Going(capture), Replying(c)) <= Tally(Flush(capture), Replying(c))
           /\ c \notin Discarded(capture) => Tally(Going(capture), Replying(c)) = Tally(Flush(capture), Replying(c))
           /\ Tally(AtOnce(capture), Replying(c)) \in Nat /\ Tally(Later(capture), Replying(c)) \in Nat
           /\ Tally(Again(capture), Replying(c)) \in Nat /\ Tally(Flush(capture), Replying(c)) \in Nat
           /\ Tally(Left(capture), Replying(c)) \in Nat /\ Tally(Going(capture), Replying(c)) \in Nat
<1> DEFINE T == Replying(c)
           I == Known(outbox, Numbered(capture))
           J == Unnamed(capture)
           K == Known(Flush(capture), KnownNow(capture))
<1>1. /\ outbox \in Seq(Message) /\ peer.held \in Seq(Message)
      /\ Flush(capture) \in Seq(Message) /\ Left(capture) \in Seq(Message)
      /\ K \in SUBSET DOMAIN Flush(capture) /\ Going(capture) \in Seq(Message) /\ Going(capture) = Sublist(Flush(capture), K)
      /\ I \in SUBSET DOMAIN outbox /\ New(capture) \in Seq(Message) /\ New(capture) = Sublist(outbox, I)
      /\ Named(capture) \in Seq(Message) /\ Alike(Named(capture), New(capture))
      /\ J \in SUBSET DOMAIN outbox /\ Again(capture) \in Seq(Message) /\ Again(capture) = Sublist(outbox, J)
  BY TickLists, TypesGive, PeerIs DEF WorldTypes, Going, New, Again
<1>2. /\ AtOnce(capture) \in Seq(Message) /\ Later(capture) \in Seq(Message)
      /\ Len(AtOnce(capture)) \in 0..Len(Named(capture))
      /\ Len(Later(capture)) = Len(Named(capture)) - Len(AtOnce(capture))
      /\ \A i \in 1..Len(AtOnce(capture)) : AtOnce(capture)[i] = Named(capture)[i]
      /\ \A i \in 1..Len(Later(capture)) : Later(capture)[i] = Named(capture)[Len(AtOnce(capture)) + i]
  BY TickCuts
<1>3. I \cap J = {}
  BY DEF Known, Unnamed
<1>4. /\ Tally(AtOnce(capture), T) \in Nat /\ Tally(Later(capture), T) \in Nat
      /\ Tally(Again(capture), T) \in Nat /\ Tally(Flush(capture), T) \in Nat
      /\ Tally(Left(capture), T) \in Nat /\ Tally(Going(capture), T) \in Nat
  BY <1>1, <1>2, TallyIsNat
<1>5. Tally(Named(capture), T) = Tally(AtOnce(capture), T) + Tally(Later(capture), T)
  <2>1. Len(Named(capture)) = Len(AtOnce(capture)) + Len(Later(capture))
    <3>1. Len(Named(capture)) \in Nat
      BY <1>1, LenProperties
    <3> QED
      BY <1>2, <3>1
  <2>2. Spliced(Named(capture), AtOnce(capture), Later(capture))
    BY <1>2, <2>1 DEF Spliced
  <2> QED
    BY <1>1, <1>2, <2>2, TallySplice
<1>6. Tally(Named(capture), T) = Tally(New(capture), T)
  BY <1>1, AlikeTally
<1>7. Tally(Flush(capture), T) + Tally(Left(capture), T) = Tally(peer.held, T)
  BY <1>1, FlushTally DEF Flush, Left
<1>8. \A i \in DOMAIN outbox : outbox[i] \in T => outbox[i].call = c
  BY DEF Replying
<1>9. \A i \in DOMAIN Flush(capture) : Flush(capture)[i] \in T => Flush(capture)[i].call = c
  BY DEF Replying
<1>10. /\ Tally(New(capture), T) + Tally(Again(capture), T) <= Tally(outbox, T)
       /\ (\A i \in DOMAIN outbox : outbox[i] \in T => i \in I) => Tally(New(capture), T) = Tally(outbox, T)
  <2> DEFINE s == outbox
             x == Sublist(s, I)
             y == Sublist(s, J)
  <2> HIDE DEF I, J, T
  <2>1. s \in Seq(Message) /\ I \in SUBSET DOMAIN s /\ J \in SUBSET DOMAIN s /\ I \cap J = {}
    BY <1>1, <1>3
  <2> HIDE DEF s
  <2>2. Tally(Sublist(s, I), T) + Tally(Sublist(s, J), T) <= Tally(s, T)
    BY <2>1, TallyTwo
  <2>3. (\A i \in DOMAIN s : s[i] \in T => i \in I) => Tally(Sublist(s, I), T) = Tally(s, T)
    BY <2>1, TallyPart
  <2>4. New(capture) = x /\ Again(capture) = y
    BY <1>1 DEF s
  <2> QED
    BY <2>2, <2>3, <2>4 DEF s
<1>11. (\A i \in DOMAIN outbox : outbox[i].call = c => outbox[i].remote \in Numbered(capture))
       => (\A i \in DOMAIN outbox : outbox[i] \in T => i \in I)
  BY <1>8 DEF Known
<1>12. /\ Tally(Going(capture), T) <= Tally(Flush(capture), T)
       /\ (\A i \in DOMAIN Flush(capture) : Flush(capture)[i] \in T => i \in K)
          => Tally(Going(capture), T) = Tally(Flush(capture), T)
  <2> HIDE DEF K, T
  <2> QED
    BY <1>1, TallyPart
<1>13. c \notin Discarded(capture) => \A i \in DOMAIN Flush(capture) : Flush(capture)[i] \in T => i \in K
  BY <1>9 DEF Discarded
<1> HIDE DEF T, I, J, K
<1>14. /\ Tally(AtOnce(capture), T) + Tally(Later(capture), T) + Tally(Again(capture), T) <= Tally(outbox, T)
       /\ (\A i \in DOMAIN outbox : outbox[i].call = c => outbox[i].remote \in Numbered(capture))
          => Tally(AtOnce(capture), T) + Tally(Later(capture), T) = Tally(outbox, T)
  BY <1>5, <1>6, <1>10, <1>11
<1> QED
  BY <1>4, <1>7, <1>12, <1>13, <1>14 DEF T

\* What goes out carries the answers that were flushed and those sent at once.
LEMMA OutgoingTally ==
    ASSUME Types, NEW capture \in BOOLEAN, NEW c \in Call
    PROVE  Tally(Outgoing(capture), Replied(c)) =
               Tally(Going(capture), Replying(c)) + Tally(AtOnce(capture), Replying(c))
<1>1. /\ News(capture) \in Seq(ToRep) /\ Wired(Going(capture)) \in Seq(ToRep)
      /\ Wired(AtOnce(capture)) \in Seq(ToRep) /\ News(capture) \o Wired(Going(capture)) \in Seq(ToRep)
  BY OutgoingIs
<1>2. Going(capture) \in Seq(Message) /\ AtOnce(capture) \in Seq(Message)
  BY TickLists, TickCuts
<1>3. Tally(News(capture), Replied(c)) = 0
  <2>1. \A i \in DOMAIN News(capture) : News(capture)[i].kind \in {"Spawn", "Despawn"}
    BY NewsAre
  <2>2. \A i \in DOMAIN News(capture) : News(capture)[i] \notin Replied(c)
    BY <2>1 DEF Replied
  <2> QED
    BY <1>1, <2>2, HitsAreFew
<1>4. /\ Tally(Wired(Going(capture)), Replied(c)) = Tally(Going(capture), Replying(c))
      /\ Tally(Wired(AtOnce(capture)), Replied(c)) = Tally(AtOnce(capture), Replying(c))
  BY <1>2, WiredTally
<1>5. Tally(News(capture) \o Wired(Going(capture)), Replied(c)) =
          Tally(News(capture), Replied(c)) + Tally(Wired(Going(capture)), Replied(c))
  BY <1>1, TallyConcat
<1>6. Tally(Outgoing(capture), Replied(c)) =
          Tally(News(capture) \o Wired(Going(capture)), Replied(c)) + Tally(Wired(AtOnce(capture)), Replied(c))
  BY <1>1, TallyConcat DEF Outgoing
<1>7. Tally(Going(capture), Replying(c)) \in Nat
  BY <1>2, TallyIsNat
<1> QED
  BY <1>3, <1>4, <1>5, <1>6, <1>7
LEMMA CourseTickEnds ==
    ASSUME Types, There, Course, NEW capture \in BOOLEAN, TickEnds(capture) PROVE Course'
<1>1. /\ due = <<>> /\ ids' = Numbered(capture)
      /\ peer' = IF peer.welcomed
                 THEN [peer EXCEPT !.known = KnownNow(capture), !.held = Left(capture) \o Later(capture)]
                 ELSE peer
      /\ toRep' = IF up /\ Here(rep.conn) THEN toRep \o Outgoing(capture) ELSE toRep
      /\ excused' = IF peer.welcomed THEN excused \cup (Discarded(capture) \cap Call) ELSE excused
      /\ UNCHANGED <<born, alive, near, handled, enabled, timers, fired, changes, inbox, running, ended,
                     due, rep, up, toAuth, heard>>
  BY TickEndsIs
<1>2. Types' /\ outbox' \in Seq(Message) /\ Alike(outbox', Again(capture)) /\ Again(capture) \in Seq(Message)
  BY TickEndsTypes, TickLists
<1>3. /\ outbox \in Seq(Message) /\ toRep \in Seq(ToRep) /\ Outgoing(capture) \in Seq(ToRep)
      /\ Left(capture) \in Seq(Message) /\ Later(capture) \in Seq(Message) /\ peer \in PeerType
  BY TypesGive, TickLists, TickCuts, OutgoingIs DEF WorldTypes, WireTypes
<1>4. peer.welcomed => peer'.held = Left(capture) \o Later(capture)
  <2> SUFFICES ASSUME peer.welcomed PROVE peer'.held = Left(capture) \o Later(capture)
    OBVIOUS
  <2> DEFINE p == [peer EXCEPT !.known = KnownNow(capture)]
             h == Left(capture) \o Later(capture)
  <2>1. peer' = [p EXCEPT !.held = h]
    BY <1>1
  <2>2. DOMAIN p = {"welcomed", "player", "known", "held"}
    BY <1>3 DEF PeerType
  <2> HIDE DEF p, h
  <2>3. peer'.held = h
    BY <2>1, <2>2
  <2> QED
    BY <2>3 DEF h
<1>5. Here(rep.conn) => peer.welcomed
  BY DEF Here
<1>6. \A c \in Live : c \in Call /\ up /\ rep.welcomed /\ Fn \in alive /\ Here(rep.conn)
  BY LiveIs
<1>7. \A i \in DOMAIN outbox : outbox[i] \in Message /\ (outbox[i].call \in Call => outbox[i].remote = Fn)
  <2>1. \A i \in DOMAIN outbox : outbox[i] \in Message
    BY <1>3
  <2> QED
    BY <2>1, MessageIs, CallsAre
<1>8. Fn \in ids /\ Fn \in alive => Fn \in Numbered(capture)
  BY DEF Numbered
<1>9. ASSUME NEW c \in Call
      PROVE  /\ Places(c)' <= Places(c)
             /\ c \in Live /\ c \notin excused' => Places(c)' = Places(c)
  <2> DEFINE T == Replying(c)
             now == Tally(AtOnce(capture), T)
             late == Tally(Later(capture), T)
             again == Tally(Again(capture), T)
             flush == Tally(Flush(capture), T)
             left == Tally(Left(capture), T)
             going == Tally(Going(capture), T)
             out == Tally(outbox, T)
             held == Tally(peer.held, T)
             way == Tally(toRep, Replied(c))
             rest == Tally(rep.outbox, Awaiting(c)) + Tally(toAuth, Asking(c)) + Tally(inbox, AskedBy(c))
                     + Tally(running, AskedBy(c)) + Tally(rep.inbox, Replied(c))
  <2>1. /\ now + late + again <= out /\ flush + left = held /\ going <= flush
        /\ now \in Nat /\ late \in Nat /\ again \in Nat /\ flush \in Nat /\ left \in Nat /\ going \in Nat
        /\ (\A i \in DOMAIN outbox : outbox[i].call = c => outbox[i].remote \in Numbered(capture))
           => now + late = out
        /\ c \notin Discarded(capture) => going = flush
    BY TickDivides
  <2>2. /\ Places(c) = Shares(c, rep.outbox, toAuth, inbox, running, outbox, peer.held, toRep, rep.inbox)
        /\ Places(c)' = Shares(c, rep'.outbox, toAuth', inbox', running', outbox', peer'.held, toRep', rep'.inbox)
        /\ Tally(rep.outbox, Awaiting(c)) \in Nat /\ Tally(toAuth, Asking(c)) \in Nat
        /\ Tally(inbox, AskedBy(c)) \in Nat /\ Tally(running, AskedBy(c)) \in Nat
        /\ out \in Nat /\ held \in Nat /\ way \in Nat /\ Tally(rep.inbox, Replied(c)) \in Nat
    BY <1>2, PlacesAre, PlacesAfter
  <2>3. Tally(outbox', T) = again
    BY <1>2, AlikeTally
  <2>4. peer.welcomed => Tally(peer'.held, T) = left + late
    <3>1. Left(capture) \in Seq(Message) /\ Later(capture) \in Seq(Message)
      BY <1>3
    <3>2. Tally(Left(capture) \o Later(capture), T) = left + late
      BY <3>1, TallyConcat
    <3> HIDE DEF left, late, T
    <3> QED
      BY <1>4, <3>2
  <2>5. ~peer.welcomed => Tally(peer'.held, T) = held
    BY <1>1
  <2>6. up /\ Here(rep.conn) => Tally(toRep', Replied(c)) = way + (going + now)
    <3> SUFFICES ASSUME up, Here(rep.conn) PROVE Tally(toRep', Replied(c)) = way + (going + now)
      OBVIOUS
    <3>1. toRep' = toRep \o Outgoing(capture)
      BY <1>1
    <3>2. Tally(toRep \o Outgoing(capture), Replied(c)) = way + Tally(Outgoing(capture), Replied(c))
      BY <1>3, TallyConcat
    <3>3. Tally(Outgoing(capture), Replied(c)) = going + now
      BY OutgoingTally
    <3> HIDE DEF now, going, way
    <3> QED
      BY <3>1, <3>2, <3>3
  <2>7. ~(up /\ Here(rep.conn)) => Tally(toRep', Replied(c)) = way
    BY <1>1
  <2>8. Places(c) = rest + out + held + way /\ rest \in Nat
    <3>1. Places(c) = Tally(rep.outbox, Awaiting(c)) + Tally(toAuth, Asking(c)) + Tally(inbox, AskedBy(c))
                      + Tally(running, AskedBy(c)) + out + held + way + Tally(rep.inbox, Replied(c))
      BY <2>2 DEF Shares
    <3> HIDE DEF out, held, way
    <3> QED
      BY <2>2, <3>1
  <2>9. Places(c)' = rest + Tally(outbox', T) + Tally(peer'.held, T) + Tally(toRep', Replied(c))
    <3>1. Places(c)' = Tally(rep.outbox, Awaiting(c)) + Tally(toAuth, Asking(c)) + Tally(inbox, AskedBy(c))
                      + Tally(running, AskedBy(c)) + Tally(outbox', T) + Tally(peer'.held, T)
                      + Tally(toRep', Replied(c)) + Tally(rep.inbox, Replied(c))
      BY <1>1, <2>2 DEF Shares
    <3>2. Tally(outbox', T) \in Nat /\ Tally(peer'.held, T) \in Nat /\ Tally(toRep', Replied(c)) \in Nat
      BY <1>2, PlacesAfter
    <3> HIDE DEF T
    <3> QED
      BY <2>2, <3>1, <3>2
  <2>10. ASSUME c \in Live, c \notin excused'
         PROVE  up /\ Here(rep.conn) /\ now + late = out /\ going = flush
    <3>1. up /\ Here(rep.conn) /\ Fn \in alive /\ peer.welcomed
      BY <1>5, <1>6, <2>10
    <3>2. \A i \in DOMAIN outbox : outbox[i].call = c => outbox[i].remote \in Numbered(capture)
      BY <1>7, <1>8, <2>10, <3>1 DEF Course, Numberable
    <3>3. c \notin Discarded(capture)
      BY <1>1, <2>10, <3>1
    <3> QED
      BY <2>1, <3>1, <3>2, <3>3
  <2> HIDE DEF T, now, late, again, flush, left, going, out, held, way, rest
  <2>11. CASE up /\ Here(rep.conn)
    <3>1. Places(c)' = rest + again + (left + late) + (way + (going + now))
      BY <1>5, <2>3, <2>4, <2>6, <2>9, <2>11
    <3> QED
      BY <2>1, <2>2, <2>8, <2>10, <3>1
  <2>12. CASE ~(up /\ Here(rep.conn))
    <3>1. Places(c)' = rest + again + Tally(peer'.held, T) + way
      BY <2>3, <2>7, <2>9, <2>12
    <3>2. Tally(peer'.held, T) = left + late \/ Tally(peer'.held, T) = held
      BY <2>4, <2>5
    <3> QED
      BY <2>1, <2>2, <2>8, <2>10, <2>12, <3>1, <3>2
  <2> QED
    BY <2>11, <2>12
<1>10. /\ running' = running /\ inbox' = inbox /\ rep' = rep /\ alive' = alive /\ up' = up
       /\ timers' = timers /\ due' = due /\ ended' = ended /\ excused \subseteq excused'
  BY <1>1
<1>11. \A c \in Live' : c \in Live
  BY <1>10 DEF Live
<1>12. Fn \in ids /\ Live # {} => Fn \in ids'
  BY <1>1, <1>6, <1>8
<1>13. Attended(inbox)' /\ Attended(running)'
  BY <1>10, <1>11, <1>12 DEF Course, Attended
<1>14. Numberable'
  <2>1. \A i \in DOMAIN outbox' : \E j \in DOMAIN outbox : outbox'[i].call = outbox[j].call
    <3>1. DOMAIN outbox' = DOMAIN Again(capture) /\ \A i \in DOMAIN Again(capture) : outbox'[i].call = Again(capture)[i].call
      BY <1>2 DEF Alike
    <3>2. Unnamed(capture) \in SUBSET DOMAIN outbox
      BY TickLists
    <3> DEFINE J == Unnamed(capture)
    <3>3. Again(capture) = Sublist(outbox, J)
      BY DEF Again
    <3> HIDE DEF J
    <3>4. \A i \in DOMAIN Sublist(outbox, J) : Place(J, i) \in J /\ Sublist(outbox, J)[i] = outbox[Place(J, i)]
      BY <1>3, <3>2, SublistFrom DEF J
    <3> QED
      BY <3>1, <3>2, <3>3, <3>4 DEF J
  <2>2. \A i \in DOMAIN outbox' : outbox'[i].call \in Live' => Fn \in ids'
    BY <1>11, <1>12, <2>1 DEF Course, Numberable
  <2> QED
    BY <2>2 DEF Numberable
<1>15. Parked'
  <2>1. \A i \in DOMAIN running' :
            running'[i].call \in excused' \cup ended' \cup Threads(timers') \cup Threads(due')
    BY <1>10 DEF Course, Parked
  <2> QED
    BY <2>1 DEF Parked
<1>16. due' # <<>> => phase' = "resume"
  BY <1>1
<1>17. \A c \in Call : Places(c)' <= Places(c)
  BY <1>9
<1>18. \A c \in Live : c \notin excused' => Places(c)' = Places(c) /\ up' /\ rep'.welcomed /\ Fn \in alive'
  BY <1>6, <1>9, <1>10
<1>19. rep'.next = rep.next /\ rep'.waiters = rep.waiters /\ rep'.outbox = rep.outbox
  BY <1>10
<1> QED
  BY <1>2, <1>10, <1>13, <1>14, <1>15, <1>16, <1>17, <1>18, <1>19, CourseFrom
LEMMA CourseStep ==
    ASSUME Base, There, Course, [Next]_vars PROVE Course'
<1>0. Types /\ TimersFit
  BY DEF Base
<1>1. CASE Dial
  BY <1>0, <1>1, DialTypes, CourseDial
<1>2. CASE Break
  BY <1>0, <1>2, BreakTypes, CourseBreak
<1>3. CASE Receives
  <2>1. PICK k \in 1..Len(toAuth) : AuthorityReceive(k)
    BY <1>3 DEF Receives
  <2> QED
    BY <1>0, <2>1, CourseReceives
<1>4. CASE TickStarts
  BY <1>0, <1>4, CourseTickStarts
<1>5. CASE Handles
  <2>1. PICK wait \in Waits : Handle(wait)
    BY <1>5 DEF Handles
  <2> QED
    BY <1>0, <2>1, CourseHandle
<1>6. CASE TimersDue
  BY <1>0, <1>6, CourseTimersDue
<1>7. CASE ResumeTimer
  BY <1>0, <1>7, CourseResumeTimer
<1>8. CASE Script
  <2>1. CASE \E e \in Event : FireClient(e)
    BY <1>0, <2>1, CourseFireClient
  <2>2. CASE \E wait \in Waits : Delay(wait)
    BY <1>0, <2>2, CourseDelay
  <2>3. CASE \E thread \in Thread : Cancel(thread)
    BY <1>0, <2>3, CourseCancel
  <2>4. CASE (\E r \in Remote : Create(r) \/ Destroy(r) \/ Move(r)) \/ SetHandler \/ SetEnabled
    BY <1>0, <2>4, CourseWorldChange
  <2> QED
    BY <1>8, <2>1, <2>2, <2>3, <2>4 DEF Script
<1>9. CASE Ends
  <2>1. PICK capture \in BOOLEAN : TickEnds(capture)
    BY <1>9 DEF Ends
  <2> QED
    BY <1>0, <2>1, CourseTickEnds
<1>10. CASE ReplicaReceive
  BY <1>0, <1>10, CourseReplicaReceive
<1>11. CASE ReplicaTick(TRUE) \/ ReplicaTick(FALSE)
  <2>1. PICK asks \in BOOLEAN : ReplicaTick(asks)
    BY <1>11
  <2> QED
    BY <1>0, <2>1, CourseReplicaTick
<1>12. CASE UNCHANGED vars
  <2>1. /\ UNCHANGED <<inbox, running, outbox, ids, toRep, toAuth, rep>> /\ peer' = peer /\ excused' = excused
        /\ up' = up /\ alive' = alive /\ ended' = ended /\ timers' = timers /\ due' = due /\ phase' = phase
    BY <1>12 DEF vars, scripts, tick, network
  <2>2. Types'
    BY <1>0, <1>12 DEF vars, scripts, tick, network, Types, WorldTypes, WireTypes
  <2>3. Parked'
    <3>1. \A i \in DOMAIN running' :
              running'[i].call \in excused' \cup ended' \cup Threads(timers') \cup Threads(due')
      BY <2>1 DEF Course, Parked
    <3> QED
      BY <3>1 DEF Parked
  <2>4. \A c \in Live : up' /\ Fn \in alive'
    BY <2>1 DEF Course
  <2>5. due' # <<>> => phase' = "resume"
    BY <2>1 DEF Course
  <2> QED
    BY <1>0, <2>1, <2>2, <2>3, <2>4, <2>5, CourseSame
<1> QED
  BY <1>1, <1>2, <1>3, <1>4, <1>5, <1>6, <1>7, <1>8, <1>9, <1>10, <1>11, <1>12 DEF Next

\* Nothing is dropped in silence: a question nothing has happened to stands in one
\* place only on its way to the handler and back, from the replica's outbox to its
\* inbox (remote.cpp and session.cpp, both ways), and a handler that has parked has
\* a timer, is about to be resumed, or has finished.
THEOREM NothingIsDroppedHolds == Spec => []NothingIsDropped
<1>1. Init => Base /\ There /\ Course
  BY BaseInit, ThereInit, CourseInit
<1>2. Base /\ There /\ Course /\ [Next]_vars => Base' /\ There' /\ Course'
  BY BaseStep, ThereStep, CourseStep DEF Base
<1>3. Base /\ There /\ Course => NothingIsDropped
  <2> SUFFICES ASSUME Base, There, Course PROVE NothingIsDropped
    OBVIOUS
  <2>1. TypeOK
    <3>1. WorldTypes /\ WireTypes /\ NotBefore(timers, Soonest)
      BY TypesGive DEF Base, TimersFit
    <3>2. peer.known \in SUBSET Remote
      BY PeerIs DEF Base, Types, WireTypes
    <3>3. rep.waiters \in SUBSET (1..(rep.next - 1))
      <4>1. rep.next \in Nat \ {0} /\ rep.waiters \in SUBSET Call /\ \A c \in rep.waiters : c < rep.next
        BY <3>1, RepIs DEF WireTypes
      <4>2. \A c \in Call : c \in Nat /\ c # 0
        BY CallsAre
      <4> QED
        BY <4>1, <4>2
    <3> QED
      BY <3>1, <3>2, <3>3 DEF TypeOK, WorldTypes, NotBefore
  <2>2. NamedIsThere
    BY DEF There
  <2>3. NothingIsLost
    BY DEF Course, Live, Parked, NothingIsLost
  <2> QED
    BY <2>1, <2>2, <2>3 DEF NothingIsDropped
<1> QED
  BY <1>1, <1>2, <1>3, PTL DEF Spec
=============================================================================
