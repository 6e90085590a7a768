---------------------------- MODULE JobPoolProofs ----------------------------
(* Theorems about the job system, for every pool, every program and every graph: *)
(* the pool's slots and handles; its stacks, queues and sleepers; and the        *)
(* partition a parallelFor makes of a span.                                       *)
EXTENDS JobPool, ParallelFor, FiniteSetTheorems, TLAPS

\* complete looks a job's slot up in its handle: it has one.
CompleteHasSlot == \A j \in Jobs : ph[j] = "complete" => handle[j].slot \in Slots

TypeInv == TypeOK /\ CompleteHasSlot

USE DEF Threads, Bodies, Actors

LEMMA MainIsApart == /\ Main \notin Jobs /\ Main \notin Workers
                     /\ Jobs \cap Workers = {} /\ None \notin Actors
                     /\ None \notin Slots
BY PoolAssumption

LEMMA GotoType ==
    ASSUME TypeOK, NEW a \in Actors, NEW p \in Phases, Goto(a, p)
    PROVE  ph' \in [Actors -> Phases] /\ \A b \in Actors : b # a => ph'[b] = ph[b]
BY DEF TypeOK, Goto

LEMMA AdvanceType ==
    ASSUME TypeOK, NEW a \in Actors, pc' = [pc EXCEPT ![a] = @ + 1]
    PROVE  pc' \in [Actors -> Nat \ {0}]
BY DEF TypeOK

LEMMA NotifyAllType ==
    ASSUME TypeOK, NEW a \in Actors, NEW p \in Phases, NotifyAll(a, p)
    PROVE  /\ ph' \in [Actors -> Phases]
           /\ \A b \in Actors : b # a /\ ph'[b] = "complete" => ph[b] = "complete"
<1>1. "park" \in Phases /\ "park" # "complete"
  BY DEF Phases
<1> QED
  BY <1>1 DEF TypeOK, NotifyAll

\* A job that is called is on a thread's stack, whoever calls it.
LEMMA CallTypes ==
    ASSUME TypeOK, NEW a \in Actors, NEW j \in Jobs \cup {None},
           NEW p \in Phases, Call(a, j, p)
    PROVE  /\ callee' \in [Actors -> Jobs \cup {None}]
           /\ ph' \in [Actors -> Phases]
           /\ on' \in [Actors -> Threads \cup {None}]
           /\ runs' \in [Jobs -> Nat]
           /\ \A b \in Jobs : ph'[b] = "complete" => ph[b] = "complete" \/ p = "complete"
<1>1. callee' \in [Actors -> Jobs \cup {None}]
  BY DEF TypeOK, Call
<1>2. "run" \in Phases /\ "run" # "complete"
  BY DEF Phases
<1>3. ph' \in [Actors -> Phases]
  BY <1>2 DEF TypeOK, Call
<1>4. on' \in [Actors -> Threads \cup {None}]
  BY DEF TypeOK, Call
<1>5. runs' \in [Jobs -> Nat]
  <2>1. CASE j \in Jobs
    BY <2>1 DEF TypeOK, Call
  <2>2. CASE j = None
    BY <2>2, MainIsApart DEF TypeOK, Call
  <2> QED
    BY <2>1, <2>2
<1>6. \A b \in Jobs : ph'[b] = "complete" => ph[b] = "complete" \/ p = "complete"
  BY <1>2 DEF TypeOK, Call
<1> QED
  BY <1>1, <1>3, <1>4, <1>5, <1>6

LEMMA ResumeType == \A a : Resume(a) \in Phases /\ Resume(a) # "complete"
BY DEF Resume, Phases

LEMMA TypeInit == Init => TypeInv
<1> SUFFICES ASSUME Init PROVE TypeInv
  OBVIOUS
<1>1. running \in BOOLEAN
  BY Zenon DEF Init
<1>9. graphLock \in Actors \cup {None} /\ readyCount \in Int
  BY DEF Init
<1>6. freeSlots \in SUBSET Slots /\ gen \in [Slots -> Nat]
  BY DEF Init
<1>7. occupant \in [Slots -> Jobs \cup {None}] /\ remaining \in [Slots -> Nat]
  BY DEF Init
<1>8. dependents \in [Slots -> SUBSET Slots]
  BY DEF Init
<1>2. queue \in [Workers -> Seq(Slots)]
  BY DEF Init
<1>3. ph \in [Actors -> Phases] /\ \A a \in Actors : ph[a] # "complete"
  BY DEF Init, Phases
<1>4. /\ pc \in [Actors -> Nat \ {0}] /\ callee \in [Actors -> Jobs \cup {None}]
      /\ on \in [Actors -> Threads \cup {None}]
      /\ victims \in [Actors -> SUBSET Workers] /\ todo \in [Actors -> SUBSET Slots]
  BY DEF Init
<1>5. /\ handle \in [Jobs -> [slot : Slots \cup {None}, gen : Nat]]
      /\ runs \in [Jobs -> Nat] /\ done \in SUBSET Jobs
  BY DEF Init, NoHandle
<1> QED
  BY <1>1, <1>2, <1>3, <1>4, <1>5, <1>6, <1>7, <1>8, <1>9 DEF TypeInv, TypeOK, CompleteHasSlot

LEMMA TypeSchedule ==
    ASSUME TypeInv, NEW a \in Actors, Schedule(a) PROVE TypeInv'
BY MainIsApart DEF Schedule, Goto, TypeInv, TypeOK, CompleteHasSlot, Phases,
       graphVars, queueVars, histVars

LEMMA TypeAllocate ==
    ASSUME TypeInv, NEW a \in Bodies, Allocate(a) PROVE TypeInv'
<1>1. PICK s \in freeSlots :
         LET j == Target(a)  live == LiveDeps(j) IN
         /\ freeSlots' = freeSlots \ {s}
         /\ occupant' = [occupant EXCEPT ![s] = j]
         /\ remaining' = [remaining EXCEPT ![s] = Cardinality(live)]
         /\ dependents' = [t \in Slots |->
                IF t = s THEN {}
                ELSE IF \E d \in live : handle[d].slot = t
                     THEN dependents[t] \cup {s} ELSE dependents[t]]
         /\ handle' = [handle EXCEPT ![j] = [slot |-> s, gen |-> gen[s]]]
         /\ IF live = {}
            THEN Goto(a, "push") /\ todo' = [todo EXCEPT ![a] = {s}] /\ UNCHANGED pc
            ELSE Goto(a, "run") /\ pc' = [pc EXCEPT ![a] = @ + 1] /\ UNCHANGED todo
  BY DEF Allocate
<1>2. Target(a) \in Jobs
  BY PoolAssumption DEF Allocate, AtOp, Target
<1>3. Cardinality(LiveDeps(Target(a))) \in Nat
  <2>1. LiveDeps(Target(a)) \subseteq Jobs
    BY <1>2, PoolAssumption DEF LiveDeps
  <2> QED
    BY <2>1, PoolAssumption, FS_Subset, FS_CardinalityType
<1>4. UNCHANGED <<running, graphLock, gen, queue, readyCount, callee, on, victims, runs, done>>
  BY DEF Allocate, queueVars
<1>5. s \in Slots
  BY DEF TypeInv, TypeOK
<1>6. TypeOK'
  <2>1. ph' \in [Actors -> Phases] /\ pc' \in [Actors -> Nat \ {0}]
    <3>1. {"push", "run"} \subseteq Phases
      BY DEF Phases
    <3>2. CASE LiveDeps(Target(a)) = {}
      BY <1>1, <3>1, <3>2 DEF TypeInv, TypeOK, Goto
    <3>3. CASE LiveDeps(Target(a)) # {}
      <4>1. Goto(a, "run") /\ pc' = [pc EXCEPT ![a] = @ + 1]
        BY <1>1, <3>3
      <4> QED
        BY <3>1, <4>1, GotoType, AdvanceType DEF TypeInv
    <3> QED
      BY <3>2, <3>3
  <2>2. /\ occupant' \in [Slots -> Jobs \cup {None}] /\ freeSlots' \in SUBSET Slots
        /\ remaining' \in [Slots -> Nat]
    BY <1>1, <1>2, <1>3, <1>5 DEF TypeInv, TypeOK
  <2>3. dependents' \in [Slots -> SUBSET Slots]
    BY <1>1, <1>5 DEF TypeInv, TypeOK
  <2>4. handle' \in [Jobs -> [slot : Slots \cup {None}, gen : Nat]]
    BY <1>1, <1>5 DEF TypeInv, TypeOK
  <2>5. todo' \in [Actors -> SUBSET Slots]
    BY <1>1, <1>5 DEF TypeInv, TypeOK
  <2> QED
    BY <1>4, <2>1, <2>2, <2>3, <2>4, <2>5 DEF TypeInv, TypeOK
<1>7. CompleteHasSlot'
  BY <1>1, <1>2, <1>5 DEF TypeInv, TypeOK, CompleteHasSlot, Goto
<1> QED
  BY <1>6, <1>7 DEF TypeInv

LEMMA TypeRunInline ==
    ASSUME TypeInv, NEW a \in Bodies, RunInline(a) PROVE TypeInv'
<1>1. Target(a) \in Jobs
  BY PoolAssumption DEF RunInline, AtOp, Target
<1>2. "run" \in Phases /\ "run" # "complete"
  BY DEF Phases
<1>3. Call(a, Target(a), "run") /\ pc' = [pc EXCEPT ![a] = @ + 1]
  BY DEF RunInline
<1>4. UNCHANGED <<running, graphLock, freeSlots, gen, occupant, remaining, dependents,
                  queue, readyCount, victims, todo, handle, done>>
  BY DEF RunInline, graphVars, queueVars
<1>5. pc' \in [Actors -> Nat \ {0}]
  BY <1>3, AdvanceType DEF TypeInv
<1>6. /\ callee' \in [Actors -> Jobs \cup {None}] /\ ph' \in [Actors -> Phases]
      /\ on' \in [Actors -> Threads \cup {None}] /\ runs' \in [Jobs -> Nat]
      /\ \A b \in Jobs : ph'[b] = "complete" => ph[b] = "complete"
  BY <1>1, <1>2, <1>3, CallTypes DEF TypeInv
<1> QED
  BY <1>4, <1>5, <1>6 DEF TypeInv, TypeOK, CompleteHasSlot

LEMMA TypePush ==
    ASSUME TypeInv, NEW a \in Actors, Push(a) PROVE TypeInv'
<1>1. PICK s \in todo[a], w \in Workers :
          /\ queue' = [queue EXCEPT ![w] = Append(@, s)]
          /\ todo' = [todo EXCEPT ![a] = @ \ {s}]
  BY DEF Push
<1>2. /\ Goto(a, "count")
      /\ UNCHANGED <<running, graphLock, freeSlots, gen, occupant, remaining, dependents,
                     readyCount, pc, callee, on, victims, handle, runs, done>>
  BY DEF Push, graphVars, histVars
<1>3. s \in Slots
  BY DEF TypeInv, TypeOK
<1>4. queue' \in [Workers -> Seq(Slots)]
  BY <1>1, <1>3 DEF TypeInv, TypeOK
<1>5. todo' \in [Actors -> SUBSET Slots]
  BY <1>1 DEF TypeInv, TypeOK
<1>6. "count" \in Phases /\ "count" # "complete"
  BY DEF Phases
<1>7. ph' \in [Actors -> Phases] /\ \A b \in Actors : ph'[b] = "complete" => ph[b] = "complete"
  BY <1>2, <1>6, GotoType DEF TypeInv, TypeOK, Goto
<1> QED
  BY <1>2, <1>4, <1>5, <1>7 DEF TypeInv, TypeOK, CompleteHasSlot

LEMMA TypeCount ==
    ASSUME TypeInv, NEW a \in Actors, Count(a) PROVE TypeInv'
<1>1. /\ Goto(a, "notify") /\ readyCount' = readyCount + 1
      /\ UNCHANGED <<running, graphLock, freeSlots, gen, occupant, remaining, dependents,
                     queue, pc, callee, on, victims, todo, handle, runs, done>>
  BY DEF Count, graphVars, histVars
<1>2. "notify" \in Phases /\ "notify" # "complete"
  BY DEF Phases
<1>3. ph' \in [Actors -> Phases] /\ \A b \in Actors : ph'[b] = "complete" => ph[b] = "complete"
  BY <1>1, <1>2 DEF TypeInv, TypeOK, Goto
<1> QED
  BY <1>1, <1>3 DEF TypeInv, TypeOK, CompleteHasSlot

LEMMA TypeNotify ==
    ASSUME TypeInv, NEW a \in Actors, Notify(a) PROVE TypeInv'
<1> DEFINE p == IF todo[a] # {} THEN "push" ELSE IF a \in done THEN "leave" ELSE "run"
<1>1. /\ NotifyAll(a, p)
      /\ pc' = [pc EXCEPT ![a] = IF todo[a] = {} /\ a \notin done THEN @ + 1 ELSE @]
      /\ UNCHANGED <<running, graphLock, freeSlots, gen, occupant, remaining, dependents,
                     queue, readyCount, callee, on, victims, todo, handle, runs, done>>
  BY DEF Notify, graphVars, queueVars, histVars
<1>2. p \in Phases /\ p # "complete"
  BY DEF Phases
<1>3. pc' \in [Actors -> Nat \ {0}]
  BY <1>1 DEF TypeInv, TypeOK
<1>4. ph'[a] = p
  BY <1>1 DEF NotifyAll
<1> HIDE DEF p
<1>5. ph' \in [Actors -> Phases] /\ \A b \in Actors : ph'[b] = "complete" => ph[b] = "complete"
  BY <1>1, <1>2, <1>4, NotifyAllType DEF TypeInv
<1> QED
  BY <1>1, <1>3, <1>5 DEF TypeInv, TypeOK, CompleteHasSlot

\* The actions that only move an actor on leave every other variable's type to
\* the four they may touch.
LEMMA TypeMove ==
    ASSUME TypeInv,
           running' \in BOOLEAN, graphLock' \in Actors \cup {None},
           pc' \in [Actors -> Nat \ {0}], victims' \in [Actors -> SUBSET Workers],
           ph' \in [Actors -> Phases],
           \A b \in Jobs : ph'[b] = "complete" => ph[b] = "complete",
           UNCHANGED <<graphVars, queueVars, callee, on, todo, histVars>>
    PROVE  TypeInv'
BY DEF TypeInv, TypeOK, CompleteHasSlot, graphVars, queueVars, histVars

LEMMA GotoMoves ==
    ASSUME TypeInv, NEW a \in Actors, NEW p \in Phases \ {"complete"}, Goto(a, p)
    PROVE  /\ ph' \in [Actors -> Phases]
           /\ \A b \in Jobs : ph'[b] = "complete" => ph[b] = "complete"
BY DEF TypeInv, TypeOK, Goto

\* What a take of one queued slot leaves well typed.
LEMMA TypeTake ==
    ASSUME TypeInv, NEW a \in Actors, NEW w \in Workers, NEW rest \in Seq(Slots),
           NEW s \in Slots, NEW p \in Phases \ {"complete"}, Take(a, w, rest, s, p),
           victims' \in [Actors -> SUBSET Workers],
           UNCHANGED <<running, graphLock, graphVars, pc, todo, handle, done>>
    PROVE  TypeInv'
<1>1. queue' \in [Workers -> Seq(Slots)] /\ readyCount' \in Int
  BY DEF Take, TypeInv, TypeOK
<1>2. occupant[s] \in Jobs \cup {None} /\ Call(a, occupant[s], p)
  BY DEF Take, TypeInv, TypeOK
<1>3. /\ callee' \in [Actors -> Jobs \cup {None}] /\ ph' \in [Actors -> Phases]
      /\ on' \in [Actors -> Threads \cup {None}] /\ runs' \in [Jobs -> Nat]
      /\ \A b \in Jobs : ph'[b] = "complete" => ph[b] = "complete"
  BY <1>2, CallTypes DEF TypeInv
<1> QED
  BY <1>1, <1>3 DEF TypeInv, TypeOK, CompleteHasSlot, graphVars

LEMMA TypePopLocal ==
    ASSUME TypeInv, NEW a \in Actors, PopLocal(a) PROVE TypeInv'
<1> DEFINE w == on[a]
           p == IF ph[a] = "seek" THEN Resume(a) ELSE "drain"
           q == IF ph[a] = "seek" THEN "steal" ELSE "drainSteal"
<1>1. UNCHANGED <<running, graphLock, graphVars, pc, todo, handle, done>>
  BY DEF PopLocal
<1>2. p \in Phases \ {"complete"} /\ q \in Phases \ {"complete"}
  BY ResumeType DEF Phases
<1>3. CASE w \in Workers /\ queue[w] # <<>>
  <2>1. /\ Take(a, w, SubSeq(queue[w], 1, Len(queue[w]) - 1), queue[w][Len(queue[w])], p)
        /\ UNCHANGED victims
    BY <1>3 DEF PopLocal
  <2>2. queue[w] \in Seq(Slots) /\ Len(queue[w]) \in Nat \ {0}
    BY <1>3 DEF TypeInv, TypeOK
  <2>3. /\ SubSeq(queue[w], 1, Len(queue[w]) - 1) \in Seq(Slots)
        /\ queue[w][Len(queue[w])] \in Slots
    BY <2>2
  <2>4. victims' \in [Actors -> SUBSET Workers]
    BY <2>1 DEF TypeInv, TypeOK
  <2> HIDE DEF p, q, w
  <2> QED
    BY <1>1, <1>2, <1>3, <2>1, <2>3, <2>4, TypeTake
<1>4. CASE ~(w \in Workers /\ queue[w] # <<>>)
  <2>1. /\ Goto(a, q)
        /\ victims' = [victims EXCEPT ![a] = Workers \ {w}]
        /\ UNCHANGED <<queueVars, callee, on, runs>>
    BY <1>4 DEF PopLocal
  <2>2. victims' \in [Actors -> SUBSET Workers]
    BY <2>1 DEF TypeInv, TypeOK
  <2> HIDE DEF p, q, w
  <2>3. /\ ph' \in [Actors -> Phases]
        /\ \A b \in Jobs : ph'[b] = "complete" => ph[b] = "complete"
    BY <1>2, <2>1, GotoMoves
  <2> QED
    BY <1>1, <2>1, <2>2, <2>3, TypeMove DEF TypeInv, TypeOK, histVars
<1> QED
  BY <1>3, <1>4

LEMMA TypeSteal ==
    ASSUME TypeInv, NEW a \in Actors, Steal(a) PROVE TypeInv'
<1> DEFINE p == IF ph[a] = "steal" THEN Resume(a) ELSE "drain"
<1>1. UNCHANGED <<running, graphLock, graphVars, pc, todo, handle, done>>
  BY DEF Steal
<1>2. p \in Phases \ {"complete"}
  BY ResumeType DEF Phases
<1>3. PICK v \in victims[a] :
         IF queue[v] # <<>>
         THEN /\ Take(a, v, Tail(queue[v]), Head(queue[v]), p)
              /\ victims' = [victims EXCEPT ![a] = {}]
         ELSE /\ victims' = [victims EXCEPT ![a] = @ \ {v}]
              /\ UNCHANGED <<queueVars, ph, callee, on, runs>>
  BY DEF Steal
<1>4. v \in Workers /\ queue[v] \in Seq(Slots)
  BY DEF TypeInv, TypeOK
<1>5. victims' \in [Actors -> SUBSET Workers]
  BY <1>3 DEF TypeInv, TypeOK
<1>6. CASE queue[v] # <<>>
  <2>1. Tail(queue[v]) \in Seq(Slots) /\ Head(queue[v]) \in Slots
    BY <1>4, <1>6
  <2>2. Take(a, v, Tail(queue[v]), Head(queue[v]), p)
    BY <1>3, <1>6
  <2> HIDE DEF p
  <2> QED
    BY <1>1, <1>2, <1>4, <1>5, <2>1, <2>2, TypeTake
<1>7. CASE queue[v] = <<>>
  BY <1>1, <1>3, <1>5, <1>7, TypeMove DEF TypeInv, TypeOK, histVars
<1> QED
  BY <1>6, <1>7

LEMMA TypeFindNothing ==
    ASSUME TypeInv, NEW a \in Actors, FindNothing(a) PROVE TypeInv'
<1> DEFINE p == IF ph[a] = "steal" THEN "park" ELSE IF a = Main THEN "stop" ELSE "exited"
<1>1. Goto(a, p) /\ p \in Phases \ {"complete"}
  BY DEF FindNothing, Phases
<1> HIDE DEF p
<1> QED
  BY <1>1, GotoMoves, TypeMove DEF FindNothing, TypeInv, TypeOK

-----------------------------------------------------------------------------
LEMMA TypeReturn ==
    ASSUME TypeInv, NEW j \in Jobs, Return(j) PROVE TypeInv'
<1>1. /\ done' = done \cup {j}
      /\ UNCHANGED <<running, graphLock, graphVars, queueVars, pc, victims, todo, runs>>
  BY DEF Return
<1>2. "dead" \in Phases \ {"complete"} /\ "complete" \in Phases
  BY DEF Phases
<1>3. CASE handle[j].slot = None
  <2>1. /\ Goto(j, "dead") /\ Pop(j)
        /\ handle' = [handle EXCEPT ![j] = SerialHandle]
    BY <1>3 DEF Return
  <2>2. /\ ph' \in [Actors -> Phases]
        /\ \A b \in Jobs : ph'[b] = "complete" => ph[b] = "complete" /\ b # j
    BY <1>2, <2>1, MainIsApart DEF Goto, TypeInv, TypeOK
  <2>3. /\ callee' \in [Actors -> Jobs \cup {None}]
        /\ on' \in [Actors -> Threads \cup {None}]
    BY <2>1 DEF Pop, TypeInv, TypeOK
  <2>4. handle' \in [Jobs -> [slot : Slots \cup {None}, gen : Nat]]
    BY <2>1 DEF SerialHandle, TypeInv, TypeOK
  <2> QED
    BY <1>1, <2>1, <2>2, <2>3, <2>4 DEF TypeInv, TypeOK, CompleteHasSlot, graphVars, queueVars
<1>4. CASE handle[j].slot # None
  <2>1. Goto(j, "complete") /\ UNCHANGED <<callee, on, handle>>
    BY <1>4 DEF Return
  <2>2. handle[j].slot \in Slots
    BY <1>4 DEF TypeInv, TypeOK
  <2>3. /\ ph' \in [Actors -> Phases]
        /\ \A b \in Jobs : ph'[b] = "complete" => ph[b] = "complete" \/ b = j
    BY <1>2, <2>1 DEF Goto, TypeInv, TypeOK
  <2> QED
    BY <1>1, <2>1, <2>2, <2>3 DEF TypeInv, TypeOK, CompleteHasSlot, graphVars, queueVars
<1> QED
  BY <1>3, <1>4

LEMMA TypeComplete ==
    ASSUME TypeInv, NEW j \in Jobs, Complete(j) PROVE TypeInv'
<1> DEFINE s == handle[j].slot
           p == IF Ready(s) = {} THEN "leave" ELSE "push"
<1>1. /\ remaining' = [t \in Slots |->
             IF t \in dependents[s] /\ remaining[t] > 0 THEN remaining[t] - 1
             ELSE remaining[t]]
      /\ ReleaseSlot(s) /\ todo' = [todo EXCEPT ![j] = Ready(s)] /\ Goto(j, p)
      /\ UNCHANGED <<running, graphLock, queue, readyCount, pc, callee, on, victims,
                     handle, runs, done>>
  BY DEF Complete, queueVars, histVars
<1>2. s \in Slots
  BY DEF Complete, TypeInv, CompleteHasSlot
<1>3. p \in Phases \ {"complete"}
  BY DEF Phases
<1>4. remaining' \in [Slots -> Nat]
  BY <1>1 DEF TypeInv, TypeOK
<1>5. todo' \in [Actors -> SUBSET Slots]
  BY <1>1, <1>2 DEF Ready, TypeInv, TypeOK
<1> HIDE DEF s, p
<1>6. /\ occupant' \in [Slots -> Jobs \cup {None}] /\ gen' \in [Slots -> Nat]
      /\ dependents' \in [Slots -> SUBSET Slots] /\ freeSlots' \in SUBSET Slots
  BY <1>1, <1>2 DEF ReleaseSlot, TypeInv, TypeOK
<1>7. /\ ph' \in [Actors -> Phases]
      /\ \A b \in Jobs : ph'[b] = "complete" => ph[b] = "complete"
  BY <1>1, <1>3, GotoMoves
<1> QED
  BY <1>1, <1>4, <1>5, <1>6, <1>7 DEF TypeInv, TypeOK, CompleteHasSlot

LEMMA TypeLeave ==
    ASSUME TypeInv, NEW j \in Jobs, Leave(j) PROVE TypeInv'
<1>1. /\ NotifyAll(j, "dead") /\ Pop(j)
      /\ UNCHANGED <<running, graphLock, graphVars, queueVars, pc, victims, todo, histVars>>
  BY DEF Leave
<1>2. "dead" \in Phases \ {"complete"}
  BY DEF Phases
<1>3. ph'[j] = "dead"
  BY <1>1 DEF NotifyAll
<1>4. /\ ph' \in [Actors -> Phases]
      /\ \A b \in Jobs : ph'[b] = "complete" => ph[b] = "complete"
  BY <1>1, <1>2, <1>3, NotifyAllType DEF TypeInv
<1>5. /\ callee' \in [Actors -> Jobs \cup {None}]
      /\ on' \in [Actors -> Threads \cup {None}]
  BY <1>1 DEF Pop, TypeInv, TypeOK
<1> QED
  BY <1>1, <1>4, <1>5 DEF TypeInv, TypeOK, CompleteHasSlot, graphVars, queueVars, histVars

LEMMA TypeWaitCheck ==
    ASSUME TypeInv, NEW a \in Actors, WaitCheck(a) PROVE TypeInv'
<1>1. "seek" \in Phases \ {"complete"}
  BY DEF Phases
<1>2. CASE Finished(handle[Target(a)])
  <2>1. pc' = [pc EXCEPT ![a] = @ + 1] /\ UNCHANGED ph
    BY <1>2 DEF WaitCheck
  <2> QED
    BY <2>1, AdvanceType, TypeMove DEF WaitCheck, TypeInv, TypeOK
<1>3. CASE ~Finished(handle[Target(a)])
  BY <1>1, <1>3, GotoMoves, TypeMove DEF WaitCheck, TypeInv, TypeOK
<1> QED
  BY <1>2, <1>3

LEMMA TypePark ==
    ASSUME TypeInv, NEW a \in Actors, Park(a) PROVE TypeInv'
<1>1. "sleep" \in Phases \ {"complete"}
  BY DEF Phases
<1>2. CASE WakePredicate(a)
  BY <1>2, ResumeType, GotoMoves, TypeMove DEF Park, TypeInv, TypeOK
<1>3. CASE ~WakePredicate(a)
  BY <1>1, <1>3, GotoMoves, TypeMove DEF Park, TypeInv, TypeOK
<1> QED
  BY <1>2, <1>3

LEMMA TypeSleep ==
    ASSUME TypeInv, NEW a \in Actors, Sleep(a) PROVE TypeInv'
<1>1. "asleep" \in Phases \ {"complete"}
  BY DEF Phases
<1> QED
  BY <1>1, GotoMoves, TypeMove DEF Sleep, TypeInv, TypeOK

LEMMA TypeLoadRunning ==
    ASSUME TypeInv, NEW w \in Workers, LoadRunning(w) PROVE TypeInv'
<1> DEFINE p == IF running THEN "seek" ELSE "drain"
<1>1. Goto(w, p) /\ p \in Phases \ {"complete"}
  BY DEF LoadRunning, Phases
<1> HIDE DEF p
<1> QED
  BY <1>1, GotoMoves, TypeMove DEF LoadRunning, TypeInv, TypeOK

LEMMA TypeInitPool ==
    ASSUME TypeInv, InitPool PROVE TypeInv'
<1>1. /\ pc' = [pc EXCEPT ![Main] = @ + 1]
      /\ UNCHANGED <<graphLock, remaining, dependents, queue, readyCount, callee, on,
                     victims, todo, handle, runs, done>>
  BY DEF InitPool, queueVars, histVars
<1>2. pc' \in [Actors -> Nat \ {0}]
  BY <1>1, AdvanceType DEF TypeInv
<1>3. CASE running
  BY <1>1, <1>2, <1>3 DEF InitPool, TypeInv, TypeOK, CompleteHasSlot
<1>4. CASE ~running
  <2>1. /\ running' = TRUE /\ freeSlots' = Slots
        /\ gen' = [s \in Slots |-> 1] /\ occupant' = [s \in Slots |-> None]
        /\ ph' = [a \in Actors |-> IF a \in Workers THEN "loop" ELSE ph[a]]
    BY <1>4 DEF InitPool
  <2>2. "loop" \in Phases
    BY DEF Phases
  <2>3. /\ ph' \in [Actors -> Phases]
        /\ \A b \in Jobs : ph'[b] = ph[b]
    BY <2>1, <2>2, MainIsApart DEF TypeInv, TypeOK
  <2>4. running' \in BOOLEAN
    BY <2>1, Zenon
  <2>5. freeSlots' \in SUBSET Slots /\ gen' \in [Slots -> Nat]
        /\ occupant' \in [Slots -> Jobs \cup {None}]
    BY <2>1
  <2> QED
    BY <1>1, <1>2, <2>3, <2>4, <2>5 DEF TypeInv, TypeOK, CompleteHasSlot
<1> QED
  BY <1>3, <1>4 DEF TypeInv, TypeOK

LEMMA TypeShutdown ==
    ASSUME TypeInv, Shutdown PROVE TypeInv'
<1>1. "drain" \in Phases \ {"complete"}
  BY DEF Phases
<1>2. CASE running
  BY <1>1, <1>2, GotoMoves, TypeMove DEF Shutdown, TypeInv, TypeOK
<1>3. CASE ~running
  <2>1. pc' = [pc EXCEPT ![Main] = @ + 1] /\ UNCHANGED ph
    BY <1>3 DEF Shutdown
  <2> QED
    BY <2>1, AdvanceType, TypeMove DEF Shutdown, TypeInv, TypeOK
<1> QED
  BY <1>2, <1>3

LEMMA TypeStopRunning ==
    ASSUME TypeInv, StopRunning PROVE TypeInv'
<1>1. "stopNotify" \in Phases \ {"complete"}
  BY DEF Phases
<1>2. running' \in BOOLEAN
  BY Zenon DEF StopRunning
<1> QED
  BY <1>1, <1>2, GotoMoves, TypeMove DEF StopRunning, TypeInv, TypeOK

LEMMA TypeStopNotify ==
    ASSUME TypeInv, StopNotify PROVE TypeInv'
<1>1. NotifyAll(Main, "join") /\ "join" \in Phases \ {"complete"}
  BY DEF StopNotify, Phases
<1>2. /\ ph' \in [Actors -> Phases]
      /\ \A b \in Jobs : ph'[b] = "complete" => ph[b] = "complete"
  BY <1>1, NotifyAllType, MainIsApart DEF TypeInv
<1> QED
  BY <1>2, TypeMove DEF StopNotify, TypeInv, TypeOK

LEMMA TypeJoin ==
    ASSUME TypeInv, Join PROVE TypeInv'
<1>1. /\ pc' = [pc EXCEPT ![Main] = @ + 1]
      /\ queue' = [w \in Workers |-> <<>>] /\ readyCount' = 0
      /\ ph' = [a \in Actors |-> IF a = Main THEN "run"
                                 ELSE IF a \in Workers THEN "off" ELSE ph[a]]
      /\ UNCHANGED <<running, graphLock, graphVars, callee, on, victims, todo, histVars>>
  BY DEF Join
<1>2. pc' \in [Actors -> Nat \ {0}]
  BY <1>1, AdvanceType DEF TypeInv
<1>3. queue' \in [Workers -> Seq(Slots)] /\ readyCount' \in Int
  BY <1>1
<1>4. {"run", "off"} \subseteq Phases
  BY DEF Phases
<1>5. ph' \in [Actors -> Phases] /\ \A b \in Jobs : ph'[b] = ph[b]
  BY <1>1, <1>4, MainIsApart DEF TypeInv, TypeOK
<1> QED
  BY <1>1, <1>2, <1>3, <1>5 DEF TypeInv, TypeOK, CompleteHasSlot, graphVars, histVars

LEMMA TypeStutter == ASSUME TypeInv, UNCHANGED vars PROVE TypeInv'
BY DEF vars, TypeInv, TypeOK, CompleteHasSlot, graphVars, queueVars, histVars

LEMMA TypeStep == TypeInv /\ [Next]_vars => TypeInv'
<1> SUFFICES ASSUME TypeInv, [Next]_vars PROVE TypeInv'
  OBVIOUS
<1>1. CASE \E a \in Bodies : BodyStep(a)
  BY <1>1, TypeSchedule, TypeAllocate, TypeRunInline, TypeWaitCheck DEF BodyStep
<1>2. CASE \E a \in Actors : HelpStep(a)
  BY <1>2, TypePopLocal, TypeSteal, TypeFindNothing, TypePark, TypeSleep DEF HelpStep
<1>3. CASE \E a \in Actors : EnqueueStep(a)
  BY <1>3, TypePush, TypeCount, TypeNotify DEF EnqueueStep
<1>4. CASE \E j \in Jobs : JobStep(j)
  BY <1>4, TypeReturn, TypeComplete, TypeLeave DEF JobStep
<1>5. CASE \E w \in Workers : LoadRunning(w)
  BY <1>5, TypeLoadRunning
<1>6. CASE MainStep
  BY <1>6, TypeInitPool, TypeShutdown, TypeStopRunning, TypeStopNotify, TypeJoin
     DEF MainStep
<1>7. CASE UNCHANGED vars
  BY <1>7, TypeStutter
<1> QED
  BY <1>1, <1>2, <1>3, <1>4, <1>5, <1>6, <1>7 DEF Next, Step

\* Every variable of the pool keeps its type: no slot index, queue entry or
\* handle the code could follow is ever out of the fixed pool.
THEOREM TypeCorrect == Spec => []TypeOK
<1>1. TypeInv => TypeOK
  BY DEF TypeInv
<1> QED
  BY <1>1, TypeInit, TypeStep, PTL DEF Spec

-----------------------------------------------------------------------------
(* D037, the shutdown half.  What makes NoLostShutdown inductive is that a    *)
(* worker between its predicate and its registration holds the graph lock,    *)
(* and that `running` was true when it looked.                                *)

SleeperHoldsLock  == \A a \in Actors : ph[a] = "sleep" => graphLock = a
SleeperSawRunning == \A w \in Workers : ph[w] = "sleep" => running

ShutdownInv == TypeInv /\ SleeperHoldsLock /\ SleeperSawRunning /\ NoLostShutdown

ShutdownParts == SleeperHoldsLock /\ SleeperSawRunning /\ NoLostShutdown

\* A step is quiet when nobody falls asleep or registers in it, the pool is not
\* started or stopped, and a notification that is owed stays owed.
Quiet == /\ UNCHANGED <<running, graphLock>>
         /\ \A b \in Actors : ph'[b] \in {"sleep", "asleep"} => ph'[b] = ph[b]
         /\ ph[Main] = "stopNotify" => ph'[Main] = "stopNotify"

LEMMA QuietKeeps == ASSUME ShutdownInv, Quiet PROVE ShutdownParts'
BY DEF ShutdownInv, ShutdownParts, Quiet, SleeperHoldsLock, SleeperSawRunning, NoLostShutdown

LEMMA GotoQuiet ==
    ASSUME TypeInv, NEW a \in Actors, NEW p, p \notin {"sleep", "asleep"},
           ph[a] # "stopNotify", Goto(a, p), UNCHANGED <<running, graphLock>>
    PROVE  Quiet
BY DEF Quiet, Goto, TypeInv, TypeOK

LEMMA CallQuiet ==
    ASSUME TypeInv, NEW a \in Actors, NEW j \in Jobs \cup {None}, NEW p,
           p \notin {"sleep", "asleep"}, ph[a] # "stopNotify", Call(a, j, p),
           UNCHANGED <<running, graphLock>>
    PROVE  Quiet
BY MainIsApart DEF Quiet, Call, TypeInv, TypeOK

LEMMA NotifyQuiet ==
    ASSUME TypeInv, NEW a \in Actors, NEW p, p \notin {"sleep", "asleep"},
           ph[a] # "stopNotify", NotifyAll(a, p), UNCHANGED <<running, graphLock>>
    PROVE  Quiet
BY DEF Quiet, NotifyAll, TypeInv, TypeOK

LEMMA QuietBody ==
    ASSUME TypeInv, NEW a \in Bodies, BodyStep(a) PROVE Quiet
<1>1. CASE Schedule(a)
  BY <1>1, GotoQuiet DEF Schedule
<1>2. CASE Allocate(a)
  <2>1. \E p \in {"push", "run"} : Goto(a, p)
    BY <1>2 DEF Allocate
  <2> QED
    BY <1>2, <2>1, GotoQuiet DEF Allocate
<1>3. CASE RunInline(a)
  <2>1. Target(a) \in Jobs
    BY <1>3, PoolAssumption DEF RunInline, AtOp, Target
  <2> QED
    BY <1>3, <2>1, CallQuiet DEF RunInline
<1>4. CASE WaitCheck(a)
  <2>1. CASE UNCHANGED ph
    BY <1>4, <2>1 DEF WaitCheck, Quiet
  <2>2. CASE Goto(a, "seek")
    BY <1>4, <2>2, GotoQuiet DEF WaitCheck
  <2> QED
    BY <1>4, <2>1, <2>2 DEF WaitCheck
<1> QED
  BY <1>1, <1>2, <1>3, <1>4 DEF BodyStep

LEMMA QuietHelp ==
    ASSUME TypeInv, NEW a \in Actors, PopLocal(a) \/ Steal(a) \/ FindNothing(a)
    PROVE  Quiet
<1>1. \A w \in Workers : queue[w] # <<>> =>
          /\ queue[w][Len(queue[w])] \in Slots /\ Head(queue[w]) \in Slots
  <2> TAKE w \in Workers
  <2>1. queue[w] \in Seq(Slots)
    BY DEF TypeInv, TypeOK
  <2> QED
    BY <2>1
<1>2. \A s \in Slots : occupant[s] \in Jobs \cup {None}
  BY DEF TypeInv, TypeOK
<1>3. Resume(a) \notin {"sleep", "asleep"}
  BY DEF Resume
<1>4. CASE PopLocal(a)
  <2>1. UNCHANGED <<running, graphLock>> /\ ph[a] # "stopNotify"
    BY <1>4 DEF PopLocal
  <2>2. CASE on[a] \in Workers /\ queue[on[a]] # <<>>
    <3>1. PICK p \in {Resume(a), "drain"} :
             Call(a, occupant[queue[on[a]][Len(queue[on[a]])]], p)
      BY <1>4, <2>2 DEF PopLocal, Take
    <3> QED
      BY <1>1, <1>2, <1>3, <2>1, <2>2, <3>1, CallQuiet
  <2>3. CASE ~(on[a] \in Workers /\ queue[on[a]] # <<>>)
    <3>1. \E p \in {"steal", "drainSteal"} : Goto(a, p)
      BY <1>4, <2>3 DEF PopLocal
    <3> QED
      BY <2>1, <3>1, GotoQuiet
  <2> QED
    BY <2>2, <2>3
<1>5. CASE Steal(a)
  <2>1. UNCHANGED <<running, graphLock>> /\ ph[a] # "stopNotify"
    BY <1>5 DEF Steal
  <2>2. PICK v \in victims[a], p \in {Resume(a), "drain"} :
           \/ queue[v] # <<>> /\ Call(a, occupant[Head(queue[v])], p)
           \/ UNCHANGED ph
    BY <1>5 DEF Steal, Take
  <2>3. v \in Workers
    BY DEF TypeInv, TypeOK
  <2>4. CASE UNCHANGED ph
    BY <2>1, <2>4 DEF Quiet
  <2> QED
    BY <1>1, <1>2, <1>3, <2>1, <2>2, <2>3, <2>4, CallQuiet
<1>6. CASE FindNothing(a)
  <2>1. \E p \in {"park", "stop", "exited"} : Goto(a, p)
    BY <1>6 DEF FindNothing
  <2> QED
    BY <1>6, <2>1, GotoQuiet DEF FindNothing
<1> QED
  BY <1>4, <1>5, <1>6

LEMMA QuietEnqueue ==
    ASSUME TypeInv, NEW a \in Actors, EnqueueStep(a) PROVE Quiet
<1>1. CASE Push(a)
  BY <1>1, GotoQuiet DEF Push
<1>2. CASE Count(a)
  BY <1>2, GotoQuiet DEF Count
<1>3. CASE Notify(a)
  <2>1. PICK p \in {"push", "leave", "run"} : NotifyAll(a, p)
    BY <1>3 DEF Notify
  <2> QED
    BY <1>3, <2>1, NotifyQuiet DEF Notify
<1> QED
  BY <1>1, <1>2, <1>3 DEF EnqueueStep

LEMMA QuietJob ==
    ASSUME TypeInv, NEW j \in Jobs, JobStep(j) PROVE Quiet
<1>1. CASE Return(j)
  <2>1. \E p \in {"dead", "complete"} : Goto(j, p)
    BY <1>1 DEF Return
  <2> QED
    BY <1>1, <2>1, GotoQuiet DEF Return
<1>2. CASE Complete(j)
  <2>1. \E p \in {"leave", "push"} : Goto(j, p)
    BY <1>2 DEF Complete
  <2> QED
    BY <1>2, <2>1, GotoQuiet DEF Complete
<1>3. CASE Leave(j)
  BY <1>3, NotifyQuiet DEF Leave
<1> QED
  BY <1>1, <1>2, <1>3 DEF JobStep

LEMMA QuietMain ==
    ASSUME TypeInv, Shutdown \/ Join PROVE Quiet
<1>1. CASE Shutdown
  <2>1. CASE UNCHANGED ph
    BY <1>1, <2>1 DEF Shutdown, Quiet
  <2>2. CASE Goto(Main, "drain")
    BY <1>1, <2>2, GotoQuiet DEF Shutdown
  <2> QED
    BY <1>1, <2>1, <2>2 DEF Shutdown
<1>2. CASE Join
  BY <1>2 DEF Join, Quiet, TypeInv, TypeOK
<1> QED
  BY <1>1, <1>2

-----------------------------------------------------------------------------
LEMMA ParkKeeps ==
    ASSUME ShutdownInv, NEW a \in Actors, Park(a) PROVE ShutdownParts'
<1>1. CASE WakePredicate(a)
  <2>1. Goto(a, Resume(a)) /\ Resume(a) \in {"run", "loop"}
    BY <1>1 DEF Park, Resume
  <2>2. Quiet
    BY <1>1, <2>1, GotoQuiet DEF Park, ShutdownInv
  <2> QED
    BY <2>2, QuietKeeps
<1>2. CASE ~WakePredicate(a)
  <2>1. /\ Goto(a, "sleep") /\ graphLock' = a /\ graphLock = None
        /\ UNCHANGED running /\ ph[a] = "park"
    BY <1>2 DEF Park
  <2>2. a \in Workers => running
    BY <1>2 DEF WakePredicate
  <2>3. \A b \in Actors : ph[b] # "sleep"
    BY <2>1, MainIsApart DEF ShutdownInv, SleeperHoldsLock
  <2>4. ph' = [ph EXCEPT ![a] = "sleep"] /\ ph \in [Actors -> Phases]
    BY <2>1 DEF Goto, ShutdownInv, TypeInv, TypeOK
  <2>5. SleeperHoldsLock' /\ SleeperSawRunning'
    BY <2>1, <2>2, <2>3, <2>4 DEF SleeperHoldsLock, SleeperSawRunning
  <2>6. NoLostShutdown'
    BY <2>1, <2>4 DEF NoLostShutdown, ShutdownInv
  <2> QED
    BY <2>5, <2>6 DEF ShutdownParts
<1> QED
  BY <1>1, <1>2

LEMMA SleepKeeps ==
    ASSUME ShutdownInv, NEW a \in Actors, Sleep(a) PROVE ShutdownParts'
<1>1. /\ ph[a] = "sleep" /\ graphLock' = None /\ UNCHANGED running
      /\ ph' = [ph EXCEPT ![a] = "asleep"] /\ ph \in [Actors -> Phases]
  BY DEF Sleep, Goto, ShutdownInv, TypeInv, TypeOK
<1>2. \A b \in Actors : ph[b] = "sleep" => b = a
  BY <1>1 DEF ShutdownInv, SleeperHoldsLock
<1>3. \A b \in Actors : ph'[b] # "sleep"
  BY <1>1, <1>2
<1>4. a \in Workers => running
  BY <1>1 DEF ShutdownInv, SleeperSawRunning
<1>5. NoLostShutdown'
  BY <1>1, <1>4 DEF ShutdownInv, NoLostShutdown
<1> QED
  BY <1>3, <1>5 DEF ShutdownParts, SleeperHoldsLock, SleeperSawRunning

LEMMA StopRunningKeeps ==
    ASSUME ShutdownInv, StopRunning PROVE ShutdownParts'
<1>1. /\ graphLock = None /\ UNCHANGED graphLock
      /\ ph' = [ph EXCEPT ![Main] = "stopNotify"] /\ ph \in [Actors -> Phases]
  BY DEF StopRunning, Goto, ShutdownInv, TypeInv, TypeOK
<1>2. \A b \in Actors : ph[b] # "sleep"
  BY <1>1, MainIsApart DEF ShutdownInv, SleeperHoldsLock
<1> QED
  BY <1>1, <1>2 DEF ShutdownParts, SleeperHoldsLock, SleeperSawRunning, NoLostShutdown

LEMMA StopNotifyKeeps ==
    ASSUME ShutdownInv, StopNotify PROVE ShutdownParts'
<1>1. /\ UNCHANGED <<running, graphLock>>
      /\ ph' = [b \in Actors |-> IF b = Main THEN "join"
                                 ELSE IF ph[b] = "asleep" THEN "park" ELSE ph[b]]
  BY DEF StopNotify, NotifyAll
<1>2. \A b \in Actors : /\ ph'[b] # "asleep"
                        /\ ph'[b] = "sleep" => ph[b] = "sleep"
  BY <1>1
<1> QED
  BY <1>1, <1>2 DEF ShutdownInv, ShutdownParts, SleeperHoldsLock, SleeperSawRunning,
                    NoLostShutdown

LEMMA InitPoolKeeps ==
    ASSUME ShutdownInv, InitPool PROVE ShutdownParts'
<1>1. CASE running
  BY <1>1, QuietKeeps DEF InitPool, Quiet
<1>2. CASE ~running
  <2>1. /\ running' /\ UNCHANGED graphLock
        /\ ph' = [a \in Actors |-> IF a \in Workers THEN "loop" ELSE ph[a]]
    BY <1>2 DEF InitPool
  <2> QED
    BY <2>1 DEF ShutdownInv, ShutdownParts, SleeperHoldsLock, SleeperSawRunning,
                NoLostShutdown
<1> QED
  BY <1>1, <1>2 DEF ShutdownInv, TypeInv, TypeOK

LEMMA ShutdownInit == Init => ShutdownInv
<1> SUFFICES ASSUME Init PROVE ShutdownInv
  OBVIOUS
<1>1. \A a \in Actors : ph[a] \in {"run", "off"}
  BY DEF Init
<1> QED
  BY <1>1, TypeInit DEF ShutdownInv, SleeperHoldsLock, SleeperSawRunning, NoLostShutdown

LEMMA ShutdownStep == ShutdownInv /\ [Next]_vars => ShutdownInv'
<1> SUFFICES ASSUME ShutdownInv, [Next]_vars PROVE ShutdownInv'
  OBVIOUS
<1>1. TypeInv'
  BY TypeStep DEF ShutdownInv
<1>2. CASE Quiet
  BY <1>1, <1>2, QuietKeeps DEF ShutdownInv, ShutdownParts
<1>3. CASE \E a \in Actors : Park(a) \/ Sleep(a)
  BY <1>1, <1>3, ParkKeeps, SleepKeeps DEF ShutdownInv, ShutdownParts
<1>4. CASE InitPool \/ StopRunning \/ StopNotify
  BY <1>1, <1>4, InitPoolKeeps, StopRunningKeeps, StopNotifyKeeps
     DEF ShutdownInv, ShutdownParts
<1>5. CASE \E w \in Workers : LoadRunning(w)
  <2>1. PICK w \in Workers : LoadRunning(w)
    BY <1>5
  <2>2. PICK p \in {"seek", "drain"} : Goto(w, p)
    BY <2>1 DEF LoadRunning
  <2> QED
    BY <1>2, <2>1, <2>2, GotoQuiet DEF LoadRunning, ShutdownInv
<1>6. CASE UNCHANGED vars
  BY <1>2, <1>6 DEF vars, Quiet
<1> QED
  BY <1>2, <1>3, <1>4, <1>5, <1>6, QuietBody, QuietHelp, QuietEnqueue, QuietJob, QuietMain
     DEF ShutdownInv, Next, Step, HelpStep, MainStep

\* No worker sleeps through a shutdown, on any pool and under any program: the
\* hang of D037 cannot come back while `running` is stored under the graph lock.
THEOREM ShutdownWakesWorkers == Spec => []NoLostShutdown
<1>1. ShutdownInv => NoLostShutdown
  BY DEF ShutdownInv
<1> QED
  BY <1>1, ShutdownInit, ShutdownStep, PTL DEF Spec

-----------------------------------------------------------------------------
(* The slots.  A job's place in its life is read off its phase, its handle and *)
(* its slot; SlotInv says how the three agree, at every moment.                 *)

Enqueuing(a) == ph[a] \in {"push", "count", "notify"}
Waiting(a)   == ph[a] \in {"seek", "steal", "park", "sleep", "asleep"}
Stopping     == ph[Main] \in {"drain", "drainSteal", "stop", "stopNotify", "join"}

\* The phases that each kind of actor can be in.
PhasesFit ==
    /\ \A w \in Workers : ph[w] \in {"off", "loop", "seek", "steal", "park", "sleep",
                                     "asleep", "drain", "drainSteal", "exited"}
    /\ ph[Main] \notin {"off", "loop", "complete", "leave", "exited", "dead"}
    /\ \A j \in Jobs : ph[j] \notin {"loop", "drain", "drainSteal", "stop", "stopNotify",
                                     "join", "exited"}

\* A job is done when its body has returned: it completes, or enqueues what it freed.
DoneFits ==
    \A j \in Jobs :
        /\ ph[j] \in {"complete", "leave", "dead"} => j \in done
        /\ j \in done => Enqueuing(j) \/ ph[j] \in {"complete", "leave", "dead"}
        /\ runs[j] = 0 <=> ph[j] = "off"

\* An actor inside schedule, wait or shutdown is at that operation of its body.
OnSchedule(a) == Enqueuing(a) /\ a \notin done
OpsFit ==
    /\ \A a \in Bodies : OnSchedule(a) =>
          pc[a] \in 1..Len(Body[a]) /\ Body[a][pc[a]].op = "schedule"
    /\ \A a \in Bodies : Waiting(a) =>
          /\ pc[a] \in 1..Len(Body[a]) /\ Body[a][pc[a]].op = "wait"
          /\ handle[Target(a)] # NoHandle
    /\ Stopping => pc[Main] \in 1..Len(Body[Main]) /\ Body[Main][pc[Main]].op = "shutdown"

\* What has been scheduled was scheduled by an operation some body has passed.
Behind(b) == 1..(IF OnSchedule(b) THEN pc[b] ELSE pc[b] - 1)
Submitted(j) == handle[j] # NoHandle \/ ph[j] # "off"
SubmittedOnce ==
    \A j \in Jobs : Submitted(j) =>
        \E b \in Bodies : \E i \in Behind(b) :
            i <= Len(Body[b]) /\ Body[b][i].op = "schedule" /\ Body[b][i].job = j

\* Until the first init nothing has a slot, and every body there is a caller's.
Early == \A i \in 1..(pc[Main] - 1) : i <= Len(Body[Main]) => Body[Main][i].op # "shutdown"
Serial == ~running /\ ph[Main] \notin {"stopNotify", "join"}
FirstIsClean ==
    Serial /\ Early => /\ \A j \in Jobs : handle[j].slot = None
                       /\ \A b \in Bodies : ph[b] \in {"off", "run", "dead"}

\* Where the workers and the main thread are, before init, between init and shutdown,
\* and during shutdown.
Life ==
    /\ running => \A w \in Workers : ph[w] \notin {"off", "drain", "drainSteal", "exited"}
    /\ ph[Main] \in {"stopNotify", "join"} => ~running /\ \A w \in Workers : ph[w] # "off"
    /\ ph[Main] \in {"drain", "drainSteal", "stop"} => running
    /\ Serial => \A w \in Workers : ph[w] = "off"

\* A slot answers for the job its handle names, until the generation moves on; and
\* then the job is done.
Released(j) == ph[j] \in {"leave", "dead"} \/ (Enqueuing(j) /\ j \in done)
SlotsAnswer ==
    /\ \A s \in Slots : occupant[s] # None =>
          /\ s \notin freeSlots
          /\ handle[occupant[s]].slot = s /\ handle[occupant[s]].gen = gen[s]
          /\ ~Released(occupant[s])
    /\ \A j \in Jobs : handle[j].slot # None =>
          LET s == handle[j].slot IN
          /\ handle[j].gen <= gen[s]
          /\ handle[j].gen = gen[s] => occupant[s] = j
          /\ handle[j].gen # gen[s] => j \in done
    /\ \A j \in Jobs : handle[j].slot = None => handle[j] = NoHandle \/ j \in done
    /\ \A j \in Jobs : ph[j] = "complete" => occupant[handle[j].slot] = j

\* Every slot about to be queued, or queued, holds a job that may run and has not,
\* and it is in one such place.
Ripe(s) == occupant[s] # None /\ ph[occupant[s]] = "off" /\ remaining[s] = 0
Places ==
    /\ \A a \in Actors : todo[a] # {} => Enqueuing(a)
    /\ \A a \in Actors : \A s \in todo[a] : Ripe(s)
    /\ \A w \in Workers : \A i \in DOMAIN queue[w] : Ripe(queue[w][i])
    /\ \A a, b \in Actors : a # b => todo[a] \cap todo[b] = {}
    /\ \A w, u \in Workers : \A i \in DOMAIN queue[w], k \in DOMAIN queue[u] :
          queue[w][i] = queue[u][k] => w = u /\ i = k
    /\ \A a \in Actors : \A w \in Workers : \A i \in DOMAIN queue[w] : queue[w][i] \notin todo[a]

\* A slot counts exactly the slots that will notify it, and those hold unfinished
\* jobs, because a finished one is notified by nobody.
Before(t) == {u \in Slots : t \in dependents[u]}
Waits ==
    /\ \A s \in Slots : occupant[s] = None => dependents[s] = {}
    /\ \A s \in Slots : \A t \in dependents[s] : occupant[t] # None /\ ph[occupant[t]] = "off"
    /\ \A t \in Slots : remaining[t] = Cardinality(Before(t))

\* WaitMeansDone is proved with the rest, because each needs the other.
SlotInv == /\ TypeInv /\ PhasesFit /\ DoneFits /\ OpsFit /\ SubmittedOnce /\ FirstIsClean
           /\ Life /\ SlotsAnswer /\ Places /\ Waits /\ WaitMeansDone

-----------------------------------------------------------------------------
(* The arcs: from where to where an actor can go in one step, and past which     *)
(* operation of its body.  Most of SlotInv follows from the arcs and from what a *)
(* step does to the histories, whatever the step was.                            *)

AtSchedule(a) == pc[a] \in 1..Len(Body[a]) /\ Body[a][pc[a]].op = "schedule"
AtWait(a)     == pc[a] \in 1..Len(Body[a]) /\ Body[a][pc[a]].op = "wait"
AtEnd(a)      == pc[a] \in 1..Len(Body[a]) /\ Body[a][pc[a]].op = "shutdown"

BodyArc(b) ==
    \/ /\ pc'[b] = pc[b]
       /\ \/ ph[b] = "run" /\ ph'[b] = "alloc" /\ running /\ AtSchedule(b)
             /\ \A d \in Deps[Target(b)] : handle[d] # NoHandle
          \/ ph[b] = "alloc" /\ ph'[b] = "push" /\ AtSchedule(b) /\ b \notin done
          \/ ph[b] = "push" /\ ph'[b] = "count"
          \/ ph[b] = "count" /\ ph'[b] = "notify"
          \/ ph[b] = "notify" /\ ph'[b] = "push"
          \/ ph[b] = "notify" /\ ph'[b] = "leave" /\ b \in done
          \/ ph[b] = "run" /\ ph'[b] = "seek" /\ AtWait(b) /\ handle[Target(b)] # NoHandle
             /\ ~Finished(handle[Target(b)])
          \/ ph[b] = "seek" /\ ph'[b] \in {"steal", "run"}
          \/ ph[b] = "steal" /\ ph'[b] \in {"park", "run"}
          \/ ph[b] = "park" /\ ph'[b] \in {"run", "sleep"}
          \/ ph[b] = "sleep" /\ ph'[b] = "asleep"
          \/ ph[b] = "asleep" /\ ph'[b] = "park"
    \/ /\ pc'[b] = pc[b] + 1 /\ ph'[b] = "run"
       /\ \/ ph[b] \in {"run", "alloc"} /\ AtSchedule(b)
          \/ ph[b] = "notify" /\ b \notin done
          \/ ph[b] = "run" /\ AtWait(b) /\ handle[Target(b)] # NoHandle
             /\ Finished(handle[Target(b)])

JobArc(j) ==
    /\ pc'[j] = pc[j]
    /\ \/ ph[j] = "off" /\ ph'[j] = "run"
       \/ ph[j] = "run" /\ ph'[j] \in {"complete", "dead"}
       \/ ph[j] = "complete" /\ ph'[j] \in {"leave", "push"}
       \/ ph[j] = "leave" /\ ph'[j] = "dead"

MainArc ==
    \/ /\ pc'[Main] = pc[Main]
       /\ \/ ph[Main] = "run" /\ ph'[Main] = "drain" /\ AtEnd(Main) /\ running
          \/ ph[Main] = "drain" /\ ph'[Main] = "drainSteal"
          \/ ph[Main] = "drainSteal" /\ ph'[Main] \in {"drain", "stop"}
          \/ ph[Main] = "stop" /\ ph'[Main] = "stopNotify" /\ ~running'
          \/ ph[Main] = "stopNotify" /\ ph'[Main] = "join"
    \/ /\ pc'[Main] = pc[Main] + 1 /\ ph'[Main] = "run"
       /\ \/ ph[Main] = "run" /\ pc[Main] \in 1..Len(Body[Main])
             /\ Body[Main][pc[Main]].op \in {"init", "shutdown"}
          \/ ph[Main] = "join" /\ \A w \in Workers : ph[w] = "exited" /\ ph'[w] = "off"

WorkerArc(w) ==
    /\ pc'[w] = pc[w]
    /\ \/ ph[w] = "off" /\ ph'[w] = "loop" /\ Serial /\ running'
       \/ ph[w] = "loop" /\ ph'[w] = (IF running THEN "seek" ELSE "drain")
       \/ ph[w] = "seek" /\ ph'[w] \in {"steal", "loop"}
       \/ ph[w] = "steal" /\ ph'[w] \in {"park", "loop"}
       \/ ph[w] = "park" /\ ph'[w] \in {"loop", "sleep"}
       \/ ph[w] = "sleep" /\ ph'[w] = "asleep"
       \/ ph[w] = "asleep" /\ ph'[w] = "park"
       \/ ph[w] = "drain" /\ ph'[w] = "drainSteal"
       \/ ph[w] = "drainSteal" /\ ph'[w] \in {"drain", "exited"}
       \/ ph[w] = "exited" /\ ph'[w] = "off" /\ ph[Main] = "join" /\ ph'[Main] = "run"

Still(b) == ph'[b] = ph[b] /\ pc'[b] = pc[b]
Arc(b) == /\ \/ b \in Bodies /\ BodyArc(b)
             \/ b \in Jobs /\ JobArc(b)
             \/ b = Main /\ MainArc
             \/ b \in Workers /\ WorkerArc(b)
          /\ callee[b] = None \/ ph[b] \notin {"run", "loop", "drain"}
Arcs == \A b \in Actors : Still(b) \/ Arc(b)

-----------------------------------------------------------------------------
LEMMA OneArc ==
    ASSUME NEW a \in Actors, Arc(a) \/ Still(a),
           \A b \in Actors \ {a} :
               Still(b) \/ (ph[b] = "asleep" /\ ph'[b] = "park" /\ pc'[b] = pc[b])
    PROVE  Arcs
<1> SUFFICES ASSUME NEW b \in Actors, b # a, ph[b] = "asleep", ph'[b] = "park", pc'[b] = pc[b]
             PROVE  Arc(b)
  BY DEF Arcs
<1>1. b \in Bodies => BodyArc(b)
  BY DEF BodyArc
<1>2. b \in Workers => WorkerArc(b)
  BY DEF WorkerArc
<1> QED
  BY <1>1, <1>2 DEF Arc

\* Goto moves one actor, and leaves the place of every other.
LEMMA GotoOnly ==
    ASSUME TypeInv, NEW a \in Actors, NEW p, Goto(a, p)
    PROVE  ph'[a] = p /\ \A b \in Actors \ {a} : ph'[b] = ph[b]
BY DEF Goto, TypeInv, TypeOK

LEMMA NextOnly ==
    ASSUME TypeInv, NEW a \in Actors, pc' = [pc EXCEPT ![a] = @ + 1]
    PROVE  pc'[a] = pc[a] + 1 /\ \A b \in Actors \ {a} : pc'[b] = pc[b]
BY DEF TypeInv, TypeOK

LEMMA NotifyOnly ==
    ASSUME TypeInv, NEW a \in Actors, NEW p, NotifyAll(a, p)
    PROVE  /\ ph'[a] = p
           /\ \A b \in Actors \ {a} : ph'[b] = IF ph[b] = "asleep" THEN "park" ELSE ph[b]
BY DEF NotifyAll, TypeInv, TypeOK

LEMMA CallOnly ==
    ASSUME TypeInv, NEW a \in Actors, NEW j \in Jobs, NEW p, a # j, Call(a, j, p)
    PROVE  /\ ph'[a] = p /\ ph'[j] = "run"
           /\ \A b \in Actors \ {a, j} : ph'[b] = ph[b]
           /\ callee'[a] = j /\ \A b \in Actors \ {a} : callee'[b] = callee[b]
           /\ on'[j] = on[a] /\ \A b \in Actors \ {j} : on'[b] = on[b]
           /\ runs'[j] = runs[j] + 1 /\ \A b \in Jobs \ {j} : runs'[b] = runs[b]
BY DEF Call, TypeInv, TypeOK

LEMMA CallArcs ==
    ASSUME TypeInv, NEW a \in Actors, NEW j \in Jobs, NEW p, a # j, Call(a, j, p),
           ph[j] = "off", pc'[j] = pc[j], Arc(a) \/ Still(a),
           \A b \in Actors \ {a} : pc'[b] = pc[b]
    PROVE  Arcs
<1>1. JobArc(j) /\ \A b \in Actors \ {a, j} : Still(b)
  BY CallOnly DEF JobArc, Still
<1> QED
  BY <1>1 DEF Arcs, Arc

LEMMA ArcsSchedule ==
    ASSUME SlotInv, NEW a \in Bodies, Schedule(a) PROVE Arcs
<1>1. /\ ph[a] = "run" /\ callee[a] = None /\ running /\ pc' = pc /\ Goto(a, "alloc")
  BY DEF Schedule, AtOp
<1>2. ph'[a] = "alloc" /\ \A b \in Actors \ {a} : ph'[b] = ph[b]
  BY <1>1, GotoOnly DEF SlotInv
<1>3. AtSchedule(a) /\ \A d \in Deps[Target(a)] : handle[d] # NoHandle
  BY DEF Schedule, AtOp, AtSchedule, InHand
<1>4. BodyArc(a)
  BY <1>1, <1>2, <1>3 DEF BodyArc
<1> QED
  BY <1>1, <1>2, <1>4, OneArc DEF Arc, Still

\* What Allocate does, with the slot it took.
AllocateAt(a, s) ==
    LET j == Target(a)  live == LiveDeps(j) IN
    /\ freeSlots' = freeSlots \ {s}
    /\ occupant' = [occupant EXCEPT ![s] = j]
    /\ remaining' = [remaining EXCEPT ![s] = Cardinality(live)]
    /\ dependents' = [t \in Slots |->
           IF t = s THEN {}
           ELSE IF \E d \in live : handle[d].slot = t
                THEN dependents[t] \cup {s} ELSE dependents[t]]
    /\ handle' = [handle EXCEPT ![j] = [slot |-> s, gen |-> gen[s]]]
    /\ IF live = {}
       THEN Goto(a, "push") /\ todo' = [todo EXCEPT ![a] = {s}] /\ UNCHANGED pc
       ELSE Goto(a, "run") /\ pc' = [pc EXCEPT ![a] = @ + 1] /\ UNCHANGED todo

LEMMA AllocateSlot ==
    ASSUME SlotInv, NEW a \in Bodies, Allocate(a)
    PROVE  /\ ph[a] = "alloc" /\ AtSchedule(a) /\ callee[a] = None /\ graphLock = None
           /\ Target(a) \in Jobs
           /\ \E s \in freeSlots : s \in Slots /\ AllocateAt(a, s)
           /\ UNCHANGED <<running, graphLock, gen, queueVars, callee, on, victims, runs, done>>
<1>1. Target(a) \in Jobs
  BY PoolAssumption DEF Allocate, AtOp, Target
<1>2. \A s \in freeSlots : s \in Slots
  BY DEF SlotInv, TypeInv, TypeOK
<1>3. /\ ph[a] = "alloc" /\ AtSchedule(a) /\ callee[a] = None /\ graphLock = None
      /\ UNCHANGED <<running, graphLock, gen, queueVars, callee, on, victims, runs, done>>
  BY DEF Allocate, AtOp, AtSchedule
<1>4. \E s \in freeSlots : AllocateAt(a, s)
  BY DEF Allocate, AllocateAt
<1> QED
  BY <1>1, <1>2, <1>3, <1>4

LEMMA AllocateMoves ==
    ASSUME SlotInv, NEW a \in Bodies, ph[a] = "alloc", NEW s \in Slots, AllocateAt(a, s)
    PROVE  /\ \A b \in Actors \ {a} : ph'[b] = ph[b] /\ pc'[b] = pc[b]
           /\ LiveDeps(Target(a)) = {} => ph'[a] = "push" /\ pc'[a] = pc[a]
           /\ LiveDeps(Target(a)) # {} => ph'[a] = "run" /\ pc'[a] = pc[a] + 1
<1>1. CASE LiveDeps(Target(a)) = {}
  <2>1. Goto(a, "push") /\ UNCHANGED pc
    BY <1>1 DEF AllocateAt
  <2> QED
    BY <1>1, <2>1, GotoOnly DEF SlotInv
<1>2. CASE LiveDeps(Target(a)) # {}
  <2>1. Goto(a, "run") /\ pc' = [pc EXCEPT ![a] = @ + 1]
    BY <1>2 DEF AllocateAt
  <2> QED
    BY <1>2, <2>1, GotoOnly, NextOnly DEF SlotInv
<1> QED
  BY <1>1, <1>2

LEMMA ArcsAllocate ==
    ASSUME SlotInv, NEW a \in Bodies, Allocate(a) PROVE Arcs
<1>1. PICK s \in Slots : AllocateAt(a, s)
  BY AllocateSlot
<1>2. ph[a] = "alloc" /\ AtSchedule(a) /\ callee[a] = None
  BY AllocateSlot
<1>3. a \notin done
  BY <1>2, MainIsApart DEF SlotInv, DoneFits, Enqueuing, TypeInv, TypeOK
<1>4. BodyArc(a)
  BY <1>1, <1>2, <1>3, AllocateMoves DEF BodyArc
<1> QED
  BY <1>1, <1>2, <1>4, AllocateMoves, OneArc DEF Arc, Still

\* Of what schedule is given to run, nothing has run, or been scheduled, before.
LEMMA ScheduledOnce ==
    ASSUME NEW a \in Bodies, NEW b \in Bodies,
           NEW i \in 1..Len(Body[a]), NEW k \in 1..Len(Body[b]),
           Body[a][i].op = "schedule", Body[b][k].op = "schedule",
           Body[a][i].job = Body[b][k].job
    PROVE  a = b /\ i = k
<1>1. Body[a] \in Seq(Ops) /\ Body[b] \in Seq(Ops)
  BY PoolAssumption
<1>2. Body[a][i] \in Ops /\ Body[b][k] \in Ops
  BY <1>1
<1>3. Body[b][k] = Body[a][i]
  BY <1>2 DEF Ops
<1> QED
  BY <1>3, PoolAssumption

LEMMA TargetIsFresh ==
    ASSUME SlotInv, NEW a \in Bodies, ph[a] \in {"run", "alloc"}, AtSchedule(a)
    PROVE  /\ Target(a) \in Jobs /\ a # Target(a)
           /\ handle[Target(a)] = NoHandle /\ ph[Target(a)] = "off"
<1> DEFINE j == Target(a)
<1>1. j \in Jobs
  BY PoolAssumption DEF AtSchedule, Target
<1>2. ~Submitted(j)
  <2> SUFFICES ASSUME Submitted(j) PROVE FALSE
    OBVIOUS
  <2>a. PICK b \in Bodies : \E i \in Behind(b) :
           i <= Len(Body[b]) /\ Body[b][i].op = "schedule" /\ Body[b][i].job = j
    BY <1>1 DEF SlotInv, SubmittedOnce
  <2>1. PICK i \in Behind(b) :
           i <= Len(Body[b]) /\ Body[b][i].op = "schedule" /\ Body[b][i].job = j
    BY <2>a
  <2>2. i \in 1..Len(Body[b]) /\ pc[a] \in 1..Len(Body[a])
    <3>1. pc[b] \in Nat
      BY DEF SlotInv, TypeInv, TypeOK
    <3>2. i \in Nat /\ i >= 1
      BY <3>1 DEF Behind
    <3> QED
      BY <2>1, <3>2, PoolAssumption DEF AtSchedule
  <2>3. a = b /\ i = pc[a]
    BY <2>1, <2>2, ScheduledOnce DEF AtSchedule, Target
  <2>4. ~OnSchedule(a)
    BY DEF OnSchedule, Enqueuing
  <2>5. pc[a] \in Nat
    BY DEF SlotInv, TypeInv, TypeOK
  <2> QED
    BY <2>1, <2>3, <2>4, <2>5 DEF Behind
<1>3. a # j
  BY <1>1, <1>2 DEF Submitted
<1> QED
  BY <1>1, <1>2, <1>3 DEF Submitted

LEMMA InlineSlot ==
    ASSUME SlotInv, NEW a \in Bodies, RunInline(a)
    PROVE  /\ ph[a] \in {"run", "alloc"} /\ AtSchedule(a) /\ callee[a] = None
           /\ Call(a, Target(a), "run") /\ pc' = [pc EXCEPT ![a] = @ + 1]
           /\ UNCHANGED <<running, graphLock, graphVars, queueVars, victims, todo, handle, done>>
BY DEF RunInline, AtOp, AtSchedule

LEMMA ArcsRunInline ==
    ASSUME SlotInv, NEW a \in Bodies, RunInline(a) PROVE Arcs
<1>1. /\ ph[a] \in {"run", "alloc"} /\ AtSchedule(a) /\ callee[a] = None
      /\ Call(a, Target(a), "run") /\ pc' = [pc EXCEPT ![a] = @ + 1]
  BY InlineSlot
<1>2. Target(a) \in Jobs /\ a # Target(a) /\ ph[Target(a)] = "off"
  BY <1>1, TargetIsFresh
<1>3. TypeInv
  BY DEF SlotInv
<1>4. ph'[a] = "run" /\ pc'[a] = pc[a] + 1 /\ \A b \in Actors \ {a} : pc'[b] = pc[b]
  BY <1>1, <1>2, <1>3, CallOnly, NextOnly
<1>5. Arc(a)
  BY <1>1, <1>4 DEF Arc, BodyArc
<1> HIDE DEF SlotInv
<1> QED
  BY <1>1, <1>2, <1>3, <1>4, <1>5, CallArcs

LEMMA ArcsWaitCheck ==
    ASSUME SlotInv, NEW a \in Bodies, WaitCheck(a) PROVE Arcs
<1>1. /\ ph[a] = "run" /\ AtWait(a) /\ callee[a] = None
      /\ handle[Target(a)] # NoHandle
  BY DEF WaitCheck, AtOp, AtWait, InHand
<1>2. CASE Finished(handle[Target(a)])
  <2>1. pc' = [pc EXCEPT ![a] = @ + 1] /\ ph' = ph
    BY <1>2 DEF WaitCheck
  <2>2. pc'[a] = pc[a] + 1 /\ \A b \in Actors \ {a} : pc'[b] = pc[b]
    BY <2>1, NextOnly DEF SlotInv
  <2>3. BodyArc(a)
    BY <1>1, <1>2, <2>1, <2>2 DEF BodyArc
  <2> QED
    BY <1>1, <2>1, <2>2, <2>3, OneArc DEF Arc, Still
<1>3. CASE ~Finished(handle[Target(a)])
  <2>1. Goto(a, "seek") /\ pc' = pc
    BY <1>3 DEF WaitCheck
  <2>2. ph'[a] = "seek" /\ \A b \in Actors \ {a} : ph'[b] = ph[b]
    BY <2>1, GotoOnly DEF SlotInv
  <2>3. BodyArc(a)
    BY <1>1, <1>3, <2>1, <2>2 DEF BodyArc
  <2> QED
    BY <1>1, <2>1, <2>2, <2>3, OneArc DEF Arc, Still
<1> QED
  BY <1>2, <1>3

\* Only a body enqueues, and only a worker or a body seeks.
LEMMA EnqueuersAreBodies ==
    ASSUME SlotInv, NEW a \in Actors, Enqueuing(a) PROVE a \in Bodies
BY DEF SlotInv, PhasesFit, Enqueuing

LEMMA ArcsPushCount ==
    ASSUME SlotInv, NEW a \in Actors, Push(a) \/ Count(a) PROVE Arcs
<1>1. a \in Bodies
  BY EnqueuersAreBodies DEF Push, Count, Enqueuing
<1>2. PICK p \in {"count", "notify"} : Goto(a, p) /\ pc' = pc
         /\ IF p = "count" THEN ph[a] = "push" ELSE ph[a] = "count"
  BY DEF Push, Count
<1>3. ph'[a] = p /\ \A b \in Actors \ {a} : ph'[b] = ph[b]
  BY <1>2, GotoOnly DEF SlotInv
<1>4. BodyArc(a)
  BY <1>2, <1>3 DEF BodyArc
<1> QED
  BY <1>1, <1>2, <1>3, <1>4, OneArc DEF Arc, Still

LEMMA ArcsNotify ==
    ASSUME SlotInv, NEW a \in Actors, Notify(a) PROVE Arcs
<1> DEFINE p == IF todo[a] # {} THEN "push" ELSE IF a \in done THEN "leave" ELSE "run"
<1>1. a \in Bodies /\ ph[a] = "notify"
  BY EnqueuersAreBodies DEF Notify, Enqueuing
<1>2. /\ NotifyAll(a, p)
      /\ pc' = [pc EXCEPT ![a] = IF todo[a] = {} /\ a \notin done THEN @ + 1 ELSE @]
  BY DEF Notify
<1>3. /\ ph'[a] = p
      /\ \A b \in Actors \ {a} : ph'[b] = ph[b] \/ (ph[b] = "asleep" /\ ph'[b] = "park")
  BY <1>2, NotifyOnly DEF SlotInv
<1>4. /\ pc'[a] = IF todo[a] = {} /\ a \notin done THEN pc[a] + 1 ELSE pc[a]
      /\ \A b \in Actors \ {a} : pc'[b] = pc[b]
  BY <1>2 DEF SlotInv, TypeInv, TypeOK
<1>5. BodyArc(a)
  BY <1>1, <1>3, <1>4 DEF BodyArc
<1> QED
  BY <1>1, <1>3, <1>4, <1>5, OneArc DEF Arc, Still

\* One queued slot is taken: from the near end of queue w, or (o = 1) the far one.
Rest(w, o) == IF o = 1 THEN Tail(queue[w]) ELSE SubSeq(queue[w], 1, Len(queue[w]) - 1)
Taken(w, o) == IF o = 1 THEN queue[w][1] ELSE queue[w][Len(queue[w])]

TakeOf(a, w, o) ==
    /\ ph[a] \in {"seek", "steal", "drain", "drainSteal"} /\ callee[a] = None
    /\ queue[w] # <<>>
    /\ queue' = [queue EXCEPT ![w] = Rest(w, o)]
    /\ readyCount' = readyCount - 1
    /\ Call(a, occupant[Taken(w, o)],
            IF ph[a] \in {"seek", "steal"} THEN Resume(a) ELSE "drain")
    /\ UNCHANGED <<running, graphLock, graphVars, pc, todo, handle, done>>

\* Or the queues that were looked at were empty, and the search goes on.
LookOn(a) ==
    /\ callee[a] = None
    /\ \/ ph[a] = "seek" /\ Goto(a, "steal")
       \/ ph[a] = "drain" /\ Goto(a, "drainSteal")
          /\ (on[a] \in Workers => queue[on[a]] = <<>>)
       \/ ph[a] \in {"steal", "drainSteal"} /\ UNCHANGED ph
    /\ UNCHANGED <<running, graphLock, graphVars, pc, todo, handle, done, queueVars,
                   callee, on, runs>>

LEMMA TakeCases ==
    ASSUME TypeInv, NEW a \in Actors, PopLocal(a) \/ Steal(a)
    PROVE  LookOn(a) \/ \E w \in Workers, o \in {0, 1} : TakeOf(a, w, o)
<1>1. CASE PopLocal(a)
  <2> DEFINE w == on[a]
             p == IF ph[a] = "seek" THEN Resume(a) ELSE "drain"
  <2>1. /\ ph[a] \in {"seek", "drain"} /\ callee[a] = None
        /\ UNCHANGED <<running, graphLock, graphVars, pc, todo, handle, done>>
    BY <1>1 DEF PopLocal
  <2>2. CASE w \in Workers /\ queue[w] # <<>>
    <3>1. Take(a, w, SubSeq(queue[w], 1, Len(queue[w]) - 1), queue[w][Len(queue[w])], p)
      BY <1>1, <2>2 DEF PopLocal
    <3>2. /\ Rest(w, 0) = SubSeq(queue[w], 1, Len(queue[w]) - 1)
          /\ Taken(w, 0) = queue[w][Len(queue[w])]
      BY DEF Rest, Taken
    <3>3. p = IF ph[a] \in {"seek", "steal"} THEN Resume(a) ELSE "drain"
      BY <2>1
    <3>4. TakeOf(a, w, 0)
      BY <2>1, <2>2, <3>1, <3>2, <3>3 DEF Take, TakeOf
    <3> QED
      BY <2>2, <3>4
  <2>3. CASE ~(w \in Workers /\ queue[w] # <<>>)
    <3>1. /\ Goto(a, IF ph[a] = "seek" THEN "steal" ELSE "drainSteal")
          /\ UNCHANGED <<queueVars, callee, on, runs>>
      BY <1>1, <2>3 DEF PopLocal
    <3> QED
      BY <2>1, <2>3, <3>1 DEF LookOn
  <2> QED
    BY <2>2, <2>3
<1>2. CASE Steal(a)
  <2>1. /\ ph[a] \in {"steal", "drainSteal"} /\ callee[a] = None
        /\ UNCHANGED <<running, graphLock, graphVars, pc, todo, handle, done>>
    BY <1>2 DEF Steal
  <2>2. PICK v \in victims[a] :
           IF queue[v] # <<>>
           THEN Take(a, v, Tail(queue[v]), Head(queue[v]),
                     IF ph[a] = "steal" THEN Resume(a) ELSE "drain")
           ELSE UNCHANGED <<queueVars, ph, callee, on, runs>>
    BY <1>2 DEF Steal
  <2>3. v \in Workers /\ queue[v] \in Seq(Slots)
    BY DEF TypeInv, TypeOK
  <2>4. CASE queue[v] # <<>>
    <3>1. Rest(v, 1) = Tail(queue[v]) /\ Taken(v, 1) = Head(queue[v])
      BY <2>3, <2>4 DEF Rest, Taken
    <3>2. TakeOf(a, v, 1)
      BY <2>1, <2>2, <2>4, <3>1 DEF Take, TakeOf
    <3> QED
      BY <2>3, <3>2
  <2>5. CASE queue[v] = <<>>
    BY <2>1, <2>2, <2>5 DEF LookOn
  <2> QED
    BY <2>4, <2>5
<1> QED
  BY <1>1, <1>2

\* Where the slots of the shortened queue were, and where the taken one was.
LEMMA TakenPlaces ==
    ASSUME TypeInv, NEW w \in Workers, NEW o \in {0, 1}, queue[w] # <<>>
    PROVE  /\ Rest(w, o) \in Seq(Slots) /\ Len(Rest(w, o)) = Len(queue[w]) - 1
           /\ \A i \in 1..Len(Rest(w, o)) :
                 Rest(w, o)[i] = queue[w][i + o] /\ i + o \in 1..Len(queue[w])
           /\ \E k \in 1..Len(queue[w]) : /\ Taken(w, o) = queue[w][k]
                                          /\ \A i \in 1..Len(Rest(w, o)) : i + o # k
           /\ Taken(w, o) \in Slots
<1>1. queue[w] \in Seq(Slots) /\ Len(queue[w]) \in Nat \ {0}
  BY DEF TypeInv, TypeOK
<1>2. CASE o = 1
  <2>1. Rest(w, o) = Tail(queue[w]) /\ Taken(w, o) = queue[w][1]
    BY <1>2 DEF Rest, Taken
  <2>2. 1 \in 1..Len(queue[w])
    BY <1>1
  <2>3. \A i \in 1..Len(Tail(queue[w])) : i + 1 # 1 /\ Tail(queue[w])[i] = queue[w][i + 1]
    BY <1>1
  <2> QED
    <3>1. Rest(w, o) \in Seq(Slots) /\ Len(Rest(w, o)) = Len(queue[w]) - 1
      BY <1>1, <2>1
    <3>2. \A i \in 1..Len(Rest(w, o)) : i + o \in 1..Len(queue[w])
      BY <1>1, <1>2, <3>1
    <3>3. Taken(w, o) \in Slots
      BY <1>1, <2>1
    <3> QED
      BY <1>2, <2>1, <2>2, <2>3, <3>1, <3>2, <3>3
<1>3. CASE o = 0
  <2>1. /\ Rest(w, o) = SubSeq(queue[w], 1, Len(queue[w]) - 1)
        /\ Taken(w, o) = queue[w][Len(queue[w])]
    BY <1>3 DEF Rest, Taken
  <2>2. Len(queue[w]) \in 1..Len(queue[w])
    BY <1>1
  <2>3. /\ SubSeq(queue[w], 1, Len(queue[w]) - 1) \in Seq(Slots)
        /\ Len(SubSeq(queue[w], 1, Len(queue[w]) - 1)) = Len(queue[w]) - 1
        /\ \A i \in 1..(Len(queue[w]) - 1) :
              SubSeq(queue[w], 1, Len(queue[w]) - 1)[i] = queue[w][i]
    BY <1>1
  <2> QED
    <3>1. Rest(w, o) \in Seq(Slots) /\ Len(Rest(w, o)) = Len(queue[w]) - 1
      BY <2>1, <2>3
    <3>2. \A i \in 1..Len(Rest(w, o)) : i + o \in 1..Len(queue[w])
      BY <1>1, <1>3, <3>1
    <3>3. Taken(w, o) \in Slots
      BY <1>1, <2>1
    <3> QED
      BY <1>1, <1>3, <2>1, <2>2, <2>3, <3>1, <3>2, <3>3
<1> QED
  BY <1>2, <1>3

LEMMA TakeJob ==
    ASSUME SlotInv, NEW a \in Actors, NEW w \in Workers, NEW o \in {0, 1}, TakeOf(a, w, o)
    PROVE  LET s == Taken(w, o) IN
           /\ s \in Slots /\ Ripe(s) /\ occupant[s] \in Jobs /\ occupant[s] # a
           /\ Call(a, occupant[s], IF ph[a] \in {"seek", "steal"} THEN Resume(a) ELSE "drain")
<1> DEFINE s == Taken(w, o)
<1>1. s \in Slots /\ \E k \in 1..Len(queue[w]) : s = queue[w][k]
  BY TakenPlaces DEF TakeOf, SlotInv
<1>2. Ripe(s)
  <2>1. queue[w] \in Seq(Slots)
    BY DEF SlotInv, TypeInv, TypeOK
  <2> QED
    BY <1>1, <2>1 DEF SlotInv, Places
<1>3. occupant[s] \in Jobs /\ ph[occupant[s]] = "off"
  BY <1>1, <1>2 DEF Ripe, SlotInv, TypeInv, TypeOK
<1> QED
  BY <1>1, <1>2, <1>3 DEF TakeOf

LEMMA ArcsTake ==
    ASSUME SlotInv, NEW a \in Actors, NEW w \in Workers, NEW o \in {0, 1}, TakeOf(a, w, o)
    PROVE  Arcs
<1> DEFINE j == occupant[Taken(w, o)]
           p == IF ph[a] \in {"seek", "steal"} THEN Resume(a) ELSE "drain"
<1>1. j \in Jobs /\ j # a /\ ph[j] = "off" /\ Call(a, j, p) /\ TypeInv
  BY TakeJob DEF Ripe, SlotInv
<1>2. /\ ph[a] \in {"seek", "steal", "drain", "drainSteal"} /\ callee[a] = None /\ pc' = pc
  BY DEF TakeOf
<1>3. ph'[a] = p
  BY <1>1, CallOnly
<1>4. Arc(a) \/ Still(a)
  <2>1. CASE a \in Workers
    <3>1. WorkerArc(a) \/ Still(a)
      BY <1>2, <1>3, <2>1 DEF WorkerArc, Resume, Still
    <3> QED
      BY <1>2, <2>1, <3>1 DEF Arc
  <2>2. CASE a \in Jobs
    <3>1. a \notin Workers /\ ph[a] \in {"seek", "steal"}
      BY <1>2, <2>2, MainIsApart DEF SlotInv, PhasesFit
    <3>2. BodyArc(a)
      BY <1>2, <1>3, <3>1 DEF BodyArc, Resume
    <3> QED
      BY <1>2, <2>2, <3>2 DEF Arc
  <2>3. CASE a = Main
    <3>1. a \notin Workers
      BY <2>3, MainIsApart
    <3>2. BodyArc(a) \/ MainArc \/ Still(a)
      BY <1>2, <1>3, <2>3, <3>1 DEF BodyArc, MainArc, Resume, Still
    <3> QED
      BY <1>2, <2>3, <3>2 DEF Arc
  <2> QED
    BY <2>1, <2>2, <2>3
<1> HIDE DEF j, p
<1> QED
  BY <1>1, <1>2, <1>4, CallArcs

LEMMA ArcsLookOn ==
    ASSUME SlotInv, NEW a \in Actors, LookOn(a) PROVE Arcs
<1>1. PICK p : /\ pc' = pc /\ callee[a] = None
               /\ ph'[a] = p /\ \A b \in Actors \ {a} : ph'[b] = ph[b]
               /\ \/ ph[a] = "seek" /\ p = "steal"
                  \/ ph[a] = "drain" /\ p = "drainSteal"
                  \/ p = ph[a]
  <2>1. CASE UNCHANGED ph
    BY <2>1 DEF LookOn
  <2>2. CASE ~UNCHANGED ph
    BY <2>2, GotoOnly DEF LookOn, SlotInv
  <2> QED
    BY <2>1, <2>2
<1>2. Arc(a) \/ Still(a)
  <2>1. CASE a \in Workers
    BY <1>1, <2>1 DEF Arc, WorkerArc, Still
  <2>2. CASE a \in Jobs
    <3>1. ph[a] # "drain"
      BY <2>2 DEF SlotInv, PhasesFit
    <3> QED
      BY <1>1, <2>2, <3>1 DEF Arc, BodyArc, Still
  <2>3. CASE a = Main
    BY <1>1, <2>3 DEF Arc, BodyArc, MainArc, Still
  <2> QED
    BY <2>1, <2>2, <2>3
<1> QED
  BY <1>1, <1>2, OneArc DEF Still

LEMMA ArcsFindNothing ==
    ASSUME SlotInv, NEW a \in Actors, FindNothing(a) PROVE Arcs
<1> DEFINE p == IF ph[a] = "steal" THEN "park" ELSE IF a = Main THEN "stop" ELSE "exited"
<1>1. /\ ph[a] \in {"steal", "drainSteal"} /\ callee[a] = None /\ pc' = pc /\ Goto(a, p)
  BY DEF FindNothing
<1>2. ph'[a] = p /\ \A b \in Actors \ {a} : ph'[b] = ph[b]
  BY <1>1, GotoOnly DEF SlotInv
<1>3. Arc(a)
  <2>1. CASE a \in Workers
    BY <1>1, <1>2, <2>1, MainIsApart DEF Arc, WorkerArc
  <2>2. CASE a \in Jobs
    <3>1. ph[a] # "drainSteal"
      BY <2>2 DEF SlotInv, PhasesFit
    <3> QED
      BY <1>1, <1>2, <2>2, <3>1 DEF Arc, BodyArc
  <2>3. CASE a = Main
    BY <1>1, <1>2, <2>3 DEF Arc, BodyArc, MainArc
  <2> QED
    BY <2>1, <2>2, <2>3
<1> QED
  BY <1>1, <1>2, <1>3, OneArc DEF Still

LEMMA ArcsParkSleep ==
    ASSUME SlotInv, NEW a \in Actors, Park(a) \/ Sleep(a) PROVE Arcs
<1>1. PICK p : /\ pc' = pc /\ Goto(a, p)
               /\ \/ ph[a] = "park" /\ p \in {Resume(a), "sleep"}
                  \/ ph[a] = "sleep" /\ p = "asleep"
  BY DEF Park, Sleep
<1>2. ph'[a] = p /\ \A b \in Actors \ {a} : ph'[b] = ph[b]
  BY <1>1, GotoOnly DEF SlotInv
<1>3. Arc(a)
  <2>1. CASE a \in Workers
    BY <1>1, <1>2, <2>1 DEF Arc, WorkerArc, Resume
  <2>2. CASE a \in Bodies
    BY <1>1, <1>2, <2>2, MainIsApart DEF Arc, BodyArc, Resume
  <2> QED
    BY <2>1, <2>2
<1> QED
  BY <1>1, <1>2, <1>3, OneArc DEF Still

LEMMA ArcsReturn ==
    ASSUME SlotInv, NEW j \in Jobs, Return(j) PROVE Arcs
<1>1. PICK p \in {"complete", "dead"} : Goto(j, p)
  BY DEF Return
<1>2. ph[j] = "run" /\ callee[j] = None /\ pc' = pc
  BY DEF Return
<1>3. ph'[j] = p /\ \A b \in Actors \ {j} : ph'[b] = ph[b]
  BY <1>1, GotoOnly DEF SlotInv
<1>4. JobArc(j)
  BY <1>2, <1>3 DEF JobArc
<1> QED
  BY <1>2, <1>3, <1>4, OneArc DEF Arc, Still

LEMMA ArcsComplete ==
    ASSUME SlotInv, NEW j \in Jobs, Complete(j) PROVE Arcs
<1>1. PICK p \in {"leave", "push"} : Goto(j, p)
  BY DEF Complete
<1>2. ph[j] = "complete" /\ pc' = pc
  BY DEF Complete
<1>3. ph'[j] = p /\ \A b \in Actors \ {j} : ph'[b] = ph[b]
  BY <1>1, GotoOnly DEF SlotInv
<1>4. JobArc(j)
  BY <1>2, <1>3 DEF JobArc
<1> QED
  BY <1>2, <1>3, <1>4, OneArc DEF Arc, Still

LEMMA ArcsLeave ==
    ASSUME SlotInv, NEW j \in Jobs, Leave(j) PROVE Arcs
<1>1. ph[j] = "leave" /\ NotifyAll(j, "dead") /\ pc' = pc
  BY DEF Leave
<1>2. /\ ph'[j] = "dead"
      /\ \A b \in Actors \ {j} : ph'[b] = ph[b] \/ (ph[b] = "asleep" /\ ph'[b] = "park")
  BY <1>1, NotifyOnly DEF SlotInv
<1>3. JobArc(j)
  BY <1>1, <1>2 DEF JobArc
<1> QED
  BY <1>1, <1>2, <1>3, OneArc DEF Arc, Still

LEMMA ArcsLoadRunning ==
    ASSUME SlotInv, NEW w \in Workers, LoadRunning(w) PROVE Arcs
<1> DEFINE p == IF running THEN "seek" ELSE "drain"
<1>1. ph[w] = "loop" /\ callee[w] = None /\ pc' = pc /\ Goto(w, p)
  BY DEF LoadRunning
<1>2. ph'[w] = p /\ \A b \in Actors \ {w} : ph'[b] = ph[b]
  BY <1>1, GotoOnly DEF SlotInv
<1>3. WorkerArc(w)
  BY <1>1, <1>2 DEF WorkerArc
<1> QED
  BY <1>1, <1>2, <1>3, OneArc DEF Arc, Still

-----------------------------------------------------------------------------
LEMMA ArcsInitPool ==
    ASSUME SlotInv, InitPool PROVE Arcs
<1>1. ph[Main] = "run" /\ AtOp(Main, "init") /\ pc' = [pc EXCEPT ![Main] = @ + 1]
  BY DEF InitPool
<1>2. pc'[Main] = pc[Main] + 1 /\ \A b \in Actors \ {Main} : pc'[b] = pc[b]
  BY <1>1, NextOnly DEF SlotInv
<1>3. CASE running
  <2>1. ph' = ph
    BY <1>3 DEF InitPool
  <2>2. MainArc
    BY <1>1, <1>2, <2>1 DEF MainArc, AtOp
  <2> QED
    BY <1>1, <1>2, <2>1, <2>2, OneArc DEF Arc, Still, AtOp
<1>4. CASE ~running
  <2>1. /\ running' = TRUE
        /\ ph' = [a \in Actors |-> IF a \in Workers THEN "loop" ELSE ph[a]]
    BY <1>4 DEF InitPool
  <2>2. Serial /\ \A w \in Workers : ph[w] = "off"
    BY <1>1, <1>4 DEF SlotInv, Life, Serial
  <2>3. \A w \in Workers : WorkerArc(w) /\ Arc(w)
    <3> TAKE w \in Workers
    <3>1. ph[w] = "off" /\ ph'[w] = "loop" /\ pc'[w] = pc[w]
      BY <1>2, <2>1, <2>2, MainIsApart
    <3>2. running'
      BY <2>1
    <3>3. WorkerArc(w)
      BY <2>2, <3>1, <3>2 DEF WorkerArc
    <3> QED
      BY <3>1, <3>3 DEF Arc
  <2>4. \A j \in Jobs : Still(j)
    BY <1>2, <2>1, MainIsApart DEF Still
  <2>5. ph'[Main] = ph[Main]
    BY <2>1, MainIsApart
  <2>6. MainArc
    BY <1>1, <1>2, <2>5 DEF MainArc, AtOp
  <2> QED
    BY <1>1, <2>3, <2>4, <2>6 DEF Arcs, Arc, AtOp
<1> QED
  BY <1>3, <1>4

LEMMA ArcsShutdown ==
    ASSUME SlotInv, Shutdown PROVE Arcs
<1>1. ph[Main] = "run" /\ AtEnd(Main) /\ callee[Main] = None
  BY DEF Shutdown, AtOp, AtEnd
<1>2. CASE running
  <2>1. Goto(Main, "drain") /\ pc' = pc
    BY <1>2 DEF Shutdown
  <2>2. ph'[Main] = "drain" /\ \A b \in Actors \ {Main} : ph'[b] = ph[b]
    BY <2>1, GotoOnly DEF SlotInv
  <2>3. MainArc
    BY <1>1, <1>2, <2>1, <2>2 DEF MainArc
  <2> QED
    BY <1>1, <2>1, <2>2, <2>3, OneArc DEF Arc, Still
<1>3. CASE ~running
  <2>1. pc' = [pc EXCEPT ![Main] = @ + 1] /\ ph' = ph
    BY <1>3 DEF Shutdown
  <2>2. pc'[Main] = pc[Main] + 1 /\ \A b \in Actors \ {Main} : pc'[b] = pc[b]
    BY <2>1, NextOnly DEF SlotInv
  <2>3. MainArc
    BY <1>1, <2>1, <2>2 DEF MainArc, AtEnd
  <2> QED
    BY <1>1, <2>1, <2>2, <2>3, OneArc DEF Arc, Still
<1> QED
  BY <1>2, <1>3

LEMMA ArcsStopRunning ==
    ASSUME SlotInv, StopRunning PROVE Arcs
<1>1. ph[Main] = "stop" /\ Goto(Main, "stopNotify") /\ pc' = pc /\ running' = FALSE
  BY DEF StopRunning
<1>2. ph'[Main] = "stopNotify" /\ \A b \in Actors \ {Main} : ph'[b] = ph[b]
  BY <1>1, GotoOnly DEF SlotInv
<1>3. MainArc
  BY <1>1, <1>2 DEF MainArc
<1> QED
  BY <1>1, <1>2, <1>3, OneArc DEF Arc, Still

LEMMA ArcsStopNotify ==
    ASSUME SlotInv, StopNotify PROVE Arcs
<1>1. ph[Main] = "stopNotify" /\ NotifyAll(Main, "join") /\ pc' = pc
  BY DEF StopNotify
<1>2. /\ ph'[Main] = "join"
      /\ \A b \in Actors \ {Main} : ph'[b] = ph[b] \/ (ph[b] = "asleep" /\ ph'[b] = "park")
  BY <1>1, NotifyOnly DEF SlotInv
<1>3. MainArc
  BY <1>1, <1>2 DEF MainArc
<1> QED
  BY <1>1, <1>2, <1>3, OneArc DEF Arc, Still

LEMMA ArcsJoin ==
    ASSUME SlotInv, Join PROVE Arcs
<1>1. /\ ph[Main] = "join" /\ \A w \in Workers : ph[w] = "exited"
      /\ ph' = [a \in Actors |-> IF a = Main THEN "run"
                                 ELSE IF a \in Workers THEN "off" ELSE ph[a]]
      /\ pc' = [pc EXCEPT ![Main] = @ + 1]
  BY DEF Join
<1>2. pc'[Main] = pc[Main] + 1 /\ \A b \in Actors \ {Main} : pc'[b] = pc[b]
  BY <1>1, NextOnly DEF SlotInv
<1>3. ph'[Main] = "run"
  BY <1>1
<1>4. \A w \in Workers : ph'[w] = "off" /\ pc'[w] = pc[w]
  BY <1>1, <1>2, MainIsApart
<1>5. \A w \in Workers : WorkerArc(w)
  BY <1>1, <1>3, <1>4 DEF WorkerArc
<1>6. MainArc
  BY <1>1, <1>2, <1>3, <1>4 DEF MainArc
<1>7. \A j \in Jobs : Still(j)
  BY <1>1, <1>2, MainIsApart DEF Still
<1> QED
  BY <1>1, <1>5, <1>6, <1>7 DEF Arcs, Arc

\* Every step moves each actor along one of its arcs, or leaves it where it is.
LEMMA StepArcs == ASSUME SlotInv, [Next]_vars PROVE Arcs
<1>1. CASE \E a \in Bodies : BodyStep(a)
  BY <1>1, ArcsSchedule, ArcsAllocate, ArcsRunInline, ArcsWaitCheck DEF BodyStep
<1>2. CASE \E a \in Actors : HelpStep(a)
  <2>1. PICK a \in Actors : HelpStep(a)
    BY <1>2
  <2>2. CASE PopLocal(a) \/ Steal(a)
    BY <2>2, TakeCases, ArcsTake, ArcsLookOn DEF SlotInv
  <2> QED
    BY <2>1, <2>2, ArcsFindNothing, ArcsParkSleep DEF HelpStep
<1>3. CASE \E a \in Actors : EnqueueStep(a)
  BY <1>3, ArcsPushCount, ArcsNotify DEF EnqueueStep
<1>4. CASE \E j \in Jobs : JobStep(j)
  BY <1>4, ArcsReturn, ArcsComplete, ArcsLeave DEF JobStep
<1>5. CASE \E w \in Workers : LoadRunning(w)
  BY <1>5, ArcsLoadRunning
<1>6. CASE MainStep
  BY <1>6, ArcsInitPool, ArcsShutdown, ArcsStopRunning, ArcsStopNotify, ArcsJoin
     DEF MainStep
<1>7. CASE UNCHANGED vars
  BY <1>7 DEF vars, Arcs, Still
<1> QED
  BY <1>1, <1>2, <1>3, <1>4, <1>5, <1>6, <1>7 DEF Next, Step

-----------------------------------------------------------------------------
(* The histories: what a step does to done, runs, handle and running. *)

RunningMoves ==
    running' # running =>
        \/ Serial /\ running' /\ \A w \in Workers : ph'[w] = "loop"
        \/ running /\ ph[Main] = "stop" /\ ph'[Main] = "stopNotify"

Histories ==
    /\ \A j \in Jobs : j \in done' <=>
           j \in done \/ (ph[j] = "run" /\ ph'[j] \in {"complete", "dead"})
    /\ \A j \in Jobs : runs'[j] = 0 <=> runs[j] = 0 /\ ~(ph[j] = "off" /\ ph'[j] = "run")
    /\ \A j \in Jobs : handle'[j] = handle[j] \/ handle'[j] # NoHandle
    /\ \A j \in Jobs : handle[j] # NoHandle =>
           handle'[j] = handle[j] \/ (handle[j].slot = None /\ ph[j] = "run")
    /\ \A j \in Jobs : Submitted(j)' /\ ~Submitted(j) =>
           \E b \in Bodies : /\ AtSchedule(b) /\ Target(b) = j /\ b \notin done
                             /\ \/ pc'[b] = pc[b] + 1
                                \/ pc'[b] = pc[b] /\ ph'[b] = "push"
    /\ \A j \in Jobs : handle'[j] = handle[j] \/ handle'[j] = SerialHandle
                       \/ \E b \in Bodies : ph[b] = "alloc"
    /\ RunningMoves

LEMMA QuietHistories ==
    ASSUME SlotInv, NEW a \in Actors, UNCHANGED <<running, handle, runs, done>>,
           ph[a] # "off", ph[a] # "run" \/ ph'[a] \notin {"complete", "dead"},
           \A b \in Actors \ {a} :
               ph'[b] = ph[b] \/ (ph[b] = "asleep" /\ ph'[b] = "park")
    PROVE  Histories
<1>1. \A j \in Jobs : /\ ph[j] = "off" <=> ph[j] = "off" /\ ph'[j] = "off"
                      /\ ~(ph[j] = "run" /\ ph'[j] \in {"complete", "dead"})
  OBVIOUS
<1>2. \A j \in Jobs : Submitted(j)' => Submitted(j)
  BY <1>1 DEF Submitted
<1> QED
  BY <1>1, <1>2 DEF Histories, RunningMoves

LEMMA HistoriesBody ==
    ASSUME SlotInv, NEW a \in Bodies, BodyStep(a) PROVE Histories
<1> USE DEF histVars
<1>0. TypeInv /\ (a \in done => ph[a] \notin {"run", "alloc"})
  BY MainIsApart DEF SlotInv, DoneFits, TypeInv, TypeOK, Enqueuing
<1>1. CASE Schedule(a)
  <2>1. /\ ph[a] = "run" /\ Goto(a, "alloc") /\ UNCHANGED <<running, handle, runs, done>>
    BY <1>1 DEF Schedule
  <2> QED
    BY <1>0, <2>1, GotoOnly, QuietHistories
<1>2. CASE Allocate(a)
  <2>1. PICK s \in Slots : AllocateAt(a, s)
    BY <1>2, AllocateSlot
  <2>2. /\ ph[a] = "alloc" /\ AtSchedule(a) /\ UNCHANGED <<running, runs, done>>
    BY <1>2, AllocateSlot
  <2> DEFINE j == Target(a)
  <2>3. j \in Jobs /\ handle[j] = NoHandle
    BY <2>2, TargetIsFresh
  <2>4. /\ \A b \in Actors \ {a} : ph'[b] = ph[b] /\ pc'[b] = pc[b]
        /\ \/ ph'[a] = "push" /\ pc'[a] = pc[a]
           \/ ph'[a] = "run" /\ pc'[a] = pc[a] + 1
    BY <2>1, <2>2, AllocateMoves
  <2>5. /\ handle'[j] = [slot |-> s, gen |-> gen[s]]
        /\ \A k \in Jobs \ {j} : handle'[k] = handle[k]
    BY <2>1, <2>3 DEF AllocateAt, SlotInv, TypeInv, TypeOK
  <2>6. handle'[j] # NoHandle
    <3>1. handle'[j].slot = s
      BY <2>5
    <3> QED
      BY <3>1, MainIsApart DEF NoHandle
  <2>7. \A k \in Jobs : Submitted(k)' /\ ~Submitted(k) => k = j
    BY <2>4, <2>5, <2>2 DEF Submitted
  <2> HIDE DEF j
  <2>8. \A k \in Jobs : Submitted(k)' /\ ~Submitted(k) =>
           \E b \in Bodies : /\ AtSchedule(b) /\ Target(b) = k /\ b \notin done
                             /\ \/ pc'[b] = pc[b] + 1
                                \/ pc'[b] = pc[b] /\ ph'[b] = "push"
    BY <1>0, <2>2, <2>4, <2>7 DEF j
  <2> QED
    BY <2>2, <2>3, <2>4, <2>5, <2>6, <2>8 DEF Histories, RunningMoves
<1>3. CASE RunInline(a)
  <2>1. /\ ph[a] \in {"run", "alloc"} /\ AtSchedule(a) /\ UNCHANGED <<running, handle, done>>
        /\ Call(a, Target(a), "run") /\ pc' = [pc EXCEPT ![a] = @ + 1]
    BY <1>3, InlineSlot
  <2> DEFINE j == Target(a)
  <2>2. j \in Jobs /\ a # j /\ handle[j] = NoHandle /\ ph[j] = "off"
    BY <2>1, TargetIsFresh
  <2>a. pc'[a] = pc[a] + 1
    BY <1>0, <2>1, NextOnly
  <2>3. /\ ph'[a] = "run" /\ ph'[j] = "run" /\ \A b \in Actors \ {a, j} : ph'[b] = ph[b]
        /\ runs'[j] = runs[j] + 1 /\ \A b \in Jobs \ {j} : runs'[b] = runs[b]
    <3>1. a \in Actors /\ j \in Jobs /\ a # j /\ Call(a, j, "run")
      BY <2>1, <2>2
    <3> HIDE DEF j
    <3> QED
      BY <1>0, <3>1, CallOnly
  <2>4. \A k \in Jobs : runs[k] \in Nat
    BY DEF SlotInv, TypeInv, TypeOK
  <2>5. \A k \in Jobs : Submitted(k)' /\ ~Submitted(k) => k = j
    BY <2>1, <2>3 DEF Submitted
  <2>6. \A k \in Jobs : runs'[k] = 0 <=> runs[k] = 0 /\ ~(ph[k] = "off" /\ ph'[k] = "run")
    BY <2>1, <2>2, <2>3, <2>4
  <2> HIDE DEF j
  <2>7. \A k \in Jobs : Submitted(k)' /\ ~Submitted(k) =>
           \E b \in Bodies : /\ AtSchedule(b) /\ Target(b) = k /\ b \notin done
                             /\ \/ pc'[b] = pc[b] + 1
                                \/ pc'[b] = pc[b] /\ ph'[b] = "push"
    BY <1>0, <2>1, <2>3, <2>5, <2>a DEF j
  <2>8. \A k \in Jobs : ~(ph[k] = "run" /\ ph'[k] \in {"complete", "dead"})
    BY <2>2, <2>3
  <2> QED
    BY <2>1, <2>6, <2>7, <2>8 DEF Histories, RunningMoves
<1>4. CASE WaitCheck(a)
  <2>1. /\ ph[a] = "run" /\ (ph' = ph \/ Goto(a, "seek"))
        /\ UNCHANGED <<running, handle, runs, done>>
    BY <1>4 DEF WaitCheck
  <2> QED
    BY <1>0, <2>1, GotoOnly, QuietHistories
<1> QED
  BY <1>1, <1>2, <1>3, <1>4 DEF BodyStep

LEMMA HistoriesHelp ==
    ASSUME SlotInv, NEW a \in Actors, HelpStep(a) PROVE Histories
<1>0. TypeInv
  BY DEF SlotInv
<1>1. CASE LookOn(a)
  <2>1. /\ ph[a] \in {"seek", "drain", "steal", "drainSteal"}
        /\ ph' = ph \/ \E p \in {"steal", "drainSteal"} : Goto(a, p)
        /\ UNCHANGED <<running, handle, runs, done>>
    BY <1>1 DEF LookOn
  <2> QED
    BY <1>0, <2>1, GotoOnly, QuietHistories
<1>2. ASSUME NEW w \in Workers, NEW o \in {0, 1}, TakeOf(a, w, o) PROVE Histories
  <2> DEFINE j == occupant[Taken(w, o)]
             s == Taken(w, o)
             p == IF ph[a] \in {"seek", "steal"} THEN Resume(a) ELSE "drain"
  <2>1. s \in Slots /\ Ripe(s) /\ j \in Jobs /\ j # a /\ ph[j] = "off" /\ Call(a, j, p)
    BY <1>2, TakeJob DEF Ripe
  <2>2. /\ ph[a] \in {"seek", "steal", "drain", "drainSteal"}
        /\ UNCHANGED <<running, handle, done>>
    BY <1>2 DEF TakeOf
  <2>3. p \in {"run", "loop", "drain"}
    BY DEF Resume
  <2>4. handle[j] # NoHandle
    <3>1. handle[j].slot = s
      BY <2>1 DEF SlotInv, SlotsAnswer, Ripe
    <3> QED
      BY <2>1, <3>1, MainIsApart DEF NoHandle
  <2> HIDE DEF j, p
  <2>5. /\ ph'[a] = p /\ ph'[j] = "run" /\ \A b \in Actors \ {a, j} : ph'[b] = ph[b]
        /\ runs'[j] = runs[j] + 1 /\ \A b \in Jobs \ {j} : runs'[b] = runs[b]
    BY <1>0, <2>1, CallOnly
  <2>6. \A k \in Jobs : runs[k] \in Nat
    BY DEF SlotInv, TypeInv, TypeOK
  <2>7. \A k \in Jobs : runs'[k] = 0 <=> runs[k] = 0 /\ ~(ph[k] = "off" /\ ph'[k] = "run")
    BY <2>1, <2>2, <2>5, <2>6
  <2>8. \A k \in Jobs : Submitted(k)' => Submitted(k)
    BY <2>2, <2>4, <2>5 DEF Submitted
  <2>9. \A k \in Jobs : ~(ph[k] = "run" /\ ph'[k] \in {"complete", "dead"})
    BY <2>1, <2>2, <2>5
  <2> QED
    BY <2>2, <2>7, <2>8, <2>9 DEF Histories, RunningMoves
<1>3. CASE FindNothing(a)
  <2>1. /\ ph[a] \in {"steal", "drainSteal"}
        /\ \E p \in {"park", "stop", "exited"} : Goto(a, p)
        /\ UNCHANGED <<running, handle, runs, done>>
    BY <1>3 DEF FindNothing, histVars
  <2> QED
    BY <1>0, <2>1, GotoOnly, QuietHistories
<1>4. CASE Park(a) \/ Sleep(a)
  <2>1. /\ ph[a] \in {"park", "sleep"}
        /\ \E p \in {"run", "loop", "sleep", "asleep"} : Goto(a, p)
        /\ UNCHANGED <<running, handle, runs, done>>
    BY <1>4 DEF Park, Sleep, histVars, Resume
  <2> QED
    BY <1>0, <2>1, GotoOnly, QuietHistories
<1> QED
  BY <1>0, <1>1, <1>2, <1>3, <1>4, TakeCases DEF HelpStep

LEMMA HistoriesEnqueue ==
    ASSUME SlotInv, NEW a \in Actors, EnqueueStep(a) PROVE Histories
<1>0. TypeInv
  BY DEF SlotInv
<1>1. CASE Push(a) \/ Count(a)
  <2>1. /\ ph[a] \in {"push", "count"} /\ \E p \in {"count", "notify"} : Goto(a, p)
        /\ UNCHANGED <<running, handle, runs, done>>
    BY <1>1 DEF Push, Count, histVars
  <2> QED
    BY <1>0, <2>1, GotoOnly, QuietHistories
<1>2. CASE Notify(a)
  <2>1. /\ ph[a] = "notify" /\ \E p \in {"push", "leave", "run"} : NotifyAll(a, p)
        /\ UNCHANGED <<running, handle, runs, done>>
    BY <1>2 DEF Notify, histVars
  <2> QED
    BY <1>0, <2>1, NotifyOnly, QuietHistories
<1> QED
  BY <1>1, <1>2 DEF EnqueueStep

LEMMA HistoriesJob ==
    ASSUME SlotInv, NEW j \in Jobs, JobStep(j) PROVE Histories
<1>0. TypeInv
  BY DEF SlotInv
<1>1. CASE Return(j)
  <2>1. /\ ph[j] = "run" /\ done' = done \cup {j} /\ UNCHANGED <<running, runs>>
        /\ \E p \in {"complete", "dead"} : Goto(j, p)
        /\ \/ handle' = handle
           \/ handle[j].slot = None /\ handle' = [handle EXCEPT ![j] = SerialHandle]
    BY <1>1 DEF Return
  <2>2. /\ ph'[j] \in {"complete", "dead"} /\ \A b \in Actors \ {j} : ph'[b] = ph[b]
    BY <1>0, <2>1, GotoOnly
  <2>3. /\ \A k \in Jobs \ {j} : handle'[k] = handle[k]
        /\ handle'[j] = handle[j] \/ (handle[j].slot = None /\ handle'[j] = SerialHandle)
    BY <1>0, <2>1 DEF TypeInv, TypeOK
  <2>4. SerialHandle # NoHandle
    <3>1. SerialHandle.gen # NoHandle.gen
      BY DEF SerialHandle, NoHandle
    <3> QED
      BY <3>1
  <2>5. \A k \in Jobs : Submitted(k)' => Submitted(k)
    BY <2>1, <2>2, <2>3 DEF Submitted
  <2> QED
    BY <2>1, <2>2, <2>3, <2>4, <2>5 DEF Histories, RunningMoves
<1>2. CASE Complete(j)
  <2>1. /\ ph[j] = "complete" /\ \E p \in {"leave", "push"} : Goto(j, p)
        /\ UNCHANGED <<running, handle, runs, done>>
    BY <1>2 DEF Complete, histVars
  <2> QED
    BY <1>0, <2>1, GotoOnly, QuietHistories
<1>3. CASE Leave(j)
  <2>1. /\ ph[j] = "leave" /\ NotifyAll(j, "dead")
        /\ UNCHANGED <<running, handle, runs, done>>
    BY <1>3 DEF Leave, histVars
  <2> QED
    BY <1>0, <2>1, NotifyOnly, QuietHistories
<1> QED
  BY <1>1, <1>2, <1>3 DEF JobStep

LEMMA HistoriesMain ==
    ASSUME SlotInv, MainStep PROVE Histories
<1>0. TypeInv /\ ph[Main] # "off"
  BY DEF SlotInv, PhasesFit
<1>1. CASE InitPool
  <2>1. UNCHANGED <<handle, runs, done>> /\ ph[Main] = "run"
    BY <1>1 DEF InitPool, histVars
  <2>2. CASE running
    BY <1>0, <1>1, <2>1, <2>2, QuietHistories DEF InitPool
  <2>3. CASE ~running
    <3>1. /\ running' = TRUE
          /\ ph' = [a \in Actors |-> IF a \in Workers THEN "loop" ELSE ph[a]]
      BY <1>1, <2>3 DEF InitPool
    <3>2. RunningMoves
      BY <2>1, <2>3, <3>1 DEF RunningMoves, Serial
    <3>3. \A j \in Jobs : ph'[j] = ph[j]
      BY <3>1, MainIsApart
    <3> QED
      BY <2>1, <3>2, <3>3 DEF Histories, Submitted
  <2> QED
    BY <2>2, <2>3
<1>2. CASE Shutdown
  <2>1. /\ ph[Main] = "run" /\ (ph' = ph \/ Goto(Main, "drain"))
        /\ UNCHANGED <<running, handle, runs, done>>
    BY <1>2 DEF Shutdown, histVars
  <2> QED
    BY <1>0, <2>1, GotoOnly, QuietHistories
<1>3. CASE StopRunning
  <2>1. /\ ph[Main] = "stop" /\ Goto(Main, "stopNotify") /\ running' = FALSE
        /\ UNCHANGED <<handle, runs, done>>
    BY <1>3 DEF StopRunning, histVars
  <2>2. ph'[Main] = "stopNotify" /\ \A j \in Jobs : ph'[j] = ph[j]
    BY <1>0, <2>1, GotoOnly, MainIsApart
  <2>3. running
    BY <2>1 DEF SlotInv, Life
  <2> QED
    BY <2>1, <2>2, <2>3 DEF Histories, Submitted, RunningMoves
<1>4. CASE StopNotify
  <2>1. /\ ph[Main] = "stopNotify" /\ NotifyAll(Main, "join")
        /\ UNCHANGED <<running, handle, runs, done>>
    BY <1>4 DEF StopNotify, histVars
  <2> QED
    BY <1>0, <2>1, NotifyOnly, QuietHistories
<1>5. CASE Join
  <2>1. /\ UNCHANGED <<running, handle, runs, done>>
        /\ ph' = [a \in Actors |-> IF a = Main THEN "run"
                                   ELSE IF a \in Workers THEN "off" ELSE ph[a]]
    BY <1>5 DEF Join, histVars
  <2>2. \A j \in Jobs : ph'[j] = ph[j]
    BY <2>1, MainIsApart
  <2> QED
    BY <2>1, <2>2 DEF Histories, Submitted, RunningMoves
<1> QED
  BY <1>1, <1>2, <1>3, <1>4, <1>5 DEF MainStep

LEMMA StepHistories == ASSUME SlotInv, [Next]_vars PROVE Histories
<1>1. CASE \E w \in Workers : LoadRunning(w)
  <2>1. PICK w \in Workers : LoadRunning(w)
    BY <1>1
  <2>2. /\ ph[w] = "loop" /\ \E p \in {"seek", "drain"} : Goto(w, p)
        /\ UNCHANGED <<running, handle, runs, done>>
    BY <2>1 DEF LoadRunning, histVars
  <2>3. TypeInv
    BY DEF SlotInv
  <2> QED
    BY <2>2, <2>3, GotoOnly, QuietHistories
<1>2. CASE UNCHANGED vars
  BY <1>2 DEF vars, histVars, Histories, RunningMoves, Submitted
<1> QED
  BY <1>1, <1>2, HistoriesBody, HistoriesHelp, HistoriesEnqueue, HistoriesJob, HistoriesMain
     DEF Next, Step

-----------------------------------------------------------------------------
\* What the arcs and the histories of a step give, whatever the step was.
LEMMA PhasesKept == ASSUME SlotInv, Arcs PROVE PhasesFit'
<1>1. ASSUME NEW w \in Workers
      PROVE  ph'[w] \in {"off", "loop", "seek", "steal", "park", "sleep",
                         "asleep", "drain", "drainSteal", "exited"}
  <2>1. Still(w) \/ WorkerArc(w)
    BY MainIsApart DEF Arcs, Arc
  <2>2. CASE Still(w)
    BY <2>2 DEF Still, SlotInv, PhasesFit
  <2>3. CASE WorkerArc(w)
    BY <2>3 DEF WorkerArc
  <2> QED
    BY <2>1, <2>2, <2>3
<1>2. ph'[Main] \notin {"off", "loop", "complete", "leave", "exited", "dead"}
  <2>1. Still(Main) \/ BodyArc(Main) \/ MainArc
    BY MainIsApart DEF Arcs, Arc
  <2>2. CASE Still(Main)
    BY <2>2 DEF Still, SlotInv, PhasesFit
  <2>3. CASE BodyArc(Main)
    BY <2>3, MainIsApart DEF BodyArc, SlotInv, TypeInv, TypeOK
  <2>4. CASE MainArc
    BY <2>4 DEF MainArc
  <2> QED
    BY <2>1, <2>2, <2>3, <2>4
<1>3. ASSUME NEW j \in Jobs
      PROVE  ph'[j] \notin {"loop", "drain", "drainSteal", "stop", "stopNotify",
                            "join", "exited"}
  <2>1. Still(j) \/ BodyArc(j) \/ JobArc(j)
    BY MainIsApart DEF Arcs, Arc
  <2>2. CASE Still(j)
    BY <2>2 DEF Still, SlotInv, PhasesFit
  <2>3. CASE BodyArc(j)
    BY <2>3 DEF BodyArc
  <2>4. CASE JobArc(j)
    BY <2>4 DEF JobArc
  <2> QED
    BY <2>1, <2>2, <2>3, <2>4
<1> QED
  BY <1>1, <1>2, <1>3 DEF PhasesFit

\* The arcs of one actor, by what it is.
LEMMA ArcKinds ==
    ASSUME SlotInv, Arcs
    PROVE  /\ \A j \in Jobs : Still(j) \/ BodyArc(j) \/ JobArc(j)
           /\ \A w \in Workers : Still(w) \/ WorkerArc(w)
           /\ Still(Main) \/ BodyArc(Main) \/ MainArc
BY MainIsApart DEF Arcs, Arc

LEMMA DoneKept == ASSUME SlotInv, Arcs, Histories PROVE DoneFits'
<1> SUFFICES ASSUME NEW j \in Jobs
             PROVE  /\ ph'[j] \in {"complete", "leave", "dead"} => j \in done'
                    /\ j \in done' => Enqueuing(j)' \/ ph'[j] \in {"complete", "leave", "dead"}
                    /\ runs'[j] = 0 <=> ph'[j] = "off"
  BY DEF DoneFits
<1>1. /\ j \in done' <=> j \in done \/ (ph[j] = "run" /\ ph'[j] \in {"complete", "dead"})
      /\ runs'[j] = 0 <=> runs[j] = 0 /\ ~(ph[j] = "off" /\ ph'[j] = "run")
  BY DEF Histories
<1>2. /\ ph[j] \in {"complete", "leave", "dead"} => j \in done
      /\ j \in done => Enqueuing(j) \/ ph[j] \in {"complete", "leave", "dead"}
      /\ runs[j] = 0 <=> ph[j] = "off"
  BY DEF SlotInv, DoneFits
<1>3. CASE Still(j)
  BY <1>1, <1>2, <1>3 DEF Still, Enqueuing
<1>4. CASE BodyArc(j)
  BY <1>1, <1>2, <1>4 DEF BodyArc, Enqueuing
<1>5. CASE JobArc(j)
  BY <1>1, <1>2, <1>5 DEF JobArc, Enqueuing
<1> QED
  BY <1>3, <1>4, <1>5, ArcKinds

LEMMA OpsKept == ASSUME SlotInv, Arcs, Histories PROVE OpsFit'
<1>0. \A j \in Jobs : handle[j] # NoHandle => handle'[j] # NoHandle
  BY DEF Histories
<1>1. ASSUME NEW a \in Bodies, OnSchedule(a)'
      PROVE  pc'[a] \in 1..Len(Body[a]) /\ Body[a][pc'[a]].op = "schedule"
  <2>1. Enqueuing(a)' /\ a \notin done'
    BY <1>1 DEF OnSchedule
  <2>2. a \notin done
    BY <2>1, MainIsApart DEF Histories, SlotInv, TypeInv, TypeOK
  <2>3. CASE Still(a)
    BY <1>1, <2>1, <2>2, <2>3 DEF Still, Enqueuing, OnSchedule, SlotInv, OpsFit
  <2>4. CASE BodyArc(a)
    BY <1>1, <2>1, <2>2, <2>4 DEF BodyArc, Enqueuing, AtSchedule, OnSchedule, SlotInv, OpsFit
  <2>5. CASE a \in Jobs /\ JobArc(a)
    BY <2>1, <2>2, <2>5 DEF JobArc, Enqueuing, SlotInv, DoneFits
  <2>6. CASE a = Main /\ MainArc
    BY <2>1, <2>6 DEF MainArc, Enqueuing
  <2> QED
    BY <2>3, <2>4, <2>5, <2>6, ArcKinds
<1>2. ASSUME NEW a \in Bodies, Waiting(a)'
      PROVE  /\ pc'[a] \in 1..Len(Body[a]) /\ Body[a][pc'[a]].op = "wait"
             /\ handle'[Body[a][pc'[a]].job] # NoHandle
  <2>1. /\ pc'[a] = pc[a] /\ AtWait(a) /\ handle[Target(a)] # NoHandle
    <3>1. CASE Still(a)
      BY <1>2, <3>1 DEF Still, Waiting, SlotInv, OpsFit, AtWait
    <3>2. CASE BodyArc(a)
      BY <1>2, <3>2 DEF BodyArc, Waiting, SlotInv, OpsFit, AtWait
    <3>3. CASE a \in Jobs /\ JobArc(a)
      BY <1>2, <3>3 DEF JobArc, Waiting
    <3>4. CASE a = Main /\ MainArc
      BY <1>2, <3>4 DEF MainArc, Waiting
    <3> QED
      BY <3>1, <3>2, <3>3, <3>4, ArcKinds
  <2>2. Target(a) \in Jobs
    BY <2>1, PoolAssumption DEF AtWait, Target
  <2> QED
    BY <1>0, <2>1, <2>2 DEF AtWait, Target
<1>3. ASSUME Stopping'
      PROVE  pc'[Main] \in 1..Len(Body[Main]) /\ Body[Main][pc'[Main]].op = "shutdown"
  <2>1. CASE Still(Main)
    BY <1>3, <2>1 DEF Still, Stopping, SlotInv, OpsFit
  <2>2. CASE BodyArc(Main)
    BY <1>3, <2>2 DEF BodyArc, Stopping
  <2>3. CASE MainArc
    BY <1>3, <2>3 DEF MainArc, AtEnd, Stopping, SlotInv, OpsFit
  <2> QED
    BY <2>1, <2>2, <2>3, ArcKinds
<1> QED
  BY <1>1, <1>2, <1>3 DEF OpsFit, Target

LEMMA BehindGrows ==
    ASSUME SlotInv, TypeInv', Arcs, Histories, NEW b \in Bodies
    PROVE  Behind(b) \subseteq Behind(b)'
<1>1. pc[b] \in Nat
  BY DEF SlotInv, TypeInv, TypeOK
<1>2. b \in done' => b \in done \/ ph[b] = "run"
  BY DEF Histories, SlotInv, TypeInv, TypeOK
<1>2a. b \in done => b \in done'
  BY DEF Histories, SlotInv, TypeInv, TypeOK
<1>3. CASE Still(b)
  BY <1>1, <1>2, <1>3 DEF Still, Behind, OnSchedule, Enqueuing
<1>4. CASE BodyArc(b)
  <2>1. pc'[b] = pc[b] + 1 \/ (pc'[b] = pc[b] /\ (OnSchedule(b) => OnSchedule(b)'))
    BY <1>2, <1>4 DEF BodyArc, OnSchedule, Enqueuing
  <2> QED
    BY <1>1, <2>1 DEF Behind
<1>5. CASE b \in Jobs /\ JobArc(b)
  BY <1>1, <1>5 DEF JobArc, Behind, OnSchedule, Enqueuing
<1>6. CASE b = Main /\ MainArc
  BY <1>1, <1>6 DEF MainArc, Behind, OnSchedule, Enqueuing
<1> QED
  BY <1>3, <1>4, <1>5, <1>6, ArcKinds

LEMMA SubmittedKept == ASSUME SlotInv, TypeInv', Arcs, Histories PROVE SubmittedOnce'
<1> SUFFICES ASSUME NEW j \in Jobs, Submitted(j)'
             PROVE  \E b \in Bodies : \E i \in Behind(b)' :
                       i <= Len(Body[b]) /\ Body[b][i].op = "schedule" /\ Body[b][i].job = j
  BY DEF SubmittedOnce
<1>1. CASE Submitted(j)
  BY <1>1, BehindGrows DEF SlotInv, SubmittedOnce
<1>2. CASE ~Submitted(j)
  <2>1. PICK b \in Bodies :
           /\ AtSchedule(b) /\ Target(b) = j /\ b \notin done
           /\ \/ pc'[b] = pc[b] + 1
              \/ pc'[b] = pc[b] /\ ph'[b] = "push"
    BY <1>2 DEF Histories
  <2>2. b \in done' => ph'[b] \in {"complete", "dead"}
    BY <2>1 DEF Histories, SlotInv, TypeInv, TypeOK
  <2>3. pc[b] \in Behind(b)'
    BY <2>1, <2>2 DEF AtSchedule, Behind, OnSchedule, Enqueuing
  <2> QED
    BY <2>1, <2>3 DEF AtSchedule, Target
<1> QED
  BY <1>1, <1>2

LEMMA LifeKept == ASSUME SlotInv, TypeInv', Arcs, Histories PROVE Life'
<1>0. /\ running \in BOOLEAN /\ running' \in BOOLEAN
      /\ running' # running =>
            \/ Serial /\ running' /\ \A w \in Workers : ph'[w] = "loop"
            \/ running /\ ph[Main] = "stop" /\ ph'[Main] = "stopNotify"
  BY DEF Histories, SlotInv, TypeInv, TypeOK, RunningMoves
<1>1. Life
  BY DEF SlotInv
<1>2. ASSUME running', NEW w \in Workers
      PROVE  ph'[w] \notin {"off", "drain", "drainSteal", "exited"}
  <2>1. CASE ~running
    BY <1>0, <1>2, <2>1
  <2>2. CASE running
    <3>1. ph[w] \notin {"off", "drain", "drainSteal", "exited"}
      BY <1>1, <2>2 DEF Life
    <3> QED
      BY <2>2, <3>1, ArcKinds DEF Still, WorkerArc
  <2> QED
    BY <2>1, <2>2
<1>3. ASSUME ph'[Main] \in {"stopNotify", "join"}
      PROVE  ~running' /\ \A w \in Workers : ph'[w] # "off"
  <2>1. ph[Main] \in {"stopNotify", "join"} \/ (ph[Main] = "stop" /\ ~running')
    BY <1>3, ArcKinds DEF Still, BodyArc, MainArc
  <2>2. ~running'
    BY <1>0, <1>1, <2>1 DEF Life, Serial
  <2>3. \A w \in Workers : ph[w] # "off"
    BY <1>1, <2>1 DEF Life
  <2>4. ASSUME NEW w \in Workers, ph'[w] = "off" PROVE FALSE
    BY <1>3, <2>3, <2>4, ArcKinds DEF Still, WorkerArc
  <2> QED
    BY <2>2, <2>4
<1>4. ASSUME ph'[Main] \in {"drain", "drainSteal", "stop"} PROVE running'
  <2>1. running /\ ph'[Main] # "stopNotify"
    BY <1>1, <1>4, ArcKinds DEF Still, BodyArc, MainArc, Life
  <2> QED
    BY <1>0, <2>1
<1>5. ASSUME Serial', NEW w \in Workers PROVE ph'[w] = "off"
  <2>1. ~running' /\ ph'[Main] \notin {"stopNotify", "join"}
    BY <1>5 DEF Serial
  <2>2. ~running
    BY <1>0, <2>1
  <2>3. CASE Serial
    <3>1. ph[w] = "off"
      BY <1>1, <2>3 DEF Life
    <3> QED
      BY <2>1, <3>1, ArcKinds DEF Still, WorkerArc
  <2>4. CASE ~Serial
    <3>1. ph[Main] \in {"stopNotify", "join"}
      BY <2>2, <2>4 DEF Serial
    <3>2. \A u \in Workers : ph'[u] = "off"
      BY <2>1, <3>1, ArcKinds DEF Still, BodyArc, MainArc
    <3> QED
      BY <3>2
  <2> QED
    BY <2>3, <2>4
<1> QED
  BY <1>2, <1>3, <1>4, <1>5 DEF Life

LEMMA WaitsKept == ASSUME SlotInv, Arcs, Histories PROVE WaitMeansDone'
<1> SUFFICES ASSUME NEW a \in Bodies, NEW i \in 1..(pc'[a] - 1), Body[a][i].op = "wait"
             PROVE  Body[a][i].job \in done'
  BY DEF WaitMeansDone
<1>1. pc[a] \in Nat /\ pc'[a] \in {pc[a], pc[a] + 1}
  <2>1. pc[a] \in Nat
    BY DEF SlotInv, TypeInv, TypeOK
  <2>2. pc'[a] \in {pc[a], pc[a] + 1}
    BY ArcKinds DEF Still, BodyArc, JobArc, MainArc
  <2> QED
    BY <2>1, <2>2
<1>2. done \subseteq done'
  BY DEF Histories, SlotInv, TypeInv, TypeOK
<1>3. CASE i \in 1..(pc[a] - 1)
  BY <1>2, <1>3 DEF SlotInv, WaitMeansDone
<1>4. CASE i = pc[a] /\ pc'[a] = pc[a] + 1
  <2>1. CASE BodyArc(a)
    <3>1. AtWait(a) /\ handle[Target(a)] # NoHandle /\ Finished(handle[Target(a)])
      BY <1>1, <1>4, <2>1 DEF BodyArc, AtSchedule, SlotInv, OpsFit, OnSchedule, Enqueuing
    <3>2. Target(a) \in Jobs
      BY <3>1, PoolAssumption DEF AtWait, Target
    <3>3. Target(a) \in done
      BY <3>1, <3>2 DEF SlotInv, SlotsAnswer, Finished
    <3> QED
      BY <1>2, <1>4, <3>3 DEF Target
  <2>2. CASE a = Main /\ MainArc
    BY <1>1, <1>4, <2>2 DEF MainArc, SlotInv, OpsFit, Stopping
  <2>3. ~Still(a) /\ ~(a \in Jobs /\ JobArc(a))
    BY <1>1, <1>4 DEF Still, JobArc
  <2> QED
    BY <2>1, <2>2, <2>3, ArcKinds
<1> QED
  BY <1>1, <1>3, <1>4

LEMMA FirstKept == ASSUME SlotInv, TypeInv', Arcs, Histories PROVE FirstIsClean'
<1> SUFFICES ASSUME Serial', Early'
             PROVE  /\ \A j \in Jobs : handle'[j].slot = None
                    /\ \A b \in Bodies : ph'[b] \in {"off", "run", "dead"}
  BY DEF FirstIsClean
<1>1. Early
  <2>1. pc[Main] \in Nat /\ pc'[Main] \in {pc[Main], pc[Main] + 1}
    <3>1. pc[Main] \in Nat
      BY DEF SlotInv, TypeInv, TypeOK
    <3> QED
      BY <3>1, ArcKinds DEF Still, BodyArc, MainArc
  <2> QED
    BY <2>1 DEF Early
<1>2. ph'[Main] \notin {"stopNotify", "join"} /\ ~running'
  BY DEF Serial
<1>3. ph[Main] \notin {"stopNotify", "join"}
  <2> SUFFICES ASSUME ph[Main] \in {"stopNotify", "join"} PROVE FALSE
    OBVIOUS
  <2>1. pc[Main] \in 1..Len(Body[Main]) /\ Body[Main][pc[Main]].op = "shutdown"
    BY DEF SlotInv, OpsFit, Stopping
  <2>2. pc'[Main] = pc[Main] + 1
    BY <1>2, ArcKinds DEF Still, BodyArc, MainArc
  <2>3. pc[Main] \in 1..(pc'[Main] - 1) /\ pc[Main] <= Len(Body[Main])
    <3>1. Len(Body[Main]) \in Nat
      BY PoolAssumption
    <3> QED
      BY <2>1, <2>2, <3>1
  <2> QED
    BY <2>1, <2>3 DEF Early
<1>4. Serial
  <2>1. running' # running => ph'[Main] = "stopNotify" \/ running'
    BY DEF Histories, RunningMoves
  <2>2. running \in BOOLEAN /\ running' \in BOOLEAN
    BY DEF SlotInv, TypeInv, TypeOK
  <2> QED
    BY <1>2, <1>3, <2>1, <2>2 DEF Serial
<1>5. /\ \A j \in Jobs : handle[j].slot = None
      /\ \A b \in Bodies : ph[b] \in {"off", "run", "dead"}
  BY <1>1, <1>4 DEF SlotInv, FirstIsClean
<1>6. \A j \in Jobs : handle'[j].slot = None
  <2> TAKE j \in Jobs
  <2>1. handle'[j] = handle[j] \/ handle'[j] = SerialHandle
    BY <1>5 DEF Histories
  <2>2. SerialHandle.slot = None
    BY DEF SerialHandle
  <2> QED
    BY <1>5, <2>1, <2>2
<1>7. ~running
  BY <1>4 DEF Serial
<1>8. ASSUME NEW b \in Bodies PROVE ph'[b] \in {"off", "run", "dead"}
  <2>1. CASE Still(b)
    BY <1>5, <2>1 DEF Still
  <2>2. CASE BodyArc(b)
    <3>1. ASSUME AtWait(b), ~Finished(handle[Target(b)]) PROVE FALSE
      <4>1. Target(b) \in Jobs
        BY <3>1, PoolAssumption DEF AtWait, Target
      <4> QED
        BY <1>5, <3>1, <4>1 DEF Finished
    <3> QED
      BY <1>5, <1>7, <2>2, <3>1 DEF BodyArc
  <2>3. CASE b \in Jobs /\ JobArc(b)
    <3>1. ph'[b] # "complete"
      <4>1. ph'[b] = "complete" => handle'[b].slot \in Slots
        BY <2>3 DEF TypeInv, CompleteHasSlot
      <4> QED
        BY <1>6, <2>3, <4>1, MainIsApart
    <3> QED
      BY <1>5, <2>3, <3>1 DEF JobArc
  <2>4. CASE b = Main /\ MainArc
    BY <1>5, <1>7, <2>4 DEF MainArc
  <2> QED
    BY <2>1, <2>2, <2>3, <2>4, ArcKinds
<1> QED
  BY <1>6, <1>8

-----------------------------------------------------------------------------
(* The part of SlotInv that the arcs cannot show, one lemma per kind of step. *)

GraphInv == SlotsAnswer /\ Places /\ Waits
slotVars == <<freeSlots, gen, occupant, remaining, dependents, handle, queue, todo>>

LEMMA GraphStays ==
    ASSUME SlotInv, UNCHANGED slotVars, done \subseteq done',
           \A j \in Jobs : /\ ph'[j] = "off" <=> ph[j] = "off"
                           /\ ph'[j] = "complete" => ph[j] = "complete"
                           /\ Released(j)' => Released(j),
           \A a \in Actors : todo[a] # {} => Enqueuing(a)'
    PROVE  GraphInv'
<1>0. /\ occupant \in [Slots -> Jobs \cup {None}]
      /\ SlotsAnswer /\ Places /\ Waits
  BY DEF SlotInv, TypeInv, TypeOK
<1>1. \A s \in Slots : Ripe(s)' <=> Ripe(s)
  BY <1>0 DEF slotVars, Ripe
<1>2. SlotsAnswer'
  BY <1>0 DEF SlotsAnswer, slotVars
<1>3. Places'
  <2>1. \A w \in Workers : queue[w] \in Seq(Slots)
    BY DEF SlotInv, TypeInv, TypeOK
  <2>2. \A w \in Workers : \A i \in DOMAIN queue[w] : queue[w][i] \in Slots
    BY <2>1
  <2>3. \A a \in Actors : todo[a] \subseteq Slots
    BY DEF SlotInv, TypeInv, TypeOK
  <2> QED
    BY <1>0, <1>1, <2>2, <2>3 DEF Places, slotVars
<1>4. Waits'
  <2>1. \A t \in Slots : Before(t)' = Before(t)
    BY DEF slotVars, Before
  <2>2. \A s \in Slots : dependents[s] \subseteq Slots
    BY DEF SlotInv, TypeInv, TypeOK
  <2> QED
    BY <1>0, <2>1, <2>2 DEF Waits, slotVars
<1> QED
  BY <1>2, <1>3, <1>4 DEF GraphInv

\* One actor moves on, and those it woke; nothing is called, completed or released.
LEMMA GraphMove ==
    ASSUME SlotInv, NEW a \in Actors, UNCHANGED slotVars, UNCHANGED done,
           \A b \in Actors \ {a} :
               ph'[b] = ph[b] \/ (ph[b] = "asleep" /\ ph'[b] = "park"),
           ph[a] # "off", ph'[a] \notin {"off", "complete", "dead"},
           ph'[a] = "leave" => Enqueuing(a) /\ a \in done,
           Enqueuing(a)' => Enqueuing(a) \/ a \notin done,
           todo[a] # {} => Enqueuing(a)'
    PROVE  GraphInv'
<1>1. \A b \in Actors \ {a} : Enqueuing(b) <=> Enqueuing(b)'
  BY DEF Enqueuing
<1>2. \A j \in Jobs : Released(j)' => Released(j)
  BY <1>1 DEF Released
<1>3. \A b \in Actors : todo[b] # {} => Enqueuing(b)
  BY DEF SlotInv, Places
<1> QED
  BY <1>1, <1>2, <1>3, GraphStays

LEMMA GraphBody ==
    ASSUME SlotInv, NEW a \in Bodies, Schedule(a) \/ WaitCheck(a) PROVE GraphInv'
<1>0. TypeInv
  BY DEF SlotInv
<1>1. /\ ph[a] = "run" /\ (ph' = ph \/ \E p \in {"alloc", "seek"} : Goto(a, p))
      /\ UNCHANGED slotVars /\ UNCHANGED done
  BY DEF Schedule, WaitCheck, slotVars, graphVars, queueVars, histVars
<1>2. ph'[a] \in {"run", "alloc", "seek"} /\ \A b \in Actors \ {a} : ph'[b] = ph[b]
  BY <1>0, <1>1, GotoOnly
<1>3. todo[a] = {}
  BY <1>1 DEF SlotInv, Places, Enqueuing
<1> QED
  BY <1>1, <1>2, <1>3, GraphMove DEF Enqueuing

LEMMA GraphHelp ==
    ASSUME SlotInv, NEW a \in Actors, LookOn(a) \/ FindNothing(a) \/ Park(a) \/ Sleep(a)
    PROVE  GraphInv'
<1>0. TypeInv
  BY DEF SlotInv
<1> DEFINE Later == {"seek", "steal", "drain", "drainSteal", "park", "stop", "exited",
                     "run", "loop", "sleep", "asleep"}
<1>1. /\ ph[a] \in {"seek", "steal", "drain", "drainSteal", "park", "sleep"}
      /\ ph' = ph \/ \E p \in Later : Goto(a, p)
      /\ UNCHANGED slotVars /\ UNCHANGED done
  BY DEF LookOn, FindNothing, Park, Sleep, Resume, slotVars, graphVars, queueVars, histVars
<1>2. ph'[a] \in Later /\ \A b \in Actors \ {a} : ph'[b] = ph[b]
  BY <1>0, <1>1, GotoOnly
<1>3. todo[a] = {}
  BY <1>1 DEF SlotInv, Places, Enqueuing
<1> QED
  BY <1>1, <1>2, <1>3, GraphMove DEF Enqueuing

LEMMA GraphCountNotify ==
    ASSUME SlotInv, NEW a \in Actors, Count(a) \/ Notify(a) PROVE GraphInv'
<1>0. TypeInv
  BY DEF SlotInv
<1>1. Enqueuing(a) /\ UNCHANGED slotVars /\ UNCHANGED done
  BY DEF Count, Notify, Enqueuing, slotVars, graphVars, queueVars, histVars
<1>2. /\ ph'[a] = IF ph[a] = "count" THEN "notify"
                  ELSE IF todo[a] # {} THEN "push" ELSE IF a \in done THEN "leave" ELSE "run"
      /\ \A b \in Actors \ {a} : ph'[b] = ph[b] \/ (ph[b] = "asleep" /\ ph'[b] = "park")
  <2>1. CASE Count(a)
    BY <1>0, <2>1, GotoOnly DEF Count
  <2>2. CASE Notify(a)
    BY <1>0, <2>2, NotifyOnly DEF Notify
  <2> QED
    BY <2>1, <2>2
<1>3. todo[a] # {} => Enqueuing(a)'
  BY <1>2 DEF Enqueuing
<1> QED
  BY <1>1, <1>2, <1>3, GraphMove DEF Enqueuing

LEMMA GraphMain ==
    ASSUME SlotInv, Shutdown \/ StopRunning \/ StopNotify PROVE GraphInv'
<1>0. TypeInv
  BY DEF SlotInv
<1>1. /\ ph[Main] \in {"run", "stop", "stopNotify"} /\ UNCHANGED slotVars /\ UNCHANGED done
  BY DEF Shutdown, StopRunning, StopNotify, slotVars, graphVars, queueVars, histVars
<1>2. /\ ph'[Main] \in {"run", "drain", "stopNotify", "join"}
      /\ \A b \in Actors \ {Main} : ph'[b] = ph[b] \/ (ph[b] = "asleep" /\ ph'[b] = "park")
  <2>1. CASE Shutdown
    BY <1>0, <1>1, <2>1, GotoOnly DEF Shutdown
  <2>2. CASE StopRunning
    BY <1>0, <2>2, GotoOnly DEF StopRunning
  <2>3. CASE StopNotify
    BY <1>0, <2>3, NotifyOnly DEF StopNotify
  <2> QED
    BY <2>1, <2>2, <2>3
<1>3. todo[Main] = {}
  BY <1>1 DEF SlotInv, Places, Enqueuing
<1> QED
  BY <1>1, <1>2, <1>3, GraphMove DEF Enqueuing

LEMMA GraphLoadRunning ==
    ASSUME SlotInv, NEW w \in Workers, LoadRunning(w) PROVE GraphInv'
<1>0. TypeInv
  BY DEF SlotInv
<1>1. /\ ph[w] = "loop" /\ \E p \in {"seek", "drain"} : Goto(w, p)
      /\ UNCHANGED slotVars /\ UNCHANGED done
  BY DEF LoadRunning, slotVars, graphVars, queueVars, histVars
<1>2. ph'[w] \in {"seek", "drain"} /\ \A b \in Actors \ {w} : ph'[b] = ph[b]
  BY <1>0, <1>1, GotoOnly
<1>3. todo[w] = {}
  BY <1>1 DEF SlotInv, Places, Enqueuing
<1> QED
  BY <1>1, <1>2, <1>3, GraphMove DEF Enqueuing

LEMMA GraphLeave ==
    ASSUME SlotInv, NEW j \in Jobs, Leave(j) PROVE GraphInv'
<1>0. TypeInv
  BY DEF SlotInv
<1>1. ph[j] = "leave" /\ NotifyAll(j, "dead") /\ UNCHANGED slotVars /\ UNCHANGED done
  BY DEF Leave, slotVars, graphVars, queueVars, histVars
<1>2. /\ ph'[j] = "dead"
      /\ \A b \in Actors \ {j} : ph'[b] = ph[b] \/ (ph[b] = "asleep" /\ ph'[b] = "park")
  BY <1>0, <1>1, NotifyOnly
<1>3. \A b \in Actors \ {j} : Enqueuing(b) <=> Enqueuing(b)'
  BY <1>2 DEF Enqueuing
<1>4. \A k \in Jobs : Released(k)' => Released(k)
  BY <1>1, <1>2, <1>3 DEF Released
<1>5. \A b \in Actors : todo[b] # {} => Enqueuing(b) /\ b # j
  BY <1>1 DEF SlotInv, Places, Enqueuing
<1> QED
  BY <1>1, <1>2, <1>3, <1>4, <1>5, GraphStays

LEMMA GraphReturn ==
    ASSUME SlotInv, NEW j \in Jobs, Return(j) PROVE GraphInv'
<1>0. TypeInv /\ SlotsAnswer /\ Places /\ Waits
  BY DEF SlotInv
<1>1. /\ ph[j] = "run" /\ done' = done \cup {j}
      /\ UNCHANGED <<freeSlots, gen, occupant, remaining, dependents, queue, todo>>
  BY DEF Return, graphVars, queueVars
<1>2. j \notin done
  BY <1>1 DEF SlotInv, DoneFits, Enqueuing
<1>3. /\ ph'[j] = IF handle[j].slot = None THEN "dead" ELSE "complete"
      /\ \A b \in Actors \ {j} : ph'[b] = ph[b]
  BY <1>0, GotoOnly DEF Return
<1>4. /\ \A b \in Actors : Enqueuing(b) <=> Enqueuing(b)'
      /\ \A k \in Jobs : (ph'[k] = "off") <=> (ph[k] = "off")
  BY <1>1, <1>3 DEF Enqueuing
<1>5. \A k \in Jobs \ {j} : Released(k)' <=> Released(k)
  BY <1>1, <1>3, <1>4 DEF Released
<1>6. occupant \in [Slots -> Jobs \cup {None}] /\ handle \in [Jobs -> [slot : Slots \cup {None}, gen : Nat]]
  BY <1>0 DEF TypeInv, TypeOK
<1>7. Places' /\ Waits'
  <2>1. \A s \in Slots : Ripe(s)' <=> Ripe(s)
    BY <1>1, <1>4, <1>6 DEF Ripe
  <2>2. \A w \in Workers : \A i \in DOMAIN queue[w] : queue[w][i] \in Slots
    <3>1. \A w \in Workers : queue[w] \in Seq(Slots)
      BY <1>0 DEF TypeInv, TypeOK
    <3> QED
      BY <3>1
  <2>3. \A a \in Actors : todo[a] \subseteq Slots
    BY <1>0 DEF TypeInv, TypeOK
  <2>4. Places'
    BY <1>0, <1>1, <1>4, <2>1, <2>2, <2>3 DEF Places
  <2>5. \A t \in Slots : Before(t)' = Before(t)
    BY <1>1 DEF Before
  <2>6. \A s \in Slots : dependents[s] \subseteq Slots
    BY <1>0 DEF TypeInv, TypeOK
  <2>7. Waits'
    BY <1>0, <1>1, <1>4, <1>6, <2>5, <2>6 DEF Waits
  <2> QED
    BY <2>4, <2>7
<1>8. CASE handle[j].slot = None
  <2>1. handle' = [handle EXCEPT ![j] = SerialHandle] /\ SerialHandle.slot = None
    BY <1>8 DEF Return, SerialHandle
  <2>2. handle'[j].slot = None /\ \A k \in Jobs \ {j} : handle'[k] = handle[k]
    BY <1>6, <2>1
  <2>3. \A s \in Slots : occupant[s] # j
    BY <1>0, <1>8, MainIsApart DEF SlotsAnswer
  <2>4. SlotsAnswer'
    BY <1>0, <1>1, <1>3, <1>5, <1>6, <1>8, <2>2, <2>3, MainIsApart DEF SlotsAnswer
  <2> QED
    BY <1>7, <2>4 DEF GraphInv
<1>9. CASE handle[j].slot # None
  <2>1. handle' = handle /\ ph'[j] = "complete"
    BY <1>3, <1>9 DEF Return
  <2>2. occupant[handle[j].slot] = j
    BY <1>0, <1>2, <1>9 DEF SlotsAnswer
  <2>3. ~Released(j)'
    BY <2>1 DEF Released, Enqueuing
  <2>4. SlotsAnswer'
    BY <1>0, <1>1, <1>3, <1>5, <1>6, <2>1, <2>2, <2>3 DEF SlotsAnswer
  <2> QED
    BY <1>7, <2>4 DEF GraphInv
<1> QED
  BY <1>8, <1>9

LEMMA GraphJoin ==
    ASSUME SlotInv, Join PROVE GraphInv'
<1>0. TypeInv /\ SlotsAnswer /\ Places /\ Waits
  BY DEF SlotInv
<1>1. /\ UNCHANGED <<freeSlots, gen, occupant, remaining, dependents, handle, todo, done>>
      /\ queue' = [w \in Workers |-> <<>>] /\ ph[Main] = "join"
      /\ ph' = [a \in Actors |-> IF a = Main THEN "run"
                                 ELSE IF a \in Workers THEN "off" ELSE ph[a]]
  BY DEF Join, graphVars, histVars
<1>2. \A j \in Jobs : ph'[j] = ph[j]
  BY <1>1, MainIsApart
<1>3. \A a \in Actors : todo[a] # {} => Enqueuing(a)'
  <2> SUFFICES ASSUME NEW a \in Actors, todo[a] # {} PROVE Enqueuing(a)'
    OBVIOUS
  <2>1. Enqueuing(a)
    BY <1>0 DEF Places
  <2>2. a \in Jobs
    BY <1>1, <2>1, EnqueuersAreBodies DEF Enqueuing
  <2> QED
    BY <1>2, <2>1, <2>2 DEF Enqueuing
<1>4. \A j \in Jobs : Released(j)' <=> Released(j)
  BY <1>1, <1>2 DEF Released, Enqueuing
<1>5. occupant \in [Slots -> Jobs \cup {None}] /\ handle \in [Jobs -> [slot : Slots \cup {None}, gen : Nat]]
  BY <1>0 DEF TypeInv, TypeOK
<1>6. SlotsAnswer'
  BY <1>0, <1>1, <1>2, <1>4, <1>5 DEF SlotsAnswer
<1>7. \A a \in Actors : todo[a] \subseteq Slots
  BY <1>0 DEF TypeInv, TypeOK
<1>8. \A s \in Slots : Ripe(s)' <=> Ripe(s)
  BY <1>1, <1>2, <1>5 DEF Ripe
<1>9. \A w \in Workers : DOMAIN queue'[w] = {}
  BY <1>1
<1>10. Places'
  BY <1>0, <1>1, <1>3, <1>7, <1>8, <1>9 DEF Places
<1>11. \A t \in Slots : Before(t)' = Before(t)
  BY <1>1 DEF Before
<1>12. \A s \in Slots : dependents[s] \subseteq Slots
  BY <1>0 DEF TypeInv, TypeOK
<1>13. Waits'
  BY <1>0, <1>1, <1>2, <1>5, <1>11, <1>12 DEF Waits
<1> QED
  BY <1>6, <1>10, <1>13 DEF GraphInv

LEMMA GraphInline ==
    ASSUME SlotInv, NEW a \in Bodies, RunInline(a) PROVE GraphInv'
<1>0. TypeInv /\ SlotsAnswer /\ Places /\ Waits
  BY DEF SlotInv
<1> DEFINE j == Target(a)
<1>1. /\ ph[a] \in {"run", "alloc"} /\ AtSchedule(a) /\ Call(a, j, "run")
      /\ UNCHANGED slotVars /\ UNCHANGED done
  BY InlineSlot DEF slotVars, graphVars, queueVars
<1>2. j \in Jobs /\ a # j /\ handle[j] = NoHandle /\ ph[j] = "off"
  BY <1>1, TargetIsFresh
<1> HIDE DEF j
<1>3. ph'[a] = "run" /\ ph'[j] = "run" /\ \A b \in Actors \ {a, j} : ph'[b] = ph[b]
  BY <1>0, <1>1, <1>2, CallOnly
<1>4. \A s \in Slots : occupant[s] # j
  <2>1. handle[j].slot = None
    BY <1>2 DEF NoHandle
  <2> QED
    BY <1>0, <2>1, <1>2, MainIsApart DEF SlotsAnswer
<1>5. occupant \in [Slots -> Jobs \cup {None}] /\ handle \in [Jobs -> [slot : Slots \cup {None}, gen : Nat]]
  BY <1>0 DEF TypeInv, TypeOK
<1>6. /\ \A b \in Actors : Enqueuing(b) <=> Enqueuing(b)'
      /\ \A k \in Jobs \ {j} : (ph'[k] = "off") <=> (ph[k] = "off")
      /\ \A k \in Jobs : ph'[k] = "complete" <=> ph[k] = "complete"
  BY <1>1, <1>2, <1>3 DEF Enqueuing
<1>7. \A k \in Jobs : Released(k)' <=> Released(k)
  BY <1>1, <1>2, <1>3, <1>6 DEF Released
<1>8. SlotsAnswer'
  BY <1>0, <1>1, <1>5, <1>6, <1>7 DEF SlotsAnswer, slotVars
<1>9. \A s \in Slots : Ripe(s)' <=> Ripe(s)
  BY <1>1, <1>4, <1>5, <1>6 DEF Ripe, slotVars
<1>10. \A b \in Actors : todo[b] \subseteq Slots
  BY <1>0 DEF TypeInv, TypeOK
<1>11. \A w \in Workers : \A i \in DOMAIN queue[w] : queue[w][i] \in Slots
  <2>1. \A w \in Workers : queue[w] \in Seq(Slots)
    BY <1>0 DEF TypeInv, TypeOK
  <2> QED
    BY <2>1
<1>12. Places'
  BY <1>0, <1>1, <1>6, <1>9, <1>10, <1>11 DEF Places, slotVars
<1>13. \A t \in Slots : Before(t)' = Before(t)
  BY <1>1 DEF Before, slotVars
<1>14. \A s \in Slots : dependents[s] \subseteq Slots
  BY <1>0 DEF TypeInv, TypeOK
<1>15. Waits'
  BY <1>0, <1>1, <1>4, <1>5, <1>6, <1>13, <1>14 DEF Waits, slotVars
<1> QED
  BY <1>8, <1>12, <1>15 DEF GraphInv

-----------------------------------------------------------------------------
LEMMA BeforeIsFinite ==
    \A t : Before(t) \subseteq Slots /\ IsFiniteSet(Before(t))
BY PoolAssumption, FS_Subset DEF Before

LEMMA DependentWaits ==
    ASSUME SlotInv, NEW u \in Slots, NEW t \in dependents[u]
    PROVE  t \in Slots /\ remaining[t] \in Nat \ {0}
<1>1. t \in Slots /\ remaining[t] \in Nat
  BY DEF SlotInv, TypeInv, TypeOK
<1>2. u \in Before(t)
  BY DEF Before
<1>3. IsFiniteSet(Before(t)) /\ Cardinality(Before(t)) # 0
  BY <1>2, BeforeIsFinite, FS_EmptySet
<1> QED
  BY <1>1, <1>3 DEF SlotInv, Waits

LEMMA GraphPush ==
    ASSUME SlotInv, NEW a \in Actors, Push(a) PROVE GraphInv'
<1>0. TypeInv /\ SlotsAnswer /\ Places /\ Waits
  BY DEF SlotInv
<1>1. PICK s \in todo[a], w \in Workers :
          /\ queue' = [queue EXCEPT ![w] = Append(@, s)]
          /\ todo' = [todo EXCEPT ![a] = @ \ {s}]
  BY DEF Push
<1>2. /\ ph[a] = "push" /\ Goto(a, "count")
      /\ UNCHANGED <<freeSlots, gen, occupant, remaining, dependents, handle, done>>
  BY DEF Push, graphVars, histVars
<1>3. ph'[a] = "count" /\ \A b \in Actors \ {a} : ph'[b] = ph[b]
  BY <1>0, <1>2, GotoOnly
<1>4. /\ \A b \in Actors : Enqueuing(b) <=> Enqueuing(b)'
      /\ \A k \in Jobs : /\ (ph'[k] = "off") <=> (ph[k] = "off")
                         /\ ph'[k] = "complete" <=> ph[k] = "complete"
  BY <1>2, <1>3 DEF Enqueuing
<1>5. \A k \in Jobs : Released(k)' <=> Released(k)
  BY <1>2, <1>3, <1>4 DEF Released
<1>6. /\ occupant \in [Slots -> Jobs \cup {None}]
      /\ handle \in [Jobs -> [slot : Slots \cup {None}, gen : Nat]]
      /\ \A b \in Actors : todo[b] \subseteq Slots
      /\ \A v \in Workers : queue[v] \in Seq(Slots) /\ Len(queue[v]) \in Nat
  BY <1>0 DEF TypeInv, TypeOK
<1>7. \A t \in Slots : Ripe(t)' <=> Ripe(t)
  BY <1>2, <1>4, <1>6 DEF Ripe
<1>8. s \in Slots /\ Ripe(s)
  BY <1>0, <1>6 DEF Places
<1> DEFINE n == Len(queue[w]) + 1
<1>9. /\ DOMAIN queue'[w] = 1..n /\ queue'[w][n] = s /\ n \in Nat \ {0}
      /\ \A i \in 1..(n - 1) : queue'[w][i] = queue[w][i]
      /\ DOMAIN queue[w] = 1..(n - 1)
      /\ \A v \in Workers \ {w} : queue'[v] = queue[v]
  <2>1. queue'[w] = Append(queue[w], s) /\ \A v \in Workers \ {w} : queue'[v] = queue[v]
    BY <1>0, <1>1 DEF TypeInv, TypeOK
  <2> QED
    BY <1>6, <1>8, <2>1
<1> HIDE DEF n
<1>10. \A v \in Workers : \A i \in DOMAIN queue'[v] :
          \/ i \in DOMAIN queue[v] /\ queue'[v][i] = queue[v][i]
          \/ v = w /\ i = n /\ queue'[v][i] = s
  BY <1>9
<1>11. /\ todo'[a] = todo[a] \ {s} /\ s \in todo[a]
       /\ \A b \in Actors \ {a} : todo'[b] = todo[b]
  BY <1>0, <1>1 DEF TypeInv, TypeOK
<1>12. \A v \in Workers : \A i \in DOMAIN queue[v] : queue[v][i] \in Slots /\ queue[v][i] # s
  BY <1>0, <1>6, <1>11 DEF Places
<1>13. Places'
  <2>1. \A b \in Actors : todo'[b] # {} => Enqueuing(b)'
    BY <1>0, <1>4, <1>11 DEF Places
  <2>2. \A b \in Actors : \A t \in todo'[b] : Ripe(t)' /\ t # s
    BY <1>0, <1>6, <1>7, <1>11 DEF Places
  <2>3. \A v \in Workers : \A i \in DOMAIN queue'[v] : Ripe(queue[v][i])'
    <3>1. \A v \in Workers : \A i \in DOMAIN queue'[v] :
             queue'[v][i] \in Slots /\ Ripe(queue'[v][i])
      BY <1>0, <1>8, <1>10, <1>12 DEF Places
    <3> QED
      BY <1>7, <3>1 DEF Ripe
  <2>4. \A b, c \in Actors : b # c => todo'[b] \cap todo'[c] = {}
    BY <1>0, <1>11 DEF Places
  <2>5. \A v, u \in Workers : \A i \in DOMAIN queue'[v], k \in DOMAIN queue'[u] :
           queue'[v][i] = queue'[u][k] => v = u /\ i = k
    BY <1>0, <1>10, <1>12 DEF Places
  <2>6. \A b \in Actors : \A v \in Workers : \A i \in DOMAIN queue'[v] : queue'[v][i] \notin todo'[b]
    BY <1>0, <1>10, <1>11, <2>2 DEF Places
  <2> QED
    BY <2>1, <2>2, <2>3, <2>4, <2>5, <2>6 DEF Places
<1>14. SlotsAnswer'
  BY <1>0, <1>2, <1>4, <1>5, <1>6 DEF SlotsAnswer
<1>15. Waits'
  <2>1. \A t \in Slots : Before(t)' = Before(t)
    BY <1>2 DEF Before
  <2>2. \A t \in Slots : dependents[t] \subseteq Slots
    BY <1>0 DEF TypeInv, TypeOK
  <2> QED
    BY <1>0, <1>2, <1>4, <1>6, <2>1, <2>2 DEF Waits
<1> QED
  BY <1>13, <1>14, <1>15 DEF GraphInv

LEMMA GraphTake ==
    ASSUME SlotInv, NEW a \in Actors, NEW w \in Workers, NEW o \in {0, 1}, TakeOf(a, w, o)
    PROVE  GraphInv'
<1> DEFINE s == Taken(w, o)
           j == occupant[s]
           p == IF ph[a] \in {"seek", "steal"} THEN Resume(a) ELSE "drain"
<1>0. TypeInv /\ SlotsAnswer /\ Places /\ Waits
  BY DEF SlotInv
<1>1. s \in Slots /\ Ripe(s) /\ j \in Jobs /\ j # a /\ ph[j] = "off" /\ Call(a, j, p)
  BY TakeJob DEF Ripe
<1>2. /\ ph[a] \in {"seek", "steal", "drain", "drainSteal"} /\ queue[w] # <<>>
      /\ queue' = [queue EXCEPT ![w] = Rest(w, o)]
      /\ UNCHANGED <<freeSlots, gen, occupant, remaining, dependents, handle, todo, done>>
  BY DEF TakeOf, graphVars
<1>3. p \in {"run", "loop", "drain"}
  BY DEF Resume
<1>4. /\ \A i \in 1..Len(Rest(w, o)) :
            Rest(w, o)[i] = queue[w][i + o] /\ i + o \in 1..Len(queue[w])
      /\ \E k \in 1..Len(queue[w]) :
            s = queue[w][k] /\ \A i \in 1..Len(Rest(w, o)) : i + o # k
      /\ Rest(w, o) \in Seq(Slots)
  BY <1>0, <1>2, TakenPlaces
<1>5. j = occupant[s]
  OBVIOUS
<1> HIDE DEF p, j, s
<1>6. ph'[a] = p /\ ph'[j] = "run" /\ \A b \in Actors \ {a, j} : ph'[b] = ph[b]
  BY <1>0, <1>1, CallOnly
<1>7. /\ \A b \in Actors : Enqueuing(b) <=> Enqueuing(b)'
      /\ \A k \in Jobs \ {j} : (ph'[k] = "off") <=> (ph[k] = "off")
      /\ \A k \in Jobs : ph'[k] = "complete" <=> ph[k] = "complete"
  BY <1>1, <1>2, <1>3, <1>6 DEF Enqueuing
<1>8. \A k \in Jobs : Released(k)' <=> Released(k)
  BY <1>1, <1>2, <1>3, <1>6, <1>7 DEF Released
<1>9. /\ occupant \in [Slots -> Jobs \cup {None}]
      /\ handle \in [Jobs -> [slot : Slots \cup {None}, gen : Nat]]
      /\ \A b \in Actors : todo[b] \subseteq Slots
      /\ \A v \in Workers : queue[v] \in Seq(Slots) /\ DOMAIN queue[v] = 1..Len(queue[v])
  BY <1>0 DEF TypeInv, TypeOK
<1>10. SlotsAnswer'
  BY <1>0, <1>2, <1>7, <1>8, <1>9 DEF SlotsAnswer
<1>11. \A t \in Slots : occupant[t] = j => t = s
  BY <1>0, <1>1, <1>5, MainIsApart DEF SlotsAnswer
<1>12. \A t \in Slots \ {s} : Ripe(t)' <=> Ripe(t)
  BY <1>2, <1>7, <1>9, <1>11 DEF Ripe
<1>13. PICK k \in DOMAIN queue[w] :
          s = queue[w][k] /\ \A i \in 1..Len(Rest(w, o)) : i + o # k
  BY <1>4, <1>9
<1>14. /\ queue'[w] = Rest(w, o) /\ DOMAIN queue'[w] = 1..Len(Rest(w, o))
       /\ \A v \in Workers \ {w} : queue'[v] = queue[v]
  <2>1. queue'[w] = Rest(w, o) /\ \A v \in Workers \ {w} : queue'[v] = queue[v]
    BY <1>0, <1>2 DEF TypeInv, TypeOK
  <2> QED
    BY <1>4, <2>1
<1>15. \A v \in Workers : \A i \in DOMAIN queue[v] :
          queue[v][i] \in Slots /\ (queue[v][i] = s => v = w /\ i = k)
  BY <1>0, <1>9, <1>13 DEF Places
<1> DEFINE at(v, i) == IF v = w THEN i + o ELSE i
<1>16. \A v \in Workers : \A i \in DOMAIN queue'[v] :
          /\ at(v, i) \in DOMAIN queue[v] /\ queue'[v][i] = queue[v][at(v, i)]
          /\ queue'[v][i] # s /\ i \in Int
  <2> SUFFICES ASSUME NEW v \in Workers, NEW i \in DOMAIN queue'[v]
               PROVE  /\ at(v, i) \in DOMAIN queue[v] /\ queue'[v][i] = queue[v][at(v, i)]
                      /\ queue'[v][i] # s /\ i \in Int
    OBVIOUS
  <2>1. CASE v = w
    <3>1. i \in 1..Len(Rest(w, o)) /\ at(v, i) = i + o
      BY <1>14, <2>1
    <3>2. at(v, i) \in DOMAIN queue[v] /\ queue'[v][i] = queue[v][at(v, i)] /\ at(v, i) # k
      BY <1>4, <1>9, <1>13, <1>14, <2>1, <3>1
    <3> QED
      BY <1>15, <2>1, <3>1, <3>2
  <2>2. CASE v # w
    <3>1. queue'[v] = queue[v] /\ at(v, i) = i
      BY <1>14, <2>2
    <3>2. i \in 1..Len(queue[v])
      BY <1>9, <3>1
    <3> QED
      BY <1>15, <2>2, <3>1, <3>2
  <2> QED
    BY <2>1, <2>2
<1>17. \A v \in Workers : \A i, m \in Int : at(v, i) = at(v, m) => i = m
  OBVIOUS
<1> HIDE DEF at
<1>18. Places'
  <2>1. \A b \in Actors : todo'[b] # {} => Enqueuing(b)'
    BY <1>0, <1>2, <1>7 DEF Places
  <2>2. \A b \in Actors : \A t \in todo'[b] : Ripe(t)'
    <3>1. \A b \in Actors : s \notin todo[b]
      BY <1>0, <1>13 DEF Places
    <3> QED
      BY <1>0, <1>2, <1>9, <1>12, <3>1 DEF Places
  <2>3. \A v \in Workers : \A i \in DOMAIN queue'[v] : Ripe(queue[v][i])'
    <3>1. \A v \in Workers : \A i \in DOMAIN queue'[v] :
             queue'[v][i] \in Slots \ {s} /\ Ripe(queue'[v][i])
      BY <1>0, <1>15, <1>16 DEF Places
    <3> QED
      BY <1>12, <3>1 DEF Ripe
  <2>4. \A b, c \in Actors : b # c => todo'[b] \cap todo'[c] = {}
    BY <1>0, <1>2 DEF Places
  <2>5. \A v, u \in Workers : \A i \in DOMAIN queue'[v], m \in DOMAIN queue'[u] :
           queue'[v][i] = queue'[u][m] => v = u /\ i = m
    <3> SUFFICES ASSUME NEW v \in Workers, NEW u \in Workers, NEW i \in DOMAIN queue'[v],
                        NEW m \in DOMAIN queue'[u], queue'[v][i] = queue'[u][m]
                 PROVE  v = u /\ i = m
      OBVIOUS
    <3>1. v = u /\ at(v, i) = at(u, m)
      BY <1>0, <1>16 DEF Places
    <3> QED
      BY <1>16, <1>17, <3>1
  <2>6. \A b \in Actors : \A v \in Workers : \A i \in DOMAIN queue'[v] : queue'[v][i] \notin todo'[b]
    BY <1>0, <1>2, <1>16 DEF Places
  <2> QED
    BY <2>1, <2>2, <2>3, <2>4, <2>5, <2>6 DEF Places
<1>19. Waits'
  <2>1. \A t \in Slots : Before(t)' = Before(t)
    BY <1>2 DEF Before
  <2>2. \A u \in Slots : \A t \in dependents[u] : t \in Slots \ {s}
    <3>1. remaining[s] = 0
      BY <1>1 DEF Ripe
    <3> QED
      BY <3>1, DependentWaits
  <2>3. \A u \in Slots : \A t \in dependents[u] : ph'[occupant[t]] = "off"
    BY <1>0, <1>7, <1>9, <1>11, <2>2 DEF Waits
  <2> QED
    BY <1>0, <1>2, <2>1, <2>3 DEF Waits
<1> QED
  BY <1>10, <1>18, <1>19 DEF GraphInv

\* The slots of distinct unfinished jobs are distinct.
LEMMA LiveSlots ==
    ASSUME SlotInv, NEW L \in SUBSET Jobs, \A d \in L : ~Finished(handle[d])
    PROVE  /\ \A d \in L : handle[d].slot \in Slots /\ occupant[handle[d].slot] = d
           /\ IsFiniteSet(L)
           /\ Cardinality({handle[d].slot : d \in L}) = Cardinality(L)
<1>1. handle \in [Jobs -> [slot : Slots \cup {None}, gen : Nat]]
  BY DEF SlotInv, TypeInv, TypeOK
<1>2. \A d \in L : handle[d].slot \in Slots /\ occupant[handle[d].slot] = d
  BY <1>1 DEF Finished, SlotInv, SlotsAnswer
<1>3. IsFiniteSet(L)
  BY PoolAssumption, FS_Subset
<1> DEFINE T == {handle[d].slot : d \in L}
           f == [d \in L |-> handle[d].slot]
<1>4. f \in [L -> T] /\ (\A t \in T : \E d \in L : f[d] = t)
      /\ \A d, e \in L : f[d] = f[e] => d = e
  BY <1>2
<1> HIDE DEF f, T
<1>5. f \in Bijection(L, T)
  BY <1>4 DEF Bijection, Injection, Surjection, IsInjective
<1>6. Cardinality(T) = Cardinality(L)
  BY <1>3, <1>5, FS_Bijection DEF ExistsBijection
<1> QED
  BY <1>2, <1>3, <1>6 DEF T

LEMMA GraphAllocate ==
    ASSUME SlotInv, NEW a \in Bodies, Allocate(a) PROVE GraphInv'
<1> DEFINE j == Target(a)
           live == LiveDeps(j)
<1>0. TypeInv /\ SlotsAnswer /\ Places /\ Waits
  BY DEF SlotInv
<1>1. PICK s \in freeSlots : s \in Slots /\ AllocateAt(a, s)
  BY AllocateSlot
<1>2. /\ ph[a] = "alloc" /\ AtSchedule(a)
      /\ UNCHANGED <<gen, queue, done>>
  BY AllocateSlot DEF queueVars
<1>3. j \in Jobs /\ a # j /\ handle[j] = NoHandle /\ ph[j] = "off"
  BY <1>2, TargetIsFresh
<1>4. /\ \A b \in Actors \ {a} : ph'[b] = ph[b]
      /\ ph'[a] = IF live = {} THEN "push" ELSE "run"
  BY <1>1, <1>2, AllocateMoves
<1>5. /\ occupant \in [Slots -> Jobs \cup {None}] /\ gen \in [Slots -> Nat]
      /\ handle \in [Jobs -> [slot : Slots \cup {None}, gen : Nat]]
      /\ remaining \in [Slots -> Nat] /\ dependents \in [Slots -> SUBSET Slots]
      /\ todo \in [Actors -> SUBSET Slots]
      /\ \A v \in Workers : \A i \in DOMAIN queue[v] : queue[v][i] \in Slots
  <2>1. \A v \in Workers : queue[v] \in Seq(Slots)
    BY <1>0 DEF TypeInv, TypeOK
  <2> QED
    BY <1>0, <2>1 DEF TypeInv, TypeOK
<1>6. /\ freeSlots' = freeSlots \ {s}
      /\ occupant' = [occupant EXCEPT ![s] = j]
      /\ remaining' = [remaining EXCEPT ![s] = Cardinality(live)]
      /\ dependents' = [t \in Slots |->
             IF t = s THEN {}
             ELSE IF \E d \in live : handle[d].slot = t
                  THEN dependents[t] \cup {s} ELSE dependents[t]]
      /\ handle' = [handle EXCEPT ![j] = [slot |-> s, gen |-> gen[s]]]
      /\ todo' = IF live = {} THEN [todo EXCEPT ![a] = {s}] ELSE todo
  BY <1>1 DEF AllocateAt
<1>7. live \subseteq Jobs /\ \A d \in live : ~Finished(handle[d])
  BY <1>3, PoolAssumption DEF LiveDeps
<1> HIDE DEF j, live
<1>8. occupant[s] = None /\ dependents[s] = {} /\ \A u \in Slots : s \notin dependents[u]
  BY <1>0, <1>1 DEF SlotsAnswer, Waits
<1>9. /\ \A b \in Actors \ {a} : Enqueuing(b) <=> Enqueuing(b)'
      /\ Enqueuing(a)' <=> live = {}
      /\ \A k \in Jobs : /\ (ph'[k] = "off") <=> (ph[k] = "off")
                         /\ ph'[k] = "complete" <=> ph[k] = "complete"
  BY <1>2, <1>4 DEF Enqueuing
<1>10. a \notin done
  BY <1>2, MainIsApart DEF SlotInv, DoneFits, Enqueuing, TypeInv, TypeOK
<1>11. \A k \in Jobs : Released(k)' <=> Released(k)
  BY <1>2, <1>4, <1>9, <1>10 DEF Released, Enqueuing
<1>12. /\ handle'[j].slot = s /\ handle'[j].gen = gen[s]
       /\ \A k \in Jobs \ {j} : handle'[k] = handle[k]
       /\ occupant'[s] = j /\ \A t \in Slots \ {s} : occupant'[t] = occupant[t]
       /\ handle[j].slot = None
  BY <1>1, <1>3, <1>5, <1>6 DEF NoHandle
<1>13. SlotsAnswer'
  <2>1. ~Released(j) /\ ph'[j] # "complete"
    BY <1>3, <1>9 DEF Released, Enqueuing
  <2>2. ASSUME NEW t \in Slots, occupant'[t] # None
        PROVE  /\ t \notin freeSlots' /\ handle'[occupant'[t]].slot = t
               /\ handle'[occupant'[t]].gen = gen'[t] /\ ~Released(occupant[t])'
    <3>1. CASE t = s
      BY <1>2, <1>3, <1>6, <1>11, <1>12, <2>1, <3>1 DEF Released, Enqueuing
    <3>2. CASE t # s
      <4>1. occupant[t] \in Jobs \ {j}
        BY <1>0, <1>5, <1>12, <2>2, <3>2, MainIsApart DEF SlotsAnswer
      <4>2. ~Released(occupant[t])
        BY <1>0, <4>1, MainIsApart DEF SlotsAnswer
      <4>3. occupant'[t] = occupant[t]
        BY <1>12, <3>2
      <4>4. ~(ph'[occupant'[t]] \in {"leave", "dead"}
              \/ (ph'[occupant'[t]] \in {"push", "count", "notify"} /\ occupant'[t] \in done'))
        BY <1>11, <4>1, <4>2, <4>3 DEF Released, Enqueuing
      <4>5. t \notin freeSlots' /\ handle'[occupant'[t]].slot = t
            /\ handle'[occupant'[t]].gen = gen'[t]
        BY <1>0, <1>2, <1>6, <1>12, <4>1, <4>3, MainIsApart DEF SlotsAnswer
      <4> QED
        BY <4>4, <4>5 DEF Released, Enqueuing
    <3> QED
      BY <3>1, <3>2
  <2>3. ASSUME NEW k \in Jobs, handle'[k].slot # None
        PROVE  /\ handle'[k].gen <= gen'[handle'[k].slot]
               /\ handle'[k].gen = gen'[handle'[k].slot] => occupant'[handle'[k].slot] = k
               /\ handle'[k].gen # gen'[handle'[k].slot] => k \in done'
    <3>1. CASE k = j
      BY <1>1, <1>2, <1>5, <1>12, <3>1
    <3>2. CASE k # j
      <4>1. handle'[k] = handle[k] /\ handle[k].slot \in Slots /\ k # None
        BY <1>5, <1>12, <2>3, <3>2, MainIsApart
      <4> QED
        BY <1>0, <1>2, <1>8, <1>12, <2>3, <4>1 DEF SlotsAnswer
    <3> QED
      BY <3>1, <3>2
  <2>4. ASSUME NEW k \in Jobs, handle'[k].slot = None
        PROVE  handle'[k] = NoHandle \/ k \in done'
    BY <1>0, <1>1, <1>2, <1>12, <2>4, MainIsApart DEF SlotsAnswer
  <2>5. ASSUME NEW k \in Jobs, ph'[k] = "complete" PROVE occupant'[handle'[k].slot] = k
    <3>1. k # j /\ ph[k] = "complete"
      BY <1>9, <2>1, <2>5
    <3>2. handle'[k] = handle[k] /\ occupant[handle[k].slot] = k /\ handle[k].slot \in Slots
      BY <1>0, <1>12, <3>1 DEF SlotsAnswer, TypeInv, CompleteHasSlot
    <3> QED
      BY <1>8, <1>12, <3>2, MainIsApart
  <2> QED
    BY <2>2, <2>3, <2>4, <2>5 DEF SlotsAnswer
<1>14. Places'
  <2>0. todo[a] = {}
    BY <1>0, <1>2 DEF Places, Enqueuing
  <2>1. /\ \A b \in Actors \ {a} : todo'[b] = todo[b]
        /\ todo'[a] = IF live = {} THEN {s} ELSE {}
    BY <1>5, <1>6, <2>0
  <2>2. \A t \in Slots : Ripe(t) => t # s /\ Ripe(t)'
    <3> SUFFICES ASSUME NEW t \in Slots, Ripe(t) PROVE t # s /\ Ripe(t)'
      OBVIOUS
    <3>1. t # s /\ occupant[t] \in Jobs
      BY <1>5, <1>8 DEF Ripe
    <3>2. occupant'[t] = occupant[t] /\ remaining'[t] = remaining[t]
      BY <1>5, <1>6, <3>1
    <3> QED
      BY <1>9, <3>1, <3>2 DEF Ripe
  <2>3. live = {} => Ripe(s)'
    <3> SUFFICES ASSUME live = {} PROVE Ripe(s)'
      OBVIOUS
    <3>1. remaining'[s] = 0
      BY <1>1, <1>5, <1>6, FS_EmptySet
    <3>2. occupant'[s] = j /\ ph'[j] = "off" /\ j # None
      BY <1>3, <1>9, <1>12, MainIsApart
    <3> QED
      BY <3>1, <3>2 DEF Ripe
  <2>4. \A b \in Actors : todo'[b] # {} => Enqueuing(b)'
    BY <1>0, <1>9, <2>1 DEF Places
  <2>5. \A b \in Actors : \A t \in todo'[b] : Ripe(t)'
    BY <1>0, <1>5, <2>1, <2>2, <2>3 DEF Places
  <2>6. \A v \in Workers : \A i \in DOMAIN queue[v] : Ripe(queue[v][i])
    BY <1>0 DEF Places
  <2>7. \A v \in Workers : \A i \in DOMAIN queue'[v] : Ripe(queue[v][i])'
    <3> SUFFICES ASSUME NEW v \in Workers, NEW i \in DOMAIN queue[v] PROVE Ripe(queue[v][i])'
      BY <1>2
    <3>1. \A t : t = queue[v][i] => Ripe(t)'
      BY <1>5, <2>2, <2>6
    <3> QED
      BY <1>2, <3>1 DEF Ripe
  <2>8. \A b, c \in Actors : b # c => todo'[b] \cap todo'[c] = {}
    BY <1>0, <1>5, <2>1, <2>2 DEF Places
  <2>9. \A v, u \in Workers : \A i \in DOMAIN queue'[v], m \in DOMAIN queue'[u] :
           queue'[v][i] = queue'[u][m] => v = u /\ i = m
    BY <1>0, <1>2 DEF Places
  <2>10. \A b \in Actors : \A v \in Workers : \A i \in DOMAIN queue'[v] : queue'[v][i] \notin todo'[b]
    BY <1>0, <1>2, <1>5, <2>1, <2>2, <2>6 DEF Places
  <2> QED
    BY <2>4, <2>5, <2>7, <2>8, <2>9, <2>10 DEF Places
<1>15. Waits'
  <2>0. /\ \A d \in live : handle[d].slot \in Slots /\ occupant[handle[d].slot] = d
        /\ Cardinality({handle[d].slot : d \in live}) = Cardinality(live)
    BY <1>7, LiveSlots
  <2>1. \A t \in Slots : /\ t = s => dependents'[t] = {}
                         /\ dependents'[t] \subseteq dependents[t] \cup {s}
                         /\ dependents[t] \subseteq dependents'[t] \/ t = s
                         /\ s \in dependents'[t] <=> \E d \in live : handle[d].slot = t
    BY <1>6, <1>7, <1>8, <2>0, MainIsApart
  <2>2. \A t \in Slots : occupant'[t] = None => dependents'[t] = {}
    BY <1>0, <1>7, <1>12, <2>0, <2>1, MainIsApart DEF Waits
  <2>3. \A u \in Slots : \A t \in dependents'[u] : occupant'[t] # None /\ ph'[occupant'[t]] = "off"
    <3> SUFFICES ASSUME NEW u \in Slots, NEW t \in dependents'[u]
                 PROVE  occupant'[t] # None /\ ph'[occupant'[t]] = "off"
      OBVIOUS
    <3>1. CASE t = s
      BY <1>3, <1>9, <1>12, <3>1, MainIsApart
    <3>2. CASE t # s
      <4>1. t \in dependents[u] /\ t \in Slots
        BY <1>5, <2>1, <3>2
      <4>2. occupant[t] \in Jobs /\ ph[occupant[t]] = "off"
        BY <1>0, <1>5, <4>1 DEF Waits
      <4>3. occupant'[t] = occupant[t]
        BY <1>12, <3>2, <4>1
      <4> QED
        BY <1>9, <4>2, <4>3, MainIsApart
    <3> QED
      BY <3>1, <3>2
  <2>4. \A t \in Slots : remaining'[t] = Cardinality(Before(t))'
    <3> SUFFICES ASSUME NEW t \in Slots
                 PROVE  remaining'[t] = Cardinality({u \in Slots : t \in dependents'[u]})
      BY DEF Before
    <3>1. CASE t = s
      <4>1. {u \in Slots : t \in dependents'[u]} = {handle[d].slot : d \in live}
        BY <2>0, <2>1, <3>1
      <4>2. remaining'[s] = Cardinality(live)
        BY <1>1, <1>5, <1>6
      <4> QED
        BY <2>0, <3>1, <4>1, <4>2
    <3>2. CASE t # s
      <4>1. {u \in Slots : t \in dependents'[u]} = Before(t)
        BY <1>8, <2>1, <3>2 DEF Before
      <4>2. remaining'[t] = remaining[t]
        BY <1>5, <1>6, <3>2
      <4> QED
        BY <1>0, <4>1, <4>2 DEF Waits
    <3> QED
      BY <3>1, <3>2
  <2> QED
    BY <2>2, <2>3, <2>4 DEF Waits
<1> QED
  BY <1>13, <1>14, <1>15 DEF GraphInv

LEMMA GraphComplete ==
    ASSUME SlotInv, NEW j \in Jobs, Complete(j) PROVE GraphInv'
<1> DEFINE s == handle[j].slot
<1>0. TypeInv /\ SlotsAnswer /\ Places /\ Waits
  BY DEF SlotInv
<1>1. /\ ph[j] = "complete" /\ s \in Slots /\ j \in done
      /\ occupant[s] = j /\ handle[j].gen = gen[s]
  BY <1>0, MainIsApart DEF Complete, TypeInv, CompleteHasSlot, SlotsAnswer, SlotInv, DoneFits
<1>2. /\ remaining' = [t \in Slots |->
             IF t \in dependents[s] /\ remaining[t] > 0 THEN remaining[t] - 1
             ELSE remaining[t]]
      /\ occupant' = [occupant EXCEPT ![s] = None]
      /\ dependents' = [dependents EXCEPT ![s] = {}]
      /\ gen' = [gen EXCEPT ![s] = @ + 1]
      /\ freeSlots' = freeSlots \cup {s}
      /\ todo' = [todo EXCEPT ![j] = Ready(s)]
      /\ Goto(j, IF Ready(s) = {} THEN "leave" ELSE "push")
      /\ UNCHANGED <<queue, handle, done>>
  BY DEF Complete, ReleaseSlot, queueVars, histVars
<1> HIDE DEF s
<1>3. /\ occupant \in [Slots -> Jobs \cup {None}] /\ gen \in [Slots -> Nat]
      /\ handle \in [Jobs -> [slot : Slots \cup {None}, gen : Nat]]
      /\ remaining \in [Slots -> Nat] /\ dependents \in [Slots -> SUBSET Slots]
      /\ todo \in [Actors -> SUBSET Slots]
      /\ \A v \in Workers : \A i \in DOMAIN queue[v] : queue[v][i] \in Slots
  <2>1. \A v \in Workers : queue[v] \in Seq(Slots)
    BY <1>0 DEF TypeInv, TypeOK
  <2> QED
    BY <1>0, <2>1 DEF TypeInv, TypeOK
<1>4. /\ ph'[j] = IF Ready(s) = {} THEN "leave" ELSE "push"
      /\ \A b \in Actors \ {j} : ph'[b] = ph[b]
  BY <1>0, <1>2, GotoOnly
<1>5. /\ \A b \in Actors \ {j} : Enqueuing(b) <=> Enqueuing(b)'
      /\ Enqueuing(j)' <=> Ready(s) # {}
      /\ ~Enqueuing(j)
      /\ \A k \in Jobs : (ph'[k] = "off") <=> (ph[k] = "off")
      /\ \A k \in Jobs : ph'[k] = "complete" => ph[k] = "complete" /\ k # j
  BY <1>1, <1>4 DEF Enqueuing
<1>6. \A k \in Jobs \ {j} : Released(k)' <=> Released(k)
  BY <1>2, <1>4, <1>5 DEF Released
<1>7. /\ occupant'[s] = None /\ \A t \in Slots \ {s} : occupant'[t] = occupant[t]
      /\ gen'[s] = gen[s] + 1 /\ \A t \in Slots \ {s} : gen'[t] = gen[t]
      /\ dependents'[s] = {} /\ \A t \in Slots \ {s} : dependents'[t] = dependents[t]
  BY <1>1, <1>2, <1>3
<1>8. \A u \in Slots : s \notin dependents[u]
  BY <1>0, <1>1 DEF Waits
<1>9. SlotsAnswer'
  <2>1. ASSUME NEW t \in Slots, occupant'[t] # None
        PROVE  /\ t \notin freeSlots' /\ handle'[occupant'[t]].slot = t
               /\ handle'[occupant'[t]].gen = gen'[t] /\ ~Released(occupant[t])'
    <3>1. t # s /\ occupant'[t] = occupant[t]
      BY <1>7, <2>1
    <3>2. occupant[t] \in Jobs /\ handle[occupant[t]].slot = t
      BY <1>0, <1>3, <2>1, <3>1 DEF SlotsAnswer
    <3>3. occupant[t] # j
      BY <3>1, <3>2 DEF s
    <3>4. ~Released(occupant[t])
      BY <1>0, <2>1, <3>1 DEF SlotsAnswer
    <3>5. ~(ph'[occupant'[t]] \in {"leave", "dead"}
            \/ (ph'[occupant'[t]] \in {"push", "count", "notify"} /\ occupant'[t] \in done'))
      BY <1>6, <3>1, <3>2, <3>3, <3>4 DEF Released, Enqueuing
    <3>6. t \notin freeSlots' /\ handle'[occupant'[t]].slot = t
            /\ handle'[occupant'[t]].gen = gen'[t]
      BY <1>0, <1>2, <1>7, <2>1, <3>1 DEF SlotsAnswer
    <3> QED
      BY <3>5, <3>6 DEF Released, Enqueuing
  <2>2. ASSUME NEW k \in Jobs, handle'[k].slot # None
        PROVE  /\ handle'[k].gen <= gen'[handle'[k].slot]
               /\ handle'[k].gen = gen'[handle'[k].slot] => occupant'[handle'[k].slot] = k
               /\ handle'[k].gen # gen'[handle'[k].slot] => k \in done'
    <3>1. handle'[k] = handle[k] /\ handle[k].slot \in Slots /\ handle[k].gen \in Nat
      BY <1>2, <1>3, <2>2
    <3>2. CASE handle[k].slot = s
      <4>1. handle[k].gen <= gen[s] /\ gen[s] \in Nat
        BY <1>0, <1>1, <1>3, <3>2, MainIsApart DEF SlotsAnswer
      <4>2. k \in done
        BY <1>0, <1>1, <3>2, MainIsApart DEF SlotsAnswer
      <4> QED
        BY <1>2, <1>7, <3>1, <3>2, <4>1, <4>2
    <3>3. CASE handle[k].slot # s
      BY <1>0, <1>2, <1>7, <2>2, <3>1, <3>3 DEF SlotsAnswer
    <3> QED
      BY <3>2, <3>3
  <2>3. ASSUME NEW k \in Jobs, handle'[k].slot = None
        PROVE  handle'[k] = NoHandle \/ k \in done'
    BY <1>0, <1>2, <2>3 DEF SlotsAnswer
  <2>4. ASSUME NEW k \in Jobs, ph'[k] = "complete" PROVE occupant'[handle'[k].slot] = k
    <3>1. ph[k] = "complete" /\ k # j
      BY <1>5, <2>4
    <3>2. occupant[handle[k].slot] = k /\ handle[k].slot \in Slots
      BY <1>0, <3>1 DEF SlotsAnswer, TypeInv, CompleteHasSlot
    <3>3. handle[k].slot # s
      BY <1>1, <3>1, <3>2
    <3> QED
      BY <1>2, <1>7, <3>2, <3>3
  <2> QED
    BY <2>1, <2>2, <2>3, <2>4 DEF SlotsAnswer
<1>10. \A t \in Ready(s) : /\ t \in Slots /\ t # s /\ remaining[t] = 1 /\ t \in dependents[s]
                           /\ occupant[t] \in Jobs /\ ph[occupant[t]] = "off"
  BY <1>0, <1>1, <1>3, <1>8 DEF Ready, Waits
<1>11. \A t \in Slots : Ripe(t) => t # s /\ t \notin Ready(s)
  BY <1>1, <1>10 DEF Ripe
<1>12. \A t \in Slots : Ripe(t) \/ t \in Ready(s) => Ripe(t)'
  <2> SUFFICES ASSUME NEW t \in Slots, Ripe(t) \/ t \in Ready(s) PROVE Ripe(t)'
    OBVIOUS
  <2>1. t # s /\ occupant[t] \in Jobs /\ ph[occupant[t]] = "off"
    BY <1>3, <1>10, <1>11 DEF Ripe
  <2>2. remaining'[t] = 0
    BY <1>2, <1>3, <1>10 DEF Ripe
  <2>3. occupant'[t] = occupant[t] /\ occupant[t] # None
    BY <1>7, <2>1, MainIsApart
  <2> QED
    BY <1>5, <2>1, <2>2, <2>3 DEF Ripe
<1>13. Places'
  <2>0. todo[j] = {}
    BY <1>0, <1>5 DEF Places
  <2>1. /\ \A b \in Actors \ {j} : todo'[b] = todo[b]
        /\ todo'[j] = Ready(s)
    BY <1>2, <1>3
  <2>2. \A b \in Actors : todo'[b] # {} => Enqueuing(b)'
    BY <1>0, <1>5, <2>1 DEF Places
  <2>3. \A b \in Actors : \A t \in todo'[b] : Ripe(t)'
    BY <1>0, <1>3, <1>10, <1>12, <2>1 DEF Places
  <2>4. \A v \in Workers : \A i \in DOMAIN queue[v] : Ripe(queue[v][i])
    BY <1>0 DEF Places
  <2>5. \A v \in Workers : \A i \in DOMAIN queue'[v] : Ripe(queue[v][i])'
    <3> SUFFICES ASSUME NEW v \in Workers, NEW i \in DOMAIN queue[v] PROVE Ripe(queue[v][i])'
      BY <1>2
    <3>1. \A t : t = queue[v][i] => Ripe(t)'
      BY <1>3, <1>12, <2>4
    <3> QED
      BY <1>2, <3>1 DEF Ripe
  <2>6. \A b, c \in Actors : b # c => todo'[b] \cap todo'[c] = {}
    <3>1. \A b \in Actors : Ready(s) \cap todo[b] = {}
      BY <1>0, <1>3, <1>11 DEF Places
    <3> QED
      BY <1>0, <2>1, <3>1 DEF Places
  <2>7. \A v, u \in Workers : \A i \in DOMAIN queue'[v], m \in DOMAIN queue'[u] :
           queue'[v][i] = queue'[u][m] => v = u /\ i = m
    BY <1>0, <1>2 DEF Places
  <2>8. \A b \in Actors : \A v \in Workers : \A i \in DOMAIN queue'[v] : queue'[v][i] \notin todo'[b]
    <3>1. \A v \in Workers : \A i \in DOMAIN queue[v] : queue[v][i] \notin Ready(s)
      BY <1>3, <1>11, <2>4
    <3> QED
      BY <1>0, <1>2, <2>1, <3>1 DEF Places
  <2> QED
    BY <2>2, <2>3, <2>5, <2>6, <2>7, <2>8 DEF Places
<1>14. Waits'
  <2>1. \A t \in Slots : occupant'[t] = None => dependents'[t] = {}
    BY <1>0, <1>7 DEF Waits
  <2>2. \A u \in Slots : \A t \in dependents'[u] : occupant'[t] # None /\ ph'[occupant'[t]] = "off"
    <3> SUFFICES ASSUME NEW u \in Slots, NEW t \in dependents'[u]
                 PROVE  occupant'[t] # None /\ ph'[occupant'[t]] = "off"
      OBVIOUS
    <3>1. t \in dependents[u] /\ t \in Slots /\ t # s
      BY <1>3, <1>7, <1>8
    <3>2. occupant[t] \in Jobs /\ ph[occupant[t]] = "off" /\ occupant'[t] = occupant[t]
      BY <1>0, <1>3, <1>7, <3>1 DEF Waits
    <3> QED
      BY <1>5, <3>2, MainIsApart
  <2>3. \A t \in Slots : remaining'[t] = Cardinality(Before(t))'
    <3> SUFFICES ASSUME NEW t \in Slots
                 PROVE  remaining'[t] = Cardinality({u \in Slots : t \in dependents'[u]})
      BY DEF Before
    <3>1. {u \in Slots : t \in dependents'[u]} = Before(t) \ {s}
      BY <1>1, <1>7 DEF Before
    <3>2. Cardinality(Before(t) \ {s}) =
             IF s \in Before(t) THEN Cardinality(Before(t)) - 1 ELSE Cardinality(Before(t))
      BY BeforeIsFinite, FS_RemoveElement
    <3>3. s \in Before(t) <=> t \in dependents[s]
      BY <1>1 DEF Before
    <3>4. remaining[t] = Cardinality(Before(t)) /\ remaining[t] \in Nat
      BY <1>0, <1>3 DEF Waits
    <3>5. t \in dependents[s] => remaining[t] # 0
      BY <1>1, DependentWaits
    <3>6. remaining'[t] = IF t \in dependents[s] /\ remaining[t] > 0 THEN remaining[t] - 1
                          ELSE remaining[t]
      BY <1>2
    <3>7. Cardinality(Before(t) \ {s}) = IF t \in dependents[s] THEN remaining[t] - 1
                                         ELSE remaining[t]
      BY <3>2, <3>3, <3>4
    <3>8. remaining'[t] = Cardinality(Before(t) \ {s})
      <4>1. CASE t \in dependents[s]
        <5>1. remaining[t] > 0
          BY <3>4, <3>5, <4>1
        <5> QED
          BY <3>6, <3>7, <4>1, <5>1
      <4>2. CASE t \notin dependents[s]
        BY <3>6, <3>7, <4>2
      <4> QED
        BY <4>1, <4>2
    <3> QED
      BY <3>1, <3>8
  <2> QED
    BY <2>1, <2>2, <2>3 DEF Waits
<1> QED
  BY <1>9, <1>13, <1>14 DEF GraphInv

-----------------------------------------------------------------------------
\* init resets the generations of the slots, so a handle of an earlier life of the
\* pool would name a job of the next.  The theorems below are about the programs
\* that do not start a pool again once they have shut it down, as the engine's own.
OneLife == \A i, k \in 1..Len(Body[Main]) :
              Body[Main][i].op = "shutdown" /\ Body[Main][k].op = "init" => k < i

LEMMA GraphInitPool ==
    ASSUME OneLife, SlotInv, InitPool PROVE GraphInv'
<1>0. TypeInv /\ SlotsAnswer /\ Places /\ Waits
  BY DEF SlotInv
<1>1. /\ ph[Main] = "run" /\ AtOp(Main, "init")
      /\ UNCHANGED <<remaining, dependents, queue, todo, handle, done>>
  BY DEF InitPool, queueVars, histVars
<1>2. CASE running
  <2>1. UNCHANGED slotVars /\ ph' = ph /\ UNCHANGED done
    BY <1>1, <1>2 DEF InitPool, slotVars
  <2> QED
    BY <1>0, <2>1, GraphStays DEF Released, Enqueuing, Places
<1>3. CASE ~running
  <2>1. /\ freeSlots' = Slots /\ gen' = [s \in Slots |-> 1]
        /\ occupant' = [s \in Slots |-> None]
        /\ ph' = [a \in Actors |-> IF a \in Workers THEN "loop" ELSE ph[a]]
    BY <1>3 DEF InitPool
  <2>2. Serial /\ Early
    <3>1. Serial
      BY <1>1, <1>3 DEF Serial
    <3>2. pc[Main] \in 1..Len(Body[Main]) /\ Body[Main][pc[Main]].op = "init"
      BY <1>1 DEF AtOp
    <3>3. Len(Body[Main]) \in Nat /\ pc[Main] \in Nat
      BY PoolAssumption, <3>2
    <3>4. \A i \in 1..(pc[Main] - 1) : i \in 1..Len(Body[Main]) /\ ~(pc[Main] < i)
      BY <3>2, <3>3
    <3> QED
      BY <3>1, <3>2, <3>4 DEF OneLife, Early
  <2>3. /\ \A j \in Jobs : handle[j].slot = None
        /\ \A b \in Bodies : ph[b] \in {"off", "run", "dead"}
    BY <2>2 DEF SlotInv, FirstIsClean
  <2>4. \A j \in Jobs : ph'[j] = ph[j]
    BY <2>1, MainIsApart
  <2>5. \A s \in Slots : occupant[s] = None
    <3>1. occupant \in [Slots -> Jobs \cup {None}]
      BY <1>0 DEF TypeInv, TypeOK
    <3> QED
      BY <1>0, <2>3, <3>1, MainIsApart DEF SlotsAnswer
  <2>6. \A a \in Actors : todo[a] = {}
    <3>1. \A a \in Actors : todo[a] \subseteq Slots
      BY <1>0 DEF TypeInv, TypeOK
    <3> QED
      BY <1>0, <2>5, <3>1 DEF Places, Ripe
  <2>7. \A w \in Workers : DOMAIN queue[w] = {}
    <3>1. \A w \in Workers : \A i \in DOMAIN queue[w] : queue[w][i] \in Slots
      <4>1. \A w \in Workers : queue[w] \in Seq(Slots)
        BY <1>0 DEF TypeInv, TypeOK
      <4> QED
        BY <4>1
    <3> QED
      BY <1>0, <2>5, <3>1 DEF Places, Ripe
  <2>8. SlotsAnswer'
    <3>1. \A s \in Slots : occupant'[s] = None
      BY <2>1
    <3>2. \A j \in Jobs : ph'[j] # "complete"
      BY <2>3, <2>4
    <3> QED
      BY <1>0, <1>1, <2>3, <3>1, <3>2 DEF SlotsAnswer
  <2>9. Places'
    BY <1>1, <2>6, <2>7 DEF Places
  <2>10. Waits'
    <3>1. \A t \in Slots : Before(t)' = Before(t) /\ dependents[t] = {}
      BY <1>0, <1>1, <2>5 DEF Before, Waits
    <3> QED
      BY <1>0, <1>1, <3>1 DEF Waits
  <2> QED
    BY <2>8, <2>9, <2>10 DEF GraphInv
<1> QED
  BY <1>2, <1>3

LEMMA StepGraph == ASSUME OneLife, SlotInv, [Next]_vars PROVE GraphInv'
<1>1. CASE \E a \in Bodies : BodyStep(a)
  BY <1>1, GraphBody, GraphAllocate, GraphInline DEF BodyStep
<1>2. CASE \E a \in Actors : HelpStep(a)
  <2>1. PICK a \in Actors : HelpStep(a)
    BY <1>2
  <2>2. CASE PopLocal(a) \/ Steal(a)
    BY <2>2, TakeCases, GraphTake, GraphHelp DEF SlotInv
  <2> QED
    BY <2>1, <2>2, GraphHelp DEF HelpStep
<1>3. CASE \E a \in Actors : EnqueueStep(a)
  BY <1>3, GraphPush, GraphCountNotify DEF EnqueueStep
<1>4. CASE \E j \in Jobs : JobStep(j)
  BY <1>4, GraphReturn, GraphComplete, GraphLeave DEF JobStep
<1>5. CASE \E w \in Workers : LoadRunning(w)
  BY <1>5, GraphLoadRunning
<1>6. CASE MainStep
  BY <1>6, GraphInitPool, GraphMain, GraphJoin DEF MainStep
<1>7. CASE UNCHANGED vars
  <2>1. UNCHANGED slotVars /\ ph' = ph /\ UNCHANGED done
    BY <1>7 DEF vars, graphVars, queueVars, histVars, slotVars
  <2> QED
    BY <2>1, GraphStays DEF Released, Enqueuing, SlotInv, Places
<1> QED
  BY <1>1, <1>2, <1>3, <1>4, <1>5, <1>6, <1>7 DEF Next, Step

LEMMA SlotInit == Init => SlotInv
<1> SUFFICES ASSUME Init PROVE SlotInv
  OBVIOUS
<1>0. TypeInv
  BY TypeInit
<1>1. /\ \A a \in Actors : ph[a] = IF a = Main THEN "run" ELSE "off"
      /\ \A a \in Actors : pc[a] = 1 /\ todo[a] = {}
      /\ done = {} /\ running = FALSE /\ queue = [w \in Workers |-> <<>>]
      /\ \A j \in Jobs : handle[j] = NoHandle /\ runs[j] = 0
  BY DEF Init
<1>2. \A s \in Slots : occupant[s] = None /\ remaining[s] = 0 /\ dependents[s] = {}
  BY DEF Init
<1>3. NoHandle.slot = None
  BY DEF NoHandle
<1>4. PhasesFit /\ DoneFits
  BY <1>1, MainIsApart DEF PhasesFit, DoneFits, Enqueuing
<1>5. OpsFit
  BY <1>1 DEF OpsFit, OnSchedule, Enqueuing, Waiting, Stopping
<1>6. SubmittedOnce
  BY <1>1, MainIsApart DEF SubmittedOnce, Submitted
<1>7. FirstIsClean
  BY <1>1, <1>3 DEF FirstIsClean
<1>8. Life
  BY <1>1, MainIsApart DEF Life
<1>9. SlotsAnswer
  BY <1>1, <1>2, <1>3, MainIsApart DEF SlotsAnswer
<1>10. Places
  <2>1. \A w \in Workers : DOMAIN queue[w] = {}
    BY <1>1
  <2> QED
    BY <1>1, <2>1 DEF Places
<1>11. Waits
  <2>1. \A t \in Slots : Before(t) = {}
    BY <1>2 DEF Before
  <2> QED
    BY <1>2, <2>1, FS_EmptySet DEF Waits
<1>12. WaitMeansDone
  BY <1>1 DEF WaitMeansDone
<1> QED
  BY <1>0, <1>4, <1>5, <1>6, <1>7, <1>8, <1>9, <1>10, <1>11, <1>12 DEF SlotInv

LEMMA SlotStep == ASSUME OneLife PROVE SlotInv /\ [Next]_vars => SlotInv'
<1> SUFFICES ASSUME SlotInv, [Next]_vars PROVE SlotInv'
  OBVIOUS
<1>1. TypeInv' /\ Arcs /\ Histories /\ GraphInv'
  BY TypeStep, StepArcs, StepHistories, StepGraph DEF SlotInv
<1> QED
  BY <1>1, PhasesKept, DoneKept, OpsKept, SubmittedKept, LifeKept, WaitsKept, FirstKept
     DEF SlotInv, GraphInv

\* In every reachable state each actor, handle and slot of the pool is where the
\* others say it is: no slot is queued twice or holds two jobs, no count of
\* dependencies drifts, no handle outlives the job it names unnoticed.
THEOREM SlotInvHolds == ASSUME OneLife PROVE Spec => []SlotInv
BY SlotInit, SlotStep, PTL DEF Spec

LEMMA TrueHandles == SlotInv => HandlesTrue
<1> SUFFICES ASSUME SlotInv PROVE HandlesTrue
  OBVIOUS
<1>1. WaitMeansDone
  BY DEF SlotInv
<1>2. HandleTruth
  <2> SUFFICES ASSUME NEW j \in Jobs, ph[j] = "dead" PROVE Finished(handle[j])
    BY DEF HandleTruth
  <2>1. Released(j)
    BY DEF Released
  <2>2. handle[j].slot \in Slots \cup {None}
    BY DEF SlotInv, TypeInv, TypeOK
  <2> QED
    BY <2>1, <2>2, MainIsApart DEF Finished, SlotInv, SlotsAnswer
<1> QED
  BY <1>1, <1>2 DEF HandlesTrue

\* What the pool says of a job is so: a wait returns only when its job has run,
\* and the handle of a job that is over says so for ever, whatever its slot holds.
THEOREM HandlesTrueHolds == ASSUME OneLife PROVE Spec => []HandlesTrue
BY SlotInvHolds, TrueHandles, PTL

-----------------------------------------------------------------------------
(* Its stacks, its queues and its sleepers, for programs that start the pool     *)
(* once.                                                                          *)

-----------------------------------------------------------------------------
(* The steps, by what they touch.  *)

\* A step that leaves the queues, the slots and the stacks alone: one actor goes
\* from one place to another, and may wake the sleepers.
Calm(a) ==
    /\ UNCHANGED <<running, graphLock, graphVars, queueVars, callee, on, todo, handle, done>>
    /\ ph[a] \notin {"off", "dead", "push", "count", "sleep", "asleep", "leave",
                     "complete", "stop", "join"}
    /\ ph'[a] \notin {"off", "dead", "count", "sleep", "asleep", "complete"}
    /\ \A b \in Actors \ {a} : ph'[b] = ph[b] \/ (ph[b] = "asleep" /\ ph'[b] = "park")
    /\ ph[a] = "notify" => \A b \in Actors : ph'[b] # "asleep"
    /\ ph[a] # "notify" => ph'[a] \notin {"push", "leave"}
    /\ ph'[a] = "drainSteal" =>
          ph[a] = "drainSteal" \/ (on[a] \in Workers => queue[on[a]] = <<>>)

LEMMA CalmBody ==
    ASSUME SlotInv, NEW a \in Bodies, Schedule(a) \/ WaitCheck(a) PROVE Calm(a)
<1>1. TypeInv
  BY DEF SlotInv
<1>2. CASE Schedule(a)
  <2>1. ph[a] = "run" /\ Goto(a, "alloc")
    BY <1>2 DEF Schedule
  <2> QED
    BY <1>1, <1>2, <2>1, GotoOnly DEF Schedule, Calm, histVars
<1>3. CASE WaitCheck(a)
  <2>1. ph[a] = "run" /\ (UNCHANGED ph \/ Goto(a, "seek"))
    BY <1>3 DEF WaitCheck
  <2>2. UNCHANGED <<running, graphLock, graphVars, queueVars, callee, on, todo, histVars>>
    BY <1>3 DEF WaitCheck
  <2>3. /\ ph'[a] \in {"run", "seek"}
        /\ \A b \in Actors \ {a} : ph'[b] = ph[b]
    BY <1>1, <2>1, GotoOnly
  <2> QED
    BY <2>1, <2>2, <2>3 DEF Calm, histVars
<1> QED
  BY <1>2, <1>3

LEMMA CalmHelp ==
    ASSUME SlotInv, NEW a \in Actors, LookOn(a) \/ FindNothing(a) PROVE Calm(a)
<1>1. TypeInv
  BY DEF SlotInv
<1>2. CASE LookOn(a)
  <2>1. \/ ph[a] = "seek" /\ Goto(a, "steal")
        \/ ph[a] = "drain" /\ Goto(a, "drainSteal")
           /\ (on[a] \in Workers => queue[on[a]] = <<>>)
        \/ ph[a] \in {"steal", "drainSteal"} /\ UNCHANGED ph
    BY <1>2 DEF LookOn
  <2>2. UNCHANGED <<running, graphLock, graphVars, queueVars, callee, on, todo, handle, done>>
    BY <1>2 DEF LookOn
  <2>3. CASE ph[a] = "seek" /\ Goto(a, "steal")
    BY <1>1, <2>2, <2>3, GotoOnly DEF Calm
  <2>4. CASE ph[a] = "drain" /\ Goto(a, "drainSteal") /\ (on[a] \in Workers => queue[on[a]] = <<>>)
    BY <1>1, <2>2, <2>4, GotoOnly DEF Calm
  <2>5. CASE ph[a] \in {"steal", "drainSteal"} /\ UNCHANGED ph
    BY <2>2, <2>5 DEF Calm
  <2> QED
    BY <2>1, <2>3, <2>4, <2>5
<1>3. CASE FindNothing(a)
  <2>1. /\ ph[a] \in {"steal", "drainSteal"}
        /\ \E p \in {"park", "stop", "exited"} : Goto(a, p)
        /\ UNCHANGED <<running, graphLock, graphVars, queueVars, callee, on, todo, handle, done>>
    BY <1>3 DEF FindNothing, histVars
  <2> QED
    BY <1>1, <2>1, GotoOnly DEF Calm
<1> QED
  BY <1>2, <1>3

LEMMA CalmNotify ==
    ASSUME SlotInv, NEW a \in Actors, Notify(a) PROVE Calm(a)
<1>1. /\ TypeInv /\ ph[a] = "notify"
      /\ \E p \in {"push", "leave", "run"} : NotifyAll(a, p)
      /\ UNCHANGED <<running, graphLock, graphVars, queueVars, callee, on, todo, handle, done>>
  BY DEF Notify, histVars, SlotInv
<1> QED
  BY <1>1, NotifyOnly DEF Calm

LEMMA CalmMain ==
    ASSUME SlotInv, Shutdown \/ StopNotify \/ \E w \in Workers : LoadRunning(w)
    PROVE  \E a \in Actors : Calm(a)
<1>1. TypeInv
  BY DEF SlotInv
<1>2. CASE Shutdown
  <2>1. /\ ph[Main] = "run" /\ (Goto(Main, "drain") \/ UNCHANGED ph)
        /\ UNCHANGED <<running, graphLock, graphVars, queueVars, callee, on, todo, handle, done>>
    BY <1>2 DEF Shutdown, histVars
  <2>2. ph'[Main] \in {"run", "drain"} /\ \A b \in Actors \ {Main} : ph'[b] = ph[b]
    BY <1>1, <2>1, GotoOnly
  <2> QED
    BY <2>1, <2>2 DEF Calm
<1>3. CASE StopNotify
  <2>1. /\ ph[Main] = "stopNotify" /\ NotifyAll(Main, "join")
        /\ UNCHANGED <<running, graphLock, graphVars, queueVars, callee, on, todo, handle, done>>
    BY <1>3 DEF StopNotify, histVars
  <2> QED
    BY <1>1, <2>1, NotifyOnly DEF Calm
<1>4. CASE \E w \in Workers : LoadRunning(w)
  <2>1. PICK w \in Workers : LoadRunning(w)
    BY <1>4
  <2>2. /\ ph[w] = "loop" /\ \E p \in {"seek", "drain"} : Goto(w, p)
        /\ UNCHANGED <<running, graphLock, graphVars, queueVars, callee, on, todo, handle, done>>
    BY <2>1 DEF LoadRunning, histVars
  <2> QED
    BY <1>1, <2>2, GotoOnly DEF Calm
<1> QED
  BY <1>2, <1>3, <1>4

LEMMA StepKinds ==
    ASSUME SlotInv, [Next]_vars
    PROVE  \/ \E a \in Bodies : Allocate(a) \/ RunInline(a)
           \/ \E a \in Actors : \E w \in Workers, o \in {0, 1} : TakeOf(a, w, o)
           \/ \E a \in Actors : Push(a) \/ Count(a) \/ Park(a) \/ Sleep(a)
           \/ \E j \in Jobs : JobStep(j)
           \/ InitPool \/ StopRunning \/ Join
           \/ \E a \in Actors : Calm(a)
           \/ UNCHANGED vars
<1>1. CASE \E a \in Bodies : BodyStep(a)
  BY <1>1, CalmBody DEF BodyStep
<1>2. CASE \E a \in Actors : HelpStep(a)
  BY <1>2, TakeCases, CalmHelp DEF HelpStep, SlotInv
<1>3. CASE \E a \in Actors : EnqueueStep(a)
  BY <1>3, CalmNotify DEF EnqueueStep
<1>4. CASE \E w \in Workers : LoadRunning(w)
  BY <1>4, CalmMain
<1>5. CASE MainStep
  BY <1>5, CalmMain DEF MainStep
<1> QED
  BY <1>1, <1>2, <1>3, <1>4, <1>5 DEF Next, Step

-----------------------------------------------------------------------------
(* The stacks: a job that has begun and is not over is the callee of one actor, *)
(* and the chain of callers ends at a thread.                                    *)

Active(j) == ph[j] \notin {"off", "dead"}

CallersWait ==
    \A a \in Actors : callee[a] # None =>
        ph[a] \in {"run", "loop", "drain"} /\ Active(callee[a]) /\ on[callee[a]] = on[a]
OneCaller == \A a, b \in Actors : callee[a] # None /\ callee[a] = callee[b] => a = b
ActiveIsCalled ==
    \A j \in Jobs : Active(j) => on[j] \in Threads /\ \E a \in Actors : callee[a] = j
Rooted ==
    \A X \in SUBSET {j \in Jobs : Active(j)} : X # {} =>
        \E a \in Actors : callee[a] \in X /\ a \notin X

Stack == /\ \A t \in Threads : on[t] = t
         /\ CallersWait /\ OneCaller /\ ActiveIsCalled /\ Rooted

LEMMA StackStays ==
    ASSUME SlotInv, Stack, Arcs, UNCHANGED <<callee, on>>,
           \A j \in Jobs : Active(j)' <=> Active(j)
    PROVE  Stack'
<1>1. CallersWait'
  <2> SUFFICES ASSUME NEW a \in Actors, callee[a] # None
               PROVE  ph'[a] \in {"run", "loop", "drain"} /\ Active(callee[a])'
                      /\ on[callee[a]] = on[a]
    BY DEF CallersWait
  <2>1. ph[a] \in {"run", "loop", "drain"} /\ Active(callee[a]) /\ on[callee[a]] = on[a]
    BY DEF Stack, CallersWait
  <2>2. callee[a] \in Jobs
    BY DEF SlotInv, TypeInv, TypeOK
  <2>3. \A k : k = callee[a] => Active(k)'
    BY <2>1, <2>2
  <2>4. ph'[a] = ph[a]
    BY <2>1 DEF Arcs, Arc, Still
  <2> QED
    BY <2>1, <2>3, <2>4 DEF Active
<1>2. {j \in Jobs : Active(j)}' = {j \in Jobs : Active(j)}
  OBVIOUS
<1>3. Rooted'
  BY <1>2 DEF Stack, Rooted
<1>4. OneCaller' /\ ActiveIsCalled'
  BY DEF Stack, OneCaller, ActiveIsCalled
<1> QED
  BY <1>1, <1>3, <1>4 DEF Stack

LEMMA StackCall ==
    ASSUME SlotInv, Stack, NEW a \in Actors, NEW j \in Jobs, NEW p \in {"run", "loop", "drain"},
           a # j, ph[j] = "off", callee[a] = None, ph[a] \notin {"off", "dead"}, Call(a, j, p)
    PROVE  Stack'
<1>0. TypeInv
  BY DEF SlotInv
<1>1. /\ ph'[a] = p /\ ph'[j] = "run"
      /\ \A b \in Actors \ {a, j} : ph'[b] = ph[b]
      /\ callee'[a] = j /\ \A b \in Actors \ {a} : callee'[b] = callee[b]
      /\ on'[j] = on[a] /\ \A b \in Actors \ {j} : on'[b] = on[b]
  BY DEF Call, SlotInv, TypeInv, TypeOK
<1>2. /\ Active(j)' /\ ~Active(j)
      /\ \A k \in Jobs \ {j} : Active(k)' <=> Active(k)
  BY <1>1 DEF Active
<1>3. \A b \in Actors : callee[b] # j /\ (callee[b] # None => callee[b] \in Jobs \ {j})
  <2>1. \A b \in Actors : callee[b] # None => callee[b] \in Jobs
    BY DEF SlotInv, TypeInv, TypeOK
  <2>2. j # None
    BY MainIsApart
  <2> QED
    BY <1>2, <2>1, <2>2 DEF Stack, CallersWait
<1>4. callee[j] = None
  BY DEF Stack, CallersWait
<1>5. on[a] \in Threads
  BY DEF Stack, ActiveIsCalled, Active
<1>6. \A t \in Threads : on'[t] = t
  BY <1>1, MainIsApart DEF Stack
<1>7. CallersWait'
  <2> SUFFICES ASSUME NEW b \in Actors, callee'[b] # None
               PROVE  ph'[b] \in {"run", "loop", "drain"} /\ ph'[callee'[b]] \notin {"off", "dead"}
                      /\ on'[callee'[b]] = on'[b]
    <3> QED
      BY DEF CallersWait, Active
  <2>1. CASE b = a
    BY <1>1, <1>2, <2>1 DEF Active
  <2>2. CASE b # a
    <3>1. callee'[b] = callee[b] /\ b # j /\ callee[b] # None
      BY <1>1, <1>4, <2>2
    <3>2. /\ ph[b] \in {"run", "loop", "drain"} /\ Active(callee[b]) /\ on[callee[b]] = on[b]
          /\ callee[b] \in Jobs \ {j}
      BY <1>3, <3>1 DEF Stack, CallersWait
    <3>3. \A k : k = callee[b] => ph'[k] \notin {"off", "dead"}
      BY <1>2, <3>2 DEF Active
    <3> QED
      BY <1>1, <2>2, <3>1, <3>2, <3>3 DEF Active
  <2> QED
    BY <2>1, <2>2
<1>8. OneCaller'
  BY <1>1, <1>3 DEF OneCaller, Stack
<1>9. ActiveIsCalled'
  <2> SUFFICES ASSUME NEW k \in Jobs, Active(k)'
               PROVE  on'[k] \in Threads /\ \E b \in Actors : callee'[b] = k
    BY DEF ActiveIsCalled
  <2>1. CASE k = j
    BY <1>1, <1>5, <2>1
  <2>2. CASE k # j
    <3>1. on[k] \in Threads /\ \E b \in Actors : callee[b] = k
      BY <1>2, <2>2 DEF Stack, ActiveIsCalled
    <3>2. k # None
      BY MainIsApart
    <3> QED
      BY <1>1, <2>2, <3>1, <3>2
  <2> QED
    BY <2>1, <2>2
<1>10. Rooted'
  <2> SUFFICES ASSUME NEW X \in SUBSET {k \in Jobs : Active(k)'}, X # {}
               PROVE  \E b \in Actors : callee'[b] \in X /\ b \notin X
    BY DEF Rooted
  <2>1. CASE X = {j}
    BY <1>1, <2>1
  <2>2. CASE X # {j}
    <3>1. X \ {j} \in SUBSET {k \in Jobs : Active(k)} /\ X \ {j} # {}
      BY <1>2, <2>2
    <3>2. PICK b \in Actors : callee[b] \in X \ {j} /\ b \notin X \ {j}
      BY <3>1 DEF Stack, Rooted
    <3>3. callee[b] # None
      BY <3>2, MainIsApart
    <3>4. b # a /\ b # j
      BY <1>4, <3>3
    <3> QED
      BY <1>1, <3>2, <3>4
  <2> QED
    BY <2>1, <2>2
<1> QED
  BY <1>6, <1>7, <1>8, <1>9, <1>10 DEF Stack

LEMMA StackPop ==
    ASSUME SlotInv, Stack, NEW j \in Jobs, callee[j] = None, ph[j] \in {"run", "leave"},
           ph'[j] = "dead", Pop(j),
           \A b \in Actors \ {j} : ph'[b] = ph[b] \/ (ph[b] = "asleep" /\ ph'[b] = "park")
    PROVE  Stack'
<1>1. /\ \A b \in Actors : callee'[b] = IF callee[b] = j THEN None ELSE callee[b]
      /\ on'[j] = None /\ \A b \in Actors \ {j} : on'[b] = on[b]
  BY DEF Pop, SlotInv, TypeInv, TypeOK
<1>2. ~Active(j)' /\ \A k \in Jobs \ {j} : Active(k)' <=> Active(k)
  BY DEF Active
<1>3. \A b \in Actors : callee'[b] # None =>
          /\ callee'[b] = callee[b] /\ callee[b] \in Jobs \ {j} /\ b # j
  BY <1>1, MainIsApart DEF SlotInv, TypeInv, TypeOK
<1>4. CallersWait'
  <2> SUFFICES ASSUME NEW b \in Actors, callee'[b] # None
               PROVE  ph'[b] \in {"run", "loop", "drain"} /\ ph'[callee'[b]] \notin {"off", "dead"}
                      /\ on'[callee'[b]] = on'[b]
    BY DEF CallersWait, Active
  <2>1. /\ ph[b] \in {"run", "loop", "drain"} /\ Active(callee[b]) /\ on[callee[b]] = on[b]
        /\ callee[b] \in Jobs \ {j} /\ callee'[b] = callee[b] /\ b # j
    BY <1>3 DEF Stack, CallersWait
  <2>2. \A k : k = callee[b] => ph'[k] \notin {"off", "dead"}
    BY <1>2, <2>1 DEF Active
  <2>3. ph'[b] = ph[b]
    BY <2>1
  <2> QED
    BY <1>1, <2>1, <2>2, <2>3 DEF Active
<1>5. OneCaller'
  BY <1>3 DEF Stack, OneCaller
<1>6. ActiveIsCalled'
  <2> SUFFICES ASSUME NEW k \in Jobs, Active(k)'
               PROVE  on'[k] \in Threads /\ \E b \in Actors : callee'[b] = k
    BY DEF ActiveIsCalled
  <2>1. k # j /\ Active(k)
    BY <1>2
  <2> QED
    BY <1>1, <2>1 DEF Stack, ActiveIsCalled
<1>7. Rooted'
  <2> SUFFICES ASSUME NEW X \in SUBSET {k \in Jobs : Active(k)'}, X # {}
               PROVE  \E b \in Actors : callee'[b] \in X /\ b \notin X
    BY DEF Rooted
  <2>1. X \in SUBSET {k \in Jobs : Active(k)} /\ j \notin X
    BY <1>2
  <2>2. PICK b \in Actors : callee[b] \in X /\ b \notin X
    BY <2>1 DEF Stack, Rooted
  <2> QED
    BY <1>1, <2>1, <2>2
<1>8. \A t \in Threads : on'[t] = t
  BY <1>1, MainIsApart DEF Stack
<1> QED
  BY <1>4, <1>5, <1>6, <1>7, <1>8 DEF Stack

\* An actor that is not in the middle of a body, or of a loop, calls nobody.
LEMMA CallsNobody ==
    ASSUME Stack, NEW a \in Actors, ph[a] \notin {"run", "loop", "drain"}
    PROVE  callee[a] = None
BY DEF Stack, CallersWait

\* What a job that has begun is above: a thread that is waiting for a call to return.
LEMMA OnAThread ==
    ASSUME SlotInv, Stack, NEW j \in Jobs, Active(j)
    PROVE  on[j] \in Threads /\ ph[on[j]] \in {"run", "loop", "drain"}
<1> DEFINE X == {k \in Jobs : Active(k) /\ on[k] = on[j]}
<1>1. X \in SUBSET {k \in Jobs : Active(k)} /\ X # {}
  OBVIOUS
<1>2. PICK a \in Actors : callee[a] \in X /\ a \notin X
  BY <1>1 DEF Stack, Rooted
<1>3. callee[a] # None
  BY <1>2, MainIsApart
<1>4. ph[a] \in {"run", "loop", "drain"} /\ on[a] = on[j]
  BY <1>2, <1>3 DEF Stack, CallersWait
<1>5. a \in Threads
  BY <1>2, <1>4 DEF Active
<1> QED
  BY <1>4, <1>5 DEF Stack

LEMMA StackJob ==
    ASSUME SlotInv, Stack, Arcs, NEW j \in Jobs, JobStep(j) PROVE Stack'
<1>0. TypeInv
  BY DEF SlotInv
<1>1. CASE Return(j)
  <2>1. ph[j] = "run" /\ callee[j] = None
    BY <1>1 DEF Return
  <2>2. CASE handle[j].slot = None
    <3>1. Goto(j, "dead") /\ Pop(j)
      BY <1>1, <2>2 DEF Return
    <3> QED
      BY <1>0, <2>1, <3>1, GotoOnly, StackPop
  <2>3. CASE handle[j].slot # None
    <3>1. Goto(j, "complete") /\ UNCHANGED <<callee, on>>
      BY <1>1, <2>3 DEF Return
    <3> QED
      BY <1>0, <2>1, <3>1, GotoOnly, StackStays DEF Active
  <2> QED
    BY <2>2, <2>3
<1>2. CASE Complete(j)
  <2>1. ph[j] = "complete" /\ \E p \in {"leave", "push"} : Goto(j, p)
    BY <1>2 DEF Complete
  <2>2. UNCHANGED <<callee, on>>
    BY <1>2 DEF Complete
  <2> QED
    BY <1>0, <2>1, <2>2, GotoOnly, StackStays DEF Active
<1>3. CASE Leave(j)
  <2>1. ph[j] = "leave" /\ NotifyAll(j, "dead") /\ Pop(j)
    BY <1>3 DEF Leave
  <2>2. callee[j] = None
    BY <2>1, CallsNobody
  <2> QED
    BY <1>0, <2>1, <2>2, NotifyOnly, StackPop
<1> QED
  BY <1>1, <1>2, <1>3 DEF JobStep

LEMMA StackStep == ASSUME SlotInv, Stack, [Next]_vars PROVE Stack'
<1>0. TypeInv /\ Arcs
  BY StepArcs DEF SlotInv
<1>1. CASE \E a \in Bodies : Allocate(a)
  <2>1. PICK a \in Bodies : Allocate(a)
    BY <1>1
  <2>2. ph[a] = "alloc" /\ UNCHANGED <<callee, on>> /\ \E s \in Slots : AllocateAt(a, s)
    BY <2>1, AllocateSlot
  <2>3. ph'[a] \in {"push", "run"} /\ \A b \in Actors \ {a} : ph'[b] = ph[b]
    BY <2>2, AllocateMoves
  <2> QED
    BY <1>0, <2>2, <2>3, StackStays DEF Active
<1>2. CASE \E a \in Bodies : RunInline(a)
  <2>1. PICK a \in Bodies : RunInline(a)
    BY <1>2
  <2>2. /\ ph[a] \in {"run", "alloc"} /\ AtSchedule(a) /\ callee[a] = None
        /\ Call(a, Target(a), "run")
    BY <2>1, InlineSlot
  <2>3. Target(a) \in Jobs /\ a # Target(a) /\ ph[Target(a)] = "off"
    BY <2>2, TargetIsFresh
  <2> QED
    BY <2>2, <2>3, StackCall
<1>3. CASE \E a \in Actors : \E w \in Workers, o \in {0, 1} : TakeOf(a, w, o)
  <2>0. PICK a \in Actors : \E w \in Workers, o \in {0, 1} : TakeOf(a, w, o)
    BY <1>3
  <2>1. PICK w \in Workers, o \in {0, 1} : TakeOf(a, w, o)
    BY <2>0
  <2> DEFINE j == occupant[Taken(w, o)]
             p == IF ph[a] \in {"seek", "steal"} THEN Resume(a) ELSE "drain"
  <2>2. j \in Jobs /\ j # a /\ ph[j] = "off" /\ Call(a, j, p)
    BY <2>1, TakeJob DEF Ripe
  <2>3. ph[a] \in {"seek", "steal", "drain", "drainSteal"} /\ callee[a] = None
    BY <2>1 DEF TakeOf
  <2>4. p \in {"run", "loop", "drain"}
    BY DEF Resume
  <2> HIDE DEF j, p
  <2> QED
    BY <2>2, <2>3, <2>4, StackCall
<1>4. CASE \E a \in Actors : Push(a) \/ Count(a) \/ Park(a) \/ Sleep(a)
  <2>1. PICK a \in Actors : Push(a) \/ Count(a) \/ Park(a) \/ Sleep(a)
    BY <1>4
  <2>2. /\ ph[a] \in {"push", "count", "park", "sleep"}
        /\ \E p \in {"count", "notify", "run", "loop", "sleep", "asleep"} : Goto(a, p)
        /\ UNCHANGED <<callee, on>>
    BY <2>1 DEF Push, Count, Park, Sleep, Resume
  <2> QED
    BY <1>0, <2>2, GotoOnly, StackStays DEF Active
<1>5. CASE InitPool \/ StopRunning \/ Join
  <2>1. UNCHANGED <<callee, on>>
    BY <1>5 DEF InitPool, StopRunning, Join
  <2>2. \A j \in Jobs : ph'[j] = ph[j]
    <3>1. CASE InitPool
      BY <1>0, <3>1, MainIsApart DEF InitPool, TypeInv, TypeOK
    <3>2. CASE StopRunning
      BY <1>0, <3>2, MainIsApart, GotoOnly DEF StopRunning
    <3>3. CASE Join
      BY <3>3, MainIsApart DEF Join
    <3> QED
      BY <1>5, <3>1, <3>2, <3>3
  <2> QED
    BY <1>0, <2>1, <2>2, StackStays DEF Active
<1>6. CASE \E a \in Actors : Calm(a)
  <2>1. PICK a \in Actors : Calm(a)
    BY <1>6
  <2>2. UNCHANGED <<callee, on>> /\ \A j \in Jobs : Active(j)' <=> Active(j)
    BY <2>1 DEF Calm, Active
  <2> QED
    BY <1>0, <2>2, StackStays
<1>7. CASE UNCHANGED vars
  <2>1. UNCHANGED <<callee, on>> /\ ph' = ph
    BY <1>7 DEF vars
  <2> QED
    BY <1>0, <2>1, StackStays DEF Active
<1> QED
  BY <1>0, <1>1, <1>2, <1>3, <1>4, <1>5, <1>6, <1>7, StackJob, StepKinds

\* When the workers have left, and the main thread waits for them, no job is on
\* any stack.
LEMMA NobodyIsLeft ==
    ASSUME SlotInv, Stack, ph[Main] \in {"stopNotify", "join"},
           \A w \in Workers : ph[w] \in {"exited", "off"}
    PROVE  \A j \in Jobs : ~Active(j)
BY OnAThread, MainIsApart

-----------------------------------------------------------------------------
(* The count: what has been queued, less what has yet to be counted. *)

CountFits == IsFiniteSet(Queued) /\ ReadyCounted

LEMMA ActorsAreFinite == \A S \in SUBSET Actors : IsFiniteSet(S)
<1>1. IsFiniteSet(Actors)
  <2>1. IsFiniteSet({Main})
    BY FS_Singleton
  <2>2. IsFiniteSet(Workers \cup {Main})
    BY <2>1, PoolAssumption, FS_Union
  <2> QED
    BY <2>2, PoolAssumption, FS_Union
<1> QED
  BY <1>1, FS_Subset

LEMMA QueuedAre ==
    /\ \A q : q \in Queued <=> \E w \in Workers : \E i \in DOMAIN queue[w] : q = <<w, i>>
    /\ \A q : q \in Queued' <=> \E w \in Workers : \E i \in DOMAIN queue'[w] : q = <<w, i>>
<1>1. \A q : q \in Queued <=> \E w \in Workers : \E i \in DOMAIN queue[w] : q = <<w, i>>
  BY DEF Queued
<1>2. \A q : q \in Queued' <=> \E w \in Workers : \E i \in DOMAIN queue'[w] : q = <<w, i>>
  BY DEF Queued
<1> QED
  BY <1>1, <1>2

LEMMA CountStays ==
    ASSUME CountFits, UNCHANGED <<queue, readyCount>>,
           \A b \in Actors : ph'[b] = "count" <=> ph[b] = "count"
    PROVE  CountFits'
<1>1. Queued' = Queued
  BY DEF Queued
<1>2. Uncounted' = Uncounted
  BY DEF Uncounted
<1> QED
  BY <1>1, <1>2 DEF CountFits, ReadyCounted

\* What Push does, with the slot and the queue it chose.
PushAt(a, s, w) ==
    /\ on[a] \in Workers => w = on[a]
    /\ queue' = [queue EXCEPT ![w] = Append(@, s)]
    /\ todo' = [todo EXCEPT ![a] = @ \ {s}]

LEMMA PushSlot ==
    ASSUME TypeInv, NEW a \in Actors, Push(a)
    PROVE  /\ ph[a] = "push" /\ Goto(a, "count")
           /\ \E s \in todo[a] : \E w \in Workers : s \in Slots /\ PushAt(a, s, w)
           /\ UNCHANGED <<running, graphLock, graphVars, readyCount, pc, callee, on, histVars>>
BY DEF Push, PushAt, TypeInv, TypeOK

LEMMA CountPush ==
    ASSUME TypeInv, CountFits, NEW a \in Actors, Push(a) PROVE CountFits'
<1>0. PICK s \in todo[a] : \E w \in Workers : s \in Slots /\ PushAt(a, s, w)
  BY PushSlot
<1>1. PICK w \in Workers : s \in Slots /\ PushAt(a, s, w)
  BY <1>0
<1>2. ph[a] = "push" /\ Goto(a, "count") /\ readyCount' = readyCount
  BY PushSlot
<1> DEFINE n == Len(queue[w]) + 1
<1>3. /\ queue[w] \in Seq(Slots) /\ queue' = [queue EXCEPT ![w] = Append(queue[w], s)]
      /\ queue \in [Workers -> Seq(Slots)] /\ readyCount \in Int
  BY <1>1 DEF PushAt, TypeInv, TypeOK
<1>4. /\ DOMAIN queue[w] = 1..(n - 1) /\ DOMAIN queue'[w] = 1..n /\ n \in Nat \ {0}
      /\ \A u \in Workers \ {w} : queue'[u] = queue[u]
  BY <1>3
<1>5. DOMAIN queue'[w] = DOMAIN queue[w] \cup {n} /\ n \notin DOMAIN queue[w]
  BY <1>4
<1> HIDE DEF n
<1>6. Queued' = Queued \cup {<<w, n>>}
  <2>1. ASSUME NEW q, q \in Queued' PROVE q \in Queued \cup {<<w, n>>}
    BY <1>4, <1>5, <2>1, QueuedAre
  <2>2. ASSUME NEW q, q \in Queued \cup {<<w, n>>} PROVE q \in Queued'
    BY <1>4, <1>5, <2>2, QueuedAre
  <2> QED
    BY <2>1, <2>2
<1>7. <<w, n>> \notin Queued
  BY <1>5, QueuedAre
<1>8. IsFiniteSet(Queued') /\ Cardinality(Queued') = Cardinality(Queued) + 1
      /\ Cardinality(Queued) \in Nat
  BY <1>6, <1>7, FS_AddElement, FS_CardinalityType DEF CountFits
<1>9. Uncounted' = Uncounted \cup {a} /\ a \notin Uncounted
  BY <1>2, GotoOnly DEF Uncounted
<1>10. Cardinality(Uncounted') = Cardinality(Uncounted) + 1 /\ Cardinality(Uncounted) \in Nat
  <2>1. IsFiniteSet(Uncounted)
    BY ActorsAreFinite DEF Uncounted
  <2> QED
    BY <1>9, <2>1, FS_AddElement, FS_CardinalityType
<1> QED
  BY <1>2, <1>3, <1>8, <1>10 DEF CountFits, ReadyCounted

LEMMA CountCount ==
    ASSUME TypeInv, CountFits, NEW a \in Actors, Count(a) PROVE CountFits'
<1>1. /\ ph[a] = "count" /\ Goto(a, "notify") /\ readyCount' = readyCount + 1
      /\ queue' = queue /\ readyCount \in Int
  BY DEF Count, TypeInv, TypeOK
<1>2. Queued' = Queued
  BY <1>1 DEF Queued
<1>3. Uncounted' = Uncounted \ {a} /\ a \in Uncounted
  BY <1>1, GotoOnly DEF Uncounted
<1>4. Cardinality(Uncounted') = Cardinality(Uncounted) - 1 /\ Cardinality(Uncounted) \in Nat
  <2>1. IsFiniteSet(Uncounted)
    BY ActorsAreFinite DEF Uncounted
  <2> QED
    BY <1>3, <2>1, FS_RemoveElement, FS_CardinalityType
<1>5. Cardinality(Queued) \in Nat
  BY FS_CardinalityType DEF CountFits
<1> QED
  BY <1>1, <1>2, <1>4, <1>5 DEF CountFits, ReadyCounted

LEMMA CountTake ==
    ASSUME SlotInv, CountFits, NEW a \in Actors, NEW w \in Workers, NEW o \in {0, 1},
           TakeOf(a, w, o)
    PROVE  CountFits'
<1> DEFINE n == Len(queue[w])
           j == occupant[Taken(w, o)]
           p == IF ph[a] \in {"seek", "steal"} THEN Resume(a) ELSE "drain"
<1>0. TypeInv
  BY DEF SlotInv
<1>1. /\ queue' = [queue EXCEPT ![w] = Rest(w, o)] /\ readyCount' = readyCount - 1
      /\ queue[w] # <<>> /\ ph[a] \in {"seek", "steal", "drain", "drainSteal"}
  BY DEF TakeOf
<1>2. queue \in [Workers -> Seq(Slots)] /\ readyCount \in Int /\ queue[w] \in Seq(Slots)
  BY <1>0 DEF TypeInv, TypeOK
<1>3. Rest(w, o) \in Seq(Slots) /\ Len(Rest(w, o)) = n - 1
  BY <1>0, <1>1, TakenPlaces
<1>4. /\ DOMAIN queue[w] = 1..n /\ DOMAIN queue'[w] = 1..(n - 1) /\ n \in Nat \ {0}
      /\ \A u \in Workers \ {w} : queue'[u] = queue[u]
  BY <1>1, <1>2, <1>3
<1>5. DOMAIN queue'[w] = DOMAIN queue[w] \ {n} /\ n \in DOMAIN queue[w]
  BY <1>4
<1> HIDE DEF n
<1>6. Queued' = Queued \ {<<w, n>>}
  <2>1. ASSUME NEW q, q \in Queued' PROVE q \in Queued \ {<<w, n>>}
    BY <1>4, <1>5, <2>1, QueuedAre
  <2>2. ASSUME NEW q, q \in Queued \ {<<w, n>>} PROVE q \in Queued'
    BY <1>4, <1>5, <2>2, QueuedAre
  <2> QED
    BY <2>1, <2>2
<1>7. <<w, n>> \in Queued
  BY <1>5, QueuedAre
<1>8. IsFiniteSet(Queued') /\ Cardinality(Queued') = Cardinality(Queued) - 1
      /\ Cardinality(Queued) \in Nat
  BY <1>6, <1>7, FS_RemoveElement, FS_CardinalityType DEF CountFits
<1>9. Uncounted' = Uncounted
  <2>1. j \in Jobs /\ j # a /\ ph[j] = "off" /\ Call(a, j, p)
    BY TakeJob DEF Ripe
  <2>2. p # "count"
    BY DEF Resume
  <2> HIDE DEF j, p
  <2>3. ph'[a] = p /\ ph'[j] = "run" /\ \A b \in Actors \ {a, j} : ph'[b] = ph[b]
    BY <1>0, <2>1, CallOnly
  <2> QED
    BY <1>1, <2>1, <2>2, <2>3 DEF Uncounted
<1>10. Cardinality(Uncounted) \in Nat
  BY ActorsAreFinite, FS_CardinalityType DEF Uncounted
<1> QED
  BY <1>1, <1>2, <1>8, <1>9, <1>10 DEF CountFits, ReadyCounted

LEMMA CountJoin ==
    ASSUME SlotInv, Stack, CountFits, Join PROVE CountFits'
<1>1. /\ ph[Main] = "join" /\ \A w \in Workers : ph[w] = "exited"
      /\ \A b \in Actors : ph'[b] \in {"run", "off", ph[b]}
      /\ queue' = [w \in Workers |-> <<>>] /\ readyCount' = 0
  BY DEF Join
<1>2. \A j \in Jobs : ~Active(j)
  BY <1>1, NobodyIsLeft
<1>3. Uncounted' = {}
  BY <1>1, <1>2 DEF Uncounted, Active
<1>4. Queued' = {}
  <2>1. \A w \in Workers : DOMAIN queue'[w] = {}
    BY <1>1
  <2> QED
    BY <2>1, QueuedAre
<1>5. IsFiniteSet({}) /\ Cardinality({}) = 0
  BY FS_EmptySet
<1> QED
  BY <1>1, <1>3, <1>4, <1>5 DEF CountFits, ReadyCounted

LEMMA CountStep == ASSUME SlotInv, Stack, CountFits, [Next]_vars PROVE CountFits'
<1>0. TypeInv
  BY DEF SlotInv
<1>1. CASE \E a \in Bodies : Allocate(a)
  <2>1. PICK a \in Bodies : Allocate(a)
    BY <1>1
  <2>2. ph[a] = "alloc" /\ UNCHANGED queueVars /\ \E s \in Slots : AllocateAt(a, s)
    BY <2>1, AllocateSlot
  <2>3. ph'[a] \in {"push", "run"} /\ \A b \in Actors \ {a} : ph'[b] = ph[b]
    BY <2>2, AllocateMoves
  <2> QED
    BY <2>2, <2>3, CountStays DEF queueVars
<1>2. CASE \E a \in Bodies : RunInline(a)
  <2>1. PICK a \in Bodies : RunInline(a)
    BY <1>2
  <2>2. /\ ph[a] \in {"run", "alloc"} /\ AtSchedule(a)
        /\ Call(a, Target(a), "run") /\ UNCHANGED queueVars
    BY <2>1, InlineSlot
  <2>3. Target(a) \in Jobs /\ a # Target(a) /\ ph[Target(a)] = "off"
    BY <2>2, TargetIsFresh
  <2>4. \A b \in Actors : ph'[b] = "count" <=> ph[b] = "count"
    <3> DEFINE j == Target(a)
    <3>1. a \in Actors /\ j \in Jobs /\ a # j /\ Call(a, j, "run") /\ ph[j] = "off" /\ ph[a] # "count"
      BY <2>2, <2>3
    <3> HIDE DEF j
    <3>2. ph'[a] = "run" /\ ph'[j] = "run" /\ \A b \in Actors \ {a, j} : ph'[b] = ph[b]
      BY <1>0, <3>1, CallOnly
    <3> QED
      BY <3>1, <3>2
  <2> QED
    BY <2>2, <2>4, CountStays DEF queueVars
<1>3. CASE \E a \in Actors : \E w \in Workers, o \in {0, 1} : TakeOf(a, w, o)
  BY <1>3, CountTake
<1>4. CASE \E a \in Actors : Push(a) \/ Count(a) \/ Park(a) \/ Sleep(a)
  <2>1. PICK a \in Actors : Push(a) \/ Count(a) \/ Park(a) \/ Sleep(a)
    BY <1>4
  <2>2. CASE Push(a) \/ Count(a)
    BY <1>0, <2>2, CountPush, CountCount
  <2>3. CASE Park(a) \/ Sleep(a)
    <3>1. /\ ph[a] \in {"park", "sleep"}
          /\ \E p \in {"run", "loop", "sleep", "asleep"} : Goto(a, p)
          /\ UNCHANGED queueVars
      BY <2>3 DEF Park, Sleep, Resume
    <3>2. \A b \in Actors : ph'[b] = "count" <=> ph[b] = "count"
      BY <1>0, <3>1, GotoOnly
    <3> QED
      BY <3>1, <3>2, CountStays DEF queueVars
  <2> QED
    BY <2>1, <2>2, <2>3
<1>5. CASE \E j \in Jobs : JobStep(j)
  <2>1. PICK j \in Jobs : JobStep(j)
    BY <1>5
  <2>2. UNCHANGED queueVars
    BY <2>1 DEF JobStep, Return, Complete, Leave
  <2>3. \A b \in Actors : ph'[b] = "count" <=> ph[b] = "count"
    <3>1. CASE Leave(j)
      BY <1>0, <3>1, NotifyOnly DEF Leave
    <3>2. CASE Return(j) \/ Complete(j)
      <4>1. /\ ph[j] \in {"run", "complete"}
            /\ \E p \in {"dead", "complete", "leave", "push"} : Goto(j, p)
        BY <3>2 DEF Return, Complete
      <4> QED
        BY <1>0, <4>1, GotoOnly
    <3> QED
      BY <2>1, <3>1, <3>2 DEF JobStep
  <2> QED
    BY <2>2, <2>3, CountStays DEF queueVars
<1>6. CASE InitPool \/ StopRunning
  <2>1. UNCHANGED queueVars
    BY <1>6 DEF InitPool, StopRunning
  <2>2. \A b \in Actors : ph'[b] = "count" <=> ph[b] = "count"
    <3>1. CASE InitPool
      <4>1. \A b \in Actors : ph'[b] = ph[b] \/ (b \in Workers /\ ph'[b] = "loop")
        BY <3>1 DEF InitPool
      <4>2. \A w \in Workers : ph[w] # "count"
        BY DEF SlotInv, PhasesFit
      <4> QED
        BY <4>1, <4>2
    <3>2. CASE StopRunning
      BY <1>0, <3>2, GotoOnly DEF StopRunning
    <3> QED
      BY <1>6, <3>1, <3>2
  <2> QED
    BY <2>1, <2>2, CountStays DEF queueVars
<1>7. CASE Join
  BY <1>7, CountJoin
<1>8. CASE \E a \in Actors : Calm(a)
  <2>1. PICK a \in Actors : Calm(a)
    BY <1>8
  <2>2. UNCHANGED queueVars /\ \A b \in Actors : ph'[b] = "count" <=> ph[b] = "count"
    BY <2>1 DEF Calm
  <2> QED
    BY <2>2, CountStays DEF queueVars
<1>9. CASE UNCHANGED vars
  <2>1. UNCHANGED queueVars /\ ph' = ph
    BY <1>9 DEF vars
  <2> QED
    BY <2>1, CountStays DEF queueVars
<1> QED
  BY <1>1, <1>2, <1>3, <1>4, <1>5, <1>6, <1>7, <1>8, <1>9, StepKinds

-----------------------------------------------------------------------------
(* No job is lost.  A slot whose job may run is about to be queued, or queued; *)
(* a worker that stops stealing has emptied its own queue; and the dependencies *)
(* between the jobs that have slots are as they were scheduled, with no cycle.  *)

Placed(s) == \/ \E a \in Actors : s \in todo[a]
             \/ \E w \in Workers : \E i \in DOMAIN queue[w] : queue[w][i] = s
NoneIsLost == \A s \in Slots : Ripe(s) => Placed(s)

Drained == \A w \in Workers : ph[w] \in {"drainSteal", "exited", "off"} => queue[w] = <<>>

InHandFits ==
    \A a \in Bodies : ph[a] = "alloc" =>
        AtSchedule(a) /\ \A d \in Deps[Target(a)] : handle[d] # NoHandle

HasSlot(j) == handle[j].slot # None
Grounded ==
    /\ \A j \in Jobs : HasSlot(j) => \A d \in Deps[j] : handle[d] # NoHandle
    /\ \A X \in SUBSET {j \in Jobs : HasSlot(j)} : X # {} => \E j \in X : Deps[j] \cap X = {}

Edges == \A s \in Slots : \A t \in dependents[s] : occupant[s] \in Deps[occupant[t]]

Down == Serial => /\ \A j \in Jobs : handle[j] # NoHandle => j \in done
                  /\ \A b \in Bodies : ph[b] \in {"off", "run", "dead"}

NothingLost == NoneIsLost /\ Drained /\ InHandFits /\ Grounded /\ Edges /\ Down

LEMMA OffStays == ASSUME SlotInv, Arcs, NEW j \in Jobs, ph'[j] = "off" PROVE ph[j] = "off"
<1>1. j # Main /\ j \notin Workers
  BY MainIsApart
<1> QED
  BY <1>1 DEF Arcs, Arc, Still, BodyArc, JobArc

LEMMA InHandKept == ASSUME SlotInv, Arcs, Histories, InHandFits PROVE InHandFits'
<1> SUFFICES ASSUME NEW a \in Bodies, ph'[a] = "alloc"
             PROVE  AtSchedule(a)' /\ \A d \in Deps[Target(a)'] : handle'[d] # NoHandle
  BY DEF InHandFits
<1>1. a \notin Workers
  BY MainIsApart
<1>2. pc'[a] = pc[a] /\ AtSchedule(a) /\ \A d \in Deps[Target(a)] : handle[d] # NoHandle
  <2>1. CASE Still(a)
    BY <2>1 DEF Still, InHandFits
  <2>2. CASE Arc(a)
    BY <1>1, <2>2 DEF Arc, BodyArc, JobArc, MainArc
  <2> QED
    BY <2>1, <2>2 DEF Arcs
<1>3. Target(a) \in Jobs /\ Deps[Target(a)] \subseteq Jobs
  BY <1>2, PoolAssumption DEF AtSchedule, Target
<1>4. \A d \in Jobs : handle[d] # NoHandle => handle'[d] # NoHandle
  BY DEF Histories
<1> QED
  BY <1>2, <1>3, <1>4 DEF AtSchedule, Target

\* A handle is written by Allocate, and when an inline run is over.
LEMMA HandleMoves ==
    ASSUME SlotInv, [Next]_vars
    PROVE  \/ \E a \in Bodies : Allocate(a)
           \/ \A j \in Jobs : handle'[j] = handle[j]
                              \/ (handle'[j] = SerialHandle /\ j \in done')
<1>1. CASE \E j \in Jobs : JobStep(j)
  <2>1. PICK j \in Jobs : JobStep(j)
    BY <1>1
  <2>2. CASE Return(j) /\ handle[j].slot = None
    <3>1. handle' = [handle EXCEPT ![j] = SerialHandle] /\ done' = done \cup {j}
      BY <2>2 DEF Return
    <3> QED
      BY <3>1 DEF SlotInv, TypeInv, TypeOK
  <2>3. CASE ~(Return(j) /\ handle[j].slot = None)
    BY <2>1, <2>3 DEF JobStep, Return, Complete, Leave, histVars
  <2> QED
    BY <2>2, <2>3
<1>2. CASE \E a \in Bodies : RunInline(a)
  BY <1>2, InlineSlot
<1>3. CASE \E a \in Actors : \E w \in Workers, o \in {0, 1} : TakeOf(a, w, o)
  BY <1>3 DEF TakeOf
<1>4. CASE \E a \in Actors : Push(a) \/ Count(a) \/ Park(a) \/ Sleep(a)
  BY <1>4 DEF Push, Count, Park, Sleep, histVars
<1>5. CASE InitPool \/ StopRunning \/ Join
  BY <1>5 DEF InitPool, StopRunning, Join, histVars
<1>6. CASE \E a \in Actors : Calm(a)
  BY <1>6 DEF Calm
<1>7. CASE UNCHANGED vars
  BY <1>7 DEF vars, histVars
<1> QED
  BY <1>1, <1>2, <1>3, <1>4, <1>5, <1>6, <1>7, StepKinds

\* A handle that its job was scheduled with outlives it.
LEMMA HandlesLast ==
    ASSUME SlotInv, [Next]_vars, NEW j \in Jobs, HasSlot(j)
    PROVE  handle'[j] = handle[j]
<1>1. handle[j] # NoHandle
  BY DEF HasSlot, NoHandle
<1>2. Histories
  BY StepHistories
<1> QED
  BY <1>1, <1>2 DEF Histories, HasSlot

LEMMA GroundedStep ==
    ASSUME SlotInv, InHandFits, Grounded, [Next]_vars PROVE Grounded'
<1>0. SerialHandle.slot = None /\ NoHandle.slot = None
  BY DEF SerialHandle, NoHandle
<1>1. \A d \in Jobs : handle[d] # NoHandle => handle'[d] # NoHandle
  BY StepHistories DEF Histories
<1>2. \A j \in Jobs : Deps[j] \subseteq Jobs
  BY PoolAssumption
<1>3. CASE \E a \in Bodies : Allocate(a)
  <2>1. PICK a \in Bodies : Allocate(a)
    BY <1>3
  <2>2. PICK s \in Slots : AllocateAt(a, s)
    BY <2>1, AllocateSlot
  <2>3. ph[a] = "alloc" /\ AtSchedule(a)
    BY <2>1, AllocateSlot
  <2> DEFINE j == Target(a)
  <2>4. j \in Jobs /\ handle[j] = NoHandle /\ \A d \in Deps[j] : handle[d] # NoHandle
    BY <2>3, TargetIsFresh DEF InHandFits
  <2>5. handle' = [handle EXCEPT ![j] = [slot |-> s, gen |-> gen[s]]]
    BY <2>2 DEF AllocateAt
  <2> HIDE DEF j
  <2>6. \A k \in Jobs \ {j} : handle'[k] = handle[k]
    BY <2>5 DEF SlotInv, TypeInv, TypeOK
  <2>7. ~HasSlot(j) /\ \A k \in Jobs \ {j} : HasSlot(k)' <=> HasSlot(k)
    BY <1>0, <2>4, <2>6 DEF HasSlot
  <2>8. \A k \in Jobs : HasSlot(k)' => \A d \in Deps[k] : handle'[d] # NoHandle
    <3> SUFFICES ASSUME NEW k \in Jobs, HasSlot(k)', NEW d \in Deps[k]
                 PROVE  handle'[d] # NoHandle
      OBVIOUS
    <3>1. handle[d] # NoHandle
      BY <2>4, <2>7 DEF Grounded
    <3> QED
      BY <1>1, <1>2, <3>1
  <2>9. ASSUME NEW X \in SUBSET {k \in Jobs : HasSlot(k)'}, X # {}
        PROVE  \E k \in X : Deps[k] \cap X = {}
    <3>1. CASE X \ {j} = {}
      <4>1. X = {j} /\ j \notin Deps[j]
        BY <2>4, <2>9, <3>1
      <4> QED
        BY <4>1
    <3>2. CASE X \ {j} # {}
      <4>1. X \ {j} \in SUBSET {k \in Jobs : HasSlot(k)}
        BY <2>7
      <4>2. PICK k \in X \ {j} : Deps[k] \cap (X \ {j}) = {}
        BY <3>2, <4>1 DEF Grounded
      <4>3. j \notin Deps[k]
        BY <2>4, <4>1, <4>2 DEF Grounded
      <4> QED
        BY <4>2, <4>3
    <3> QED
      BY <3>1, <3>2
  <2>10. Grounded'
    BY <2>8, <2>9 DEF Grounded
  <2> QED
    BY <2>10
<1>4. CASE \A j \in Jobs : handle'[j] = handle[j] \/ (handle'[j] = SerialHandle /\ j \in done')
  <2>1. \A k \in Jobs : HasSlot(k)' => HasSlot(k)
    BY <1>0, <1>4 DEF HasSlot
  <2>2. \A k \in Jobs : HasSlot(k)' => \A d \in Deps[k] : handle'[d] # NoHandle
    BY <1>1, <1>2, <2>1 DEF Grounded
  <2>3. ASSUME NEW X \in SUBSET {k \in Jobs : HasSlot(k)'}, X # {}
        PROVE  \E k \in X : Deps[k] \cap X = {}
    <3>1. X \in SUBSET {k \in Jobs : HasSlot(k)}
      BY <2>1
    <3> QED
      BY <2>3, <3>1 DEF Grounded
  <2> QED
    BY <2>2, <2>3 DEF Grounded
<1> QED
  BY <1>3, <1>4, HandleMoves

-----------------------------------------------------------------------------
LEMMA PlacedStays ==
    ASSUME NoneIsLost, UNCHANGED <<queue, todo>>, \A s \in Slots : Ripe(s)' => Ripe(s)
    PROVE  NoneIsLost'
BY DEF NoneIsLost, Placed

LEMMA RipeStays ==
    ASSUME SlotInv, Arcs, UNCHANGED <<occupant, remaining>>, NEW s \in Slots, Ripe(s)'
    PROVE  Ripe(s)
<1>1. occupant[s] \in Jobs /\ ph'[occupant[s]] = "off"
  BY DEF Ripe, SlotInv, TypeInv, TypeOK
<1> QED
  BY <1>1, OffStays DEF Ripe

LEMMA PlacedAllocate ==
    ASSUME SlotInv, Arcs, NoneIsLost, NEW a \in Bodies, Allocate(a) PROVE NoneIsLost'
<1>1. PICK s \in Slots : AllocateAt(a, s)
  BY AllocateSlot
<1>2. ph[a] = "alloc" /\ AtSchedule(a) /\ UNCHANGED queue
  BY AllocateSlot DEF queueVars
<1> DEFINE j == Target(a)
           live == LiveDeps(j)
<1>3. j \in Jobs /\ handle[j] = NoHandle
  BY <1>2, TargetIsFresh
<1>4. /\ occupant' = [occupant EXCEPT ![s] = j]
      /\ remaining' = [remaining EXCEPT ![s] = Cardinality(live)]
      /\ live = {} => todo' = [todo EXCEPT ![a] = {s}]
      /\ live # {} => todo' = todo
  BY <1>1 DEF AllocateAt
<1>5. IsFiniteSet(live)
  <2>1. live \subseteq Jobs
    BY <1>3, PoolAssumption DEF LiveDeps
  <2> QED
    BY <2>1, PoolAssumption, FS_Subset
<1>6. todo[a] = {}
  BY <1>2 DEF SlotInv, Places, Enqueuing
<1> HIDE DEF j, live
<1>7. /\ occupant \in [Slots -> Jobs \cup {None}] /\ remaining \in [Slots -> Nat]
      /\ todo \in [Actors -> SUBSET Slots]
  BY DEF SlotInv, TypeInv, TypeOK
<1> SUFFICES ASSUME NEW t \in Slots, Ripe(t)' PROVE Placed(t)'
  BY DEF NoneIsLost
<1>8. CASE t = s
  <2>1. Cardinality(live) = 0
    BY <1>4, <1>7, <1>8 DEF Ripe
  <2>2. live = {}
    BY <1>5, <2>1, FS_EmptySet
  <2>3. t \in todo'[a]
    BY <1>4, <1>7, <1>8, <2>2
  <2> QED
    BY <2>3 DEF Placed
<1>9. CASE t # s
  <2>1. occupant'[t] = occupant[t] /\ remaining'[t] = remaining[t]
    BY <1>4, <1>7, <1>9
  <2>2. occupant[t] \in Jobs
    BY <1>7, <2>1 DEF Ripe
  <2>3. ph[occupant[t]] = "off"
    BY <2>1, <2>2, OffStays DEF Ripe
  <2>4. Placed(t)
    BY <2>1, <2>3 DEF Ripe, NoneIsLost
  <2>5. \A b \in Actors : todo[b] \subseteq todo'[b]
    BY <1>4, <1>6, <1>7
  <2> QED
    BY <1>2, <2>4, <2>5 DEF Placed
<1> QED
  BY <1>8, <1>9

LEMMA PlacedPush ==
    ASSUME SlotInv, Arcs, NoneIsLost, NEW a \in Actors, Push(a) PROVE NoneIsLost'
<1>0. TypeInv
  BY DEF SlotInv
<1>1. PICK s \in todo[a] : \E w \in Workers : s \in Slots /\ PushAt(a, s, w)
  BY <1>0, PushSlot
<1>2. PICK w \in Workers : s \in Slots /\ PushAt(a, s, w)
  BY <1>1
<1>3. UNCHANGED <<occupant, remaining>>
  BY <1>0, PushSlot DEF graphVars
<1>4. /\ queue[w] \in Seq(Slots) /\ queue' = [queue EXCEPT ![w] = Append(queue[w], s)]
      /\ queue \in [Workers -> Seq(Slots)] /\ todo \in [Actors -> SUBSET Slots]
      /\ todo' = [todo EXCEPT ![a] = @ \ {s}]
  BY <1>0, <1>2 DEF PushAt, TypeInv, TypeOK
<1>5. /\ queue'[w] = Append(queue[w], s) /\ \A u \in Workers \ {w} : queue'[u] = queue[u]
      /\ \A b \in Actors : todo[b] \subseteq todo'[b] \cup {s}
  BY <1>4
<1>6. \A i \in DOMAIN queue[w] : i \in DOMAIN queue'[w] /\ queue'[w][i] = queue[w][i]
  BY <1>4, <1>5
<1>7. Len(queue[w]) + 1 \in DOMAIN queue'[w] /\ queue'[w][Len(queue[w]) + 1] = s
  BY <1>2, <1>4, <1>5
<1> SUFFICES ASSUME NEW t \in Slots, Ripe(t)' PROVE Placed(t)'
  BY DEF NoneIsLost
<1>8. Placed(t)
  BY <1>3, RipeStays DEF NoneIsLost
<1>9. CASE t = s
  BY <1>7, <1>9 DEF Placed
<1>10. CASE t # s /\ \E b \in Actors : t \in todo[b]
  BY <1>5, <1>10 DEF Placed
<1>11. CASE \E u \in Workers : \E i \in DOMAIN queue[u] : queue[u][i] = t
  <2>1. PICK u \in Workers : \E i \in DOMAIN queue[u] : queue[u][i] = t
    BY <1>11
  <2>2. \E i \in DOMAIN queue'[u] : queue'[u][i] = t
    BY <1>5, <1>6, <2>1
  <2> QED
    BY <2>2 DEF Placed
<1> QED
  BY <1>8, <1>9, <1>10, <1>11 DEF Placed

\* What was queued and not taken is still queued.
LEMMA RestPlaces ==
    ASSUME TypeInv, NEW w \in Workers, NEW o \in {0, 1}, queue[w] # <<>>,
           NEW i \in DOMAIN queue[w], queue[w][i] # Taken(w, o)
    PROVE  \E k \in DOMAIN Rest(w, o) : Rest(w, o)[k] = queue[w][i]
<1>1. queue[w] \in Seq(Slots) /\ Len(queue[w]) \in Nat \ {0} /\ i \in 1..Len(queue[w])
  BY DEF TypeInv, TypeOK
<1>2. Rest(w, o) \in Seq(Slots) /\ Len(Rest(w, o)) = Len(queue[w]) - 1
      /\ \A k \in 1..Len(Rest(w, o)) : Rest(w, o)[k] = queue[w][k + o]
  BY TakenPlaces
<1>3. CASE o = 1
  <2>1. i # 1
    BY <1>3 DEF Taken
  <2>2. i - 1 \in 1..Len(Rest(w, o)) /\ (i - 1) + o = i
    BY <1>1, <1>2, <1>3, <2>1
  <2>3. Rest(w, o)[i - 1] = queue[w][(i - 1) + o]
    BY <1>2, <2>2
  <2>4. Rest(w, o)[i - 1] = queue[w][i] /\ i - 1 \in DOMAIN Rest(w, o)
    BY <1>2, <2>2, <2>3
  <2> QED
    BY <2>4
<1>4. CASE o = 0
  <2>1. i # Len(queue[w])
    BY <1>4 DEF Taken
  <2>2. i \in 1..Len(Rest(w, o)) /\ i + o = i
    BY <1>1, <1>2, <1>4, <2>1
  <2> QED
    BY <1>2, <2>2
<1> QED
  BY <1>3, <1>4

LEMMA PlacedTake ==
    ASSUME SlotInv, Arcs, NoneIsLost, NEW a \in Actors, NEW w \in Workers, NEW o \in {0, 1},
           TakeOf(a, w, o)
    PROVE  NoneIsLost'
<1> DEFINE s == Taken(w, o)
           p == IF ph[a] \in {"seek", "steal"} THEN Resume(a) ELSE "drain"
<1>0. TypeInv
  BY DEF SlotInv
<1>1. /\ queue' = [queue EXCEPT ![w] = Rest(w, o)] /\ queue[w] # <<>>
      /\ UNCHANGED <<occupant, remaining, todo>>
  BY DEF TakeOf, graphVars
<1>2. s \in Slots /\ occupant[s] \in Jobs /\ a # occupant[s] /\ Call(a, occupant[s], p)
  BY TakeJob
<1>3. ph'[occupant[s]] = "run"
  <2> DEFINE j == occupant[s]
  <2>1. j \in Jobs /\ a # j /\ Call(a, j, p)
    BY <1>2
  <2> HIDE DEF j, p
  <2>2. ph'[j] = "run"
    BY <1>0, <2>1, CallOnly
  <2> QED
    BY <2>2 DEF j
<1>4. queue'[w] = Rest(w, o) /\ \A u \in Workers \ {w} : queue'[u] = queue[u]
  BY <1>0, <1>1 DEF TypeInv, TypeOK
<1> HIDE DEF p
<1> SUFFICES ASSUME NEW t \in Slots, Ripe(t)' PROVE Placed(t)'
  BY DEF NoneIsLost
<1>5. Placed(t)
  BY <1>1, RipeStays DEF NoneIsLost
<1>6. t # s
  BY <1>1, <1>3 DEF Ripe
<1>7. CASE \E b \in Actors : t \in todo[b]
  BY <1>1, <1>7 DEF Placed
<1>8. CASE \E u \in Workers : \E i \in DOMAIN queue[u] : queue[u][i] = t
  <2>1. PICK u \in Workers : \E i \in DOMAIN queue[u] : queue[u][i] = t
    BY <1>8
  <2>2. PICK i \in DOMAIN queue[u] : queue[u][i] = t
    BY <2>1
  <2>3. \E k \in DOMAIN queue'[u] : queue'[u][k] = t
    BY <1>0, <1>1, <1>4, <1>6, <2>2, RestPlaces
  <2> QED
    BY <2>3 DEF Placed
<1> QED
  BY <1>5, <1>7, <1>8 DEF Placed

LEMMA PlacedComplete ==
    ASSUME SlotInv, Arcs, NoneIsLost, NEW j \in Jobs, Complete(j) PROVE NoneIsLost'
<1> DEFINE s == handle[j].slot
<1>0. ph[j] = "complete" /\ s \in Slots
  BY DEF Complete, SlotInv, TypeInv, CompleteHasSlot
<1>1. /\ remaining' = [t \in Slots |->
             IF t \in dependents[s] /\ remaining[t] > 0 THEN remaining[t] - 1
             ELSE remaining[t]]
      /\ occupant' = [occupant EXCEPT ![s] = None]
      /\ todo' = [todo EXCEPT ![j] = Ready(s)]
      /\ queue' = queue
  BY DEF Complete, ReleaseSlot, queueVars
<1>2. Ready(s) = {t \in dependents[s] : remaining[t] = 1}
  BY DEF Ready
<1>3. todo[j] = {}
  BY <1>0 DEF SlotInv, Places, Enqueuing
<1> HIDE DEF s
<1>4. /\ occupant \in [Slots -> Jobs \cup {None}] /\ remaining \in [Slots -> Nat]
      /\ todo \in [Actors -> SUBSET Slots]
  BY DEF SlotInv, TypeInv, TypeOK
<1>5. todo'[j] = Ready(s) /\ \A b \in Actors \ {j} : todo'[b] = todo[b]
  BY <1>1, <1>4
<1> SUFFICES ASSUME NEW t \in Slots, Ripe(t)' PROVE Placed(t)'
  BY DEF NoneIsLost
<1>6. t # s /\ occupant'[t] = occupant[t] /\ occupant[t] \in Jobs
  BY <1>0, <1>1, <1>4 DEF Ripe
<1>7. ph[occupant[t]] = "off"
  BY <1>6, OffStays DEF Ripe
<1>8. CASE remaining[t] = 0
  <2>1. Placed(t)
    BY <1>6, <1>7, <1>8, MainIsApart DEF Ripe, NoneIsLost
  <2> QED
    BY <1>1, <1>3, <1>5, <2>1 DEF Placed
<1>9. CASE remaining[t] # 0
  <2>1. remaining'[t] = 0 /\ remaining[t] \in Nat
    BY <1>4 DEF Ripe
  <2>2. t \in dependents[s] /\ remaining[t] = 1
    BY <1>1, <1>9, <2>1
  <2>3. t \in todo'[j]
    BY <1>2, <1>5, <2>2
  <2> QED
    BY <2>3 DEF Placed
<1> QED
  BY <1>8, <1>9

LEMMA PlacedStep ==
    ASSUME SlotInv, NoneIsLost, Drained, [Next]_vars PROVE NoneIsLost'
<1>0. Arcs
  BY StepArcs
<1>1. CASE UNCHANGED <<queue, todo, occupant, remaining>>
  BY <1>0, <1>1, RipeStays, PlacedStays
<1>2. CASE \E a \in Bodies : RunInline(a)
  BY <1>1, <1>2, InlineSlot DEF queueVars, graphVars
<1>3. CASE \E a \in Actors : \E w \in Workers, o \in {0, 1} : TakeOf(a, w, o)
  BY <1>0, <1>3, PlacedTake
<1>4. CASE \E a \in Actors : Push(a) \/ Count(a) \/ Park(a) \/ Sleep(a)
  BY <1>0, <1>1, <1>4, PlacedPush DEF Count, Park, Sleep, queueVars, graphVars
<1>5. CASE \E j \in Jobs : JobStep(j)
  BY <1>0, <1>1, <1>5, PlacedComplete DEF JobStep, Return, Leave, queueVars, graphVars
<1>6. CASE InitPool
  <2>1. CASE running
    BY <1>1, <1>6, <2>1 DEF InitPool, queueVars
  <2>2. CASE ~running
    <3>1. \A s \in Slots : occupant'[s] = None
      BY <1>6, <2>2 DEF InitPool
    <3> QED
      BY <3>1 DEF NoneIsLost, Ripe
  <2> QED
    BY <2>1, <2>2
<1>7. CASE StopRunning
  BY <1>1, <1>7 DEF StopRunning, queueVars, graphVars
<1>8. CASE Join
  <2>1. UNCHANGED <<todo, occupant, remaining>> /\ queue' = [w \in Workers |-> <<>>]
        /\ \A w \in Workers : ph[w] = "exited"
    BY <1>8 DEF Join, graphVars
  <2>2. queue' = queue
    BY <2>1 DEF Drained, SlotInv, TypeInv, TypeOK
  <2> QED
    BY <1>1, <2>1, <2>2
<1>9. CASE \E a \in Actors : Calm(a)
  BY <1>1, <1>9 DEF Calm, queueVars, graphVars
<1>10. CASE UNCHANGED vars
  BY <1>1, <1>10 DEF vars, queueVars, graphVars
<1> QED
  BY <1>0, <1>2, <1>3, <1>4, <1>5, <1>6, <1>7, <1>8, <1>9, <1>10, PlacedAllocate, StepKinds

-----------------------------------------------------------------------------
LEMMA DrainedStays ==
    ASSUME Drained, UNCHANGED queue,
           \A w \in Workers : ph'[w] \in {"drainSteal", "exited", "off"} =>
                                 ph[w] \in {"drainSteal", "exited", "off"}
    PROVE  Drained'
BY DEF Drained

\* Nobody queues a slot on a worker that has stopped looking at its queue.
LEMMA DrainedPush ==
    ASSUME SlotInv, Stack, Down, Drained, NEW a \in Actors, Push(a) PROVE Drained'
<1>0. TypeInv
  BY DEF SlotInv
<1>1. PICK s \in todo[a] : \E w \in Workers : s \in Slots /\ PushAt(a, s, w)
  BY <1>0, PushSlot
<1>2. PICK w \in Workers : s \in Slots /\ PushAt(a, s, w)
  BY <1>1
<1>3. ph[a] = "push" /\ Goto(a, "count") /\ a \in Bodies
  BY <1>0, PushSlot, EnqueuersAreBodies DEF Enqueuing
<1>4. \A u \in Workers : ph'[u] = ph[u] /\ (u # w => queue'[u] = queue[u])
  <2>1. a \notin Workers
    BY <1>3, MainIsApart
  <2> QED
    BY <1>0, <1>2, <1>3, <2>1, GotoOnly DEF PushAt, TypeInv, TypeOK
<1>5. ph[w] \notin {"drainSteal", "exited", "off"}
  <2>1. a # Main => a \in Jobs /\ Active(a)
    BY <1>3 DEF Active
  <2>2. a # Main => on[a] \in Threads /\ ph[on[a]] \in {"run", "loop", "drain"}
    BY <2>1, OnAThread
  <2>3. CASE on[a] \in Workers
    <3>1. a # Main
      BY <2>3, MainIsApart DEF Stack
    <3> QED
      BY <1>2, <2>2, <2>3, <3>1 DEF PushAt
  <2>4. CASE on[a] \notin Workers
    <3>1. ph[Main] \notin {"stopNotify", "join"}
      BY <1>3, <2>2, <2>4
    <3>2. running
      BY <1>3, <3>1 DEF Down, Serial
    <3> QED
      BY <3>2 DEF SlotInv, Life
  <2> QED
    BY <2>3, <2>4
<1> QED
  BY <1>4, <1>5 DEF Drained

LEMMA DrainedTake ==
    ASSUME SlotInv, Drained, NEW a \in Actors, NEW w \in Workers, NEW o \in {0, 1},
           TakeOf(a, w, o)
    PROVE  Drained'
<1> DEFINE j == occupant[Taken(w, o)]
           p == IF ph[a] \in {"seek", "steal"} THEN Resume(a) ELSE "drain"
<1>0. TypeInv
  BY DEF SlotInv
<1>1. /\ queue' = [queue EXCEPT ![w] = Rest(w, o)] /\ queue[w] # <<>>
  BY DEF TakeOf
<1>2. j \in Jobs /\ a # j /\ Call(a, j, p)
  BY TakeJob
<1>3. p \notin {"drainSteal", "exited", "off"}
  BY DEF Resume
<1> HIDE DEF j, p
<1>4. \A u \in Workers : ph'[u] = ph[u] \/ ph'[u] = p
  BY <1>0, <1>2, CallOnly, MainIsApart
<1>5. \A u \in Workers \ {w} : queue'[u] = queue[u]
  BY <1>0, <1>1 DEF TypeInv, TypeOK
<1> QED
  BY <1>1, <1>3, <1>4, <1>5 DEF Drained

LEMMA DrainedStep ==
    ASSUME SlotInv, Stack, Down, Drained, [Next]_vars PROVE Drained'
<1> DEFINE Done(p) == p \in {"drainSteal", "exited", "off"}
<1>0. TypeInv
  BY DEF SlotInv
<1>1. CASE UNCHANGED queue /\ \A w \in Workers : Done(ph'[w]) => Done(ph[w])
  BY <1>1, DrainedStays
<1>2. CASE \E a \in Bodies : Allocate(a) \/ RunInline(a)
  <2>1. UNCHANGED queue
    BY <1>2, AllocateSlot, InlineSlot DEF queueVars
  <2>2. \A w \in Workers : ph'[w] = ph[w]
    <3>1. CASE \E a \in Bodies : Allocate(a)
      <4>1. PICK a \in Bodies : Allocate(a)
        BY <3>1
      <4> QED
        BY <4>1, AllocateSlot, AllocateMoves, MainIsApart
    <3>2. CASE \E a \in Bodies : RunInline(a)
      <4>1. PICK a \in Bodies : RunInline(a)
        BY <3>2
      <4>2. Target(a) \in Jobs /\ a # Target(a) /\ Call(a, Target(a), "run")
        BY <4>1, InlineSlot, TargetIsFresh
      <4> QED
        BY <1>0, <4>2, CallOnly, MainIsApart
    <3> QED
      BY <1>2, <3>1, <3>2
  <2> QED
    BY <1>1, <2>1, <2>2
<1>3. CASE \E a \in Actors : \E w \in Workers, o \in {0, 1} : TakeOf(a, w, o)
  BY <1>3, DrainedTake
<1>4. CASE \E a \in Actors : Push(a) \/ Count(a) \/ Park(a) \/ Sleep(a)
  <2>1. PICK a \in Actors : Push(a) \/ Count(a) \/ Park(a) \/ Sleep(a)
    BY <1>4
  <2>2. CASE Push(a)
    BY <2>2, DrainedPush
  <2>3. CASE Count(a) \/ Park(a) \/ Sleep(a)
    <3>1. UNCHANGED queue /\ \E p \in {"notify", "run", "loop", "sleep", "asleep"} : Goto(a, p)
      BY <2>3 DEF Count, Park, Sleep, Resume, queueVars
    <3> QED
      BY <1>0, <1>1, <3>1, GotoOnly
  <2> QED
    BY <2>1, <2>2, <2>3
<1>5. CASE \E j \in Jobs : JobStep(j)
  <2>1. PICK j \in Jobs : JobStep(j)
    BY <1>5
  <2>2. UNCHANGED queue
    BY <2>1 DEF JobStep, Return, Complete, Leave, queueVars
  <2>3. \A w \in Workers : ph'[w] = ph[w] \/ ph'[w] = "park"
    <3>1. CASE Leave(j)
      BY <1>0, <3>1, NotifyOnly, MainIsApart DEF Leave
    <3>2. CASE Return(j) \/ Complete(j)
      <4>1. \E p \in {"dead", "complete", "leave", "push"} : Goto(j, p)
        BY <3>2 DEF Return, Complete
      <4> QED
        BY <1>0, <4>1, GotoOnly, MainIsApart
    <3> QED
      BY <2>1, <3>1, <3>2 DEF JobStep
  <2> QED
    BY <1>1, <2>2, <2>3
<1>6. CASE InitPool \/ StopRunning
  <2>1. UNCHANGED queue
    BY <1>6 DEF InitPool, StopRunning, queueVars
  <2>2. \A w \in Workers : ph'[w] = ph[w] \/ ph'[w] = "loop"
    <3>1. CASE InitPool
      BY <3>1 DEF InitPool
    <3>2. CASE StopRunning
      BY <1>0, <3>2, GotoOnly, MainIsApart DEF StopRunning
    <3> QED
      BY <1>6, <3>1, <3>2
  <2> QED
    BY <1>1, <2>1, <2>2
<1>7. CASE Join
  <2>1. \A w \in Workers : queue'[w] = <<>>
    BY <1>7 DEF Join
  <2> QED
    BY <2>1 DEF Drained
<1>8. CASE \E a \in Actors : Calm(a)
  <2>1. PICK a \in Actors : Calm(a)
    BY <1>8
  <2>2. UNCHANGED queue
    BY <2>1 DEF Calm, queueVars
  <2> SUFFICES ASSUME NEW w \in Workers, Done(ph'[w]) PROVE queue[w] = <<>>
    BY <2>2 DEF Drained
  <2>3. CASE Done(ph[w])
    BY <2>3 DEF Drained
  <2>4. CASE ~Done(ph[w])
    <3>1. w = a
      BY <2>1, <2>4 DEF Calm
    <3>2. ph'[w] = "drainSteal"
      <4>1. Arcs
        BY StepArcs
      <4>2. w \notin Bodies
        BY MainIsApart
      <4>3. WorkerArc(w)
        BY <2>4, <4>1, <4>2, MainIsApart DEF Arcs, Arc, Still
      <4> QED
        BY <2>4, <4>3 DEF WorkerArc
    <3>3. on[w] = w
      BY DEF Stack
    <3> QED
      BY <2>1, <2>4, <3>1, <3>2, <3>3 DEF Calm
  <2> QED
    BY <2>3, <2>4
<1>9. CASE UNCHANGED vars
  BY <1>1, <1>9 DEF vars, queueVars
<1> QED
  BY <1>2, <1>3, <1>4, <1>5, <1>6, <1>7, <1>8, <1>9, StepKinds

-----------------------------------------------------------------------------
LEMMA EdgesAllocate ==
    ASSUME SlotInv, Edges, NEW a \in Bodies, Allocate(a) PROVE Edges'
<1>1. PICK s \in freeSlots : s \in Slots /\ AllocateAt(a, s)
  BY AllocateSlot
<1>2. ph[a] = "alloc" /\ AtSchedule(a)
  BY AllocateSlot
<1> DEFINE j == Target(a)
           live == LiveDeps(j)
<1>3. j \in Jobs
  BY <1>2, TargetIsFresh
<1>4. /\ occupant' = [occupant EXCEPT ![s] = j]
      /\ dependents' = [t \in Slots |->
             IF t = s THEN {}
             ELSE IF \E d \in live : handle[d].slot = t
                  THEN dependents[t] \cup {s} ELSE dependents[t]]
  BY <1>1 DEF AllocateAt
<1>5. live \in SUBSET Jobs /\ live \subseteq Deps[j] /\ \A d \in live : ~Finished(handle[d])
  BY <1>3, PoolAssumption DEF LiveDeps
<1>6. \A d \in live : handle[d].slot \in Slots /\ occupant[handle[d].slot] = d
  BY <1>5, LiveSlots
<1> HIDE DEF j, live
<1>7. occupant \in [Slots -> Jobs \cup {None}] /\ dependents \in [Slots -> SUBSET Slots]
  BY DEF SlotInv, TypeInv, TypeOK
<1>8. occupant[s] = None
  BY <1>1 DEF SlotInv, SlotsAnswer
<1> SUFFICES ASSUME NEW t \in Slots, NEW u \in dependents'[t]
             PROVE  occupant'[t] \in Deps[occupant'[u]]
  BY DEF Edges
<1>9. t # s /\ occupant'[t] = occupant[t]
  BY <1>1, <1>4, <1>7
<1>10. CASE u \in dependents[t]
  <2>1. u # s /\ occupant[t] \in Deps[occupant[u]] /\ u \in Slots
    BY <1>7, <1>8, <1>10 DEF Edges, SlotInv, Waits
  <2> QED
    BY <1>4, <1>7, <1>9, <2>1
<1>11. CASE u \notin dependents[t]
  <2>1. u = s /\ \E d \in live : handle[d].slot = t
    BY <1>4, <1>9, <1>11
  <2>2. occupant'[u] = j
    BY <1>1, <1>4, <1>7, <2>1
  <2> QED
    BY <1>5, <1>6, <1>9, <2>1, <2>2
<1> QED
  BY <1>10, <1>11

LEMMA EdgesComplete ==
    ASSUME SlotInv, Edges, NEW j \in Jobs, Complete(j) PROVE Edges'
<1> DEFINE s == handle[j].slot
<1>1. /\ s \in Slots /\ ph[j] = "complete" /\ occupant[s] = j
      /\ occupant' = [occupant EXCEPT ![s] = None]
      /\ dependents' = [dependents EXCEPT ![s] = {}]
  BY DEF Complete, ReleaseSlot, SlotInv, TypeInv, CompleteHasSlot, SlotsAnswer
<1> HIDE DEF s
<1>2. occupant \in [Slots -> Jobs \cup {None}] /\ dependents \in [Slots -> SUBSET Slots]
  BY DEF SlotInv, TypeInv, TypeOK
<1> SUFFICES ASSUME NEW t \in Slots, NEW u \in dependents'[t]
             PROVE  occupant'[t] \in Deps[occupant'[u]]
  BY DEF Edges
<1>3. t # s /\ u \in dependents[t] /\ u \in Slots
  BY <1>1, <1>2
<1>4. occupant[t] \in Deps[occupant[u]] /\ ph[occupant[u]] = "off"
  BY <1>3 DEF Edges, SlotInv, Waits
<1>5. u # s
  BY <1>1, <1>4
<1> QED
  BY <1>1, <1>2, <1>3, <1>4, <1>5

LEMMA EdgesStep ==
    ASSUME SlotInv, SlotInv', Edges, [Next]_vars PROVE Edges'
<1>1. CASE UNCHANGED <<occupant, dependents>>
  BY <1>1 DEF Edges
<1>2. CASE \E a \in Bodies : RunInline(a)
  BY <1>1, <1>2, InlineSlot DEF graphVars
<1>3. CASE \E a \in Actors : \E w \in Workers, o \in {0, 1} : TakeOf(a, w, o)
  BY <1>1, <1>3 DEF TakeOf, graphVars
<1>4. CASE \E a \in Actors : Push(a) \/ Count(a) \/ Park(a) \/ Sleep(a)
  BY <1>1, <1>4 DEF Push, Count, Park, Sleep, graphVars
<1>5. CASE \E j \in Jobs : JobStep(j)
  BY <1>1, <1>5, EdgesComplete DEF JobStep, Return, Leave, graphVars
<1>6. CASE InitPool
  <2>1. CASE running
    BY <1>1, <1>6, <2>1 DEF InitPool
  <2>2. CASE ~running
    <3>1. \A s \in Slots : occupant'[s] = None
      BY <1>6, <2>2 DEF InitPool
    <3>2. \A s \in Slots : dependents'[s] = {}
      BY <3>1 DEF SlotInv, Waits
    <3> QED
      BY <3>2 DEF Edges
  <2> QED
    BY <2>1, <2>2
<1>7. CASE StopRunning \/ Join
  BY <1>1, <1>7 DEF StopRunning, Join, graphVars
<1>8. CASE \E a \in Actors : Calm(a)
  BY <1>1, <1>8 DEF Calm, graphVars
<1>9. CASE UNCHANGED vars
  BY <1>1, <1>9 DEF vars, graphVars
<1> QED
  BY <1>2, <1>3, <1>4, <1>5, <1>6, <1>7, <1>8, <1>9, EdgesAllocate, StepKinds

-----------------------------------------------------------------------------
\* With the queues empty and nobody on a stack, nothing that was scheduled is left:
\* what waits, waits for what waits, and the first to have been scheduled for nothing.
LEMMA AllHaveRun ==
    ASSUME SlotInv, NoneIsLost, Grounded, Edges, ~Enqueuing(Main),
           \A j \in Jobs : ~Active(j), \A w \in Workers : queue[w] = <<>>
    PROVE  \A j \in Jobs : handle[j] # NoHandle => j \in done
<1> DEFINE X == {j \in Jobs : handle[j] # NoHandle /\ j \notin done}
<1> SUFFICES ASSUME X # {} PROVE FALSE
  OBVIOUS
<1>1. \A j \in X : HasSlot(j)
  BY DEF HasSlot, SlotInv, SlotsAnswer
<1>2. X \in SUBSET {j \in Jobs : HasSlot(j)}
  BY <1>1
<1>3. PICK j \in X : Deps[j] \cap X = {}
  BY <1>2 DEF Grounded
<1> DEFINE s == handle[j].slot
<1>4. j \in Jobs /\ j \notin done /\ s \in Slots
  BY <1>1 DEF HasSlot, SlotInv, TypeInv, TypeOK
<1>5. occupant[s] = j
  BY <1>1, <1>4 DEF HasSlot, SlotInv, SlotsAnswer
<1>6. ph[j] = "off"
  BY <1>4 DEF Active, SlotInv, DoneFits
<1>7. \A a \in Actors : ~Enqueuing(a)
  <2> SUFFICES ASSUME NEW a \in Actors, Enqueuing(a) PROVE FALSE
    OBVIOUS
  <2>1. a \in Bodies
    BY EnqueuersAreBodies
  <2> QED
    BY <2>1 DEF Enqueuing, Active
<1>8. ~Placed(s)
  <2>1. \A a \in Actors : todo[a] = {}
    BY <1>7 DEF SlotInv, Places
  <2>2. \A w \in Workers : DOMAIN queue[w] = {}
    OBVIOUS
  <2> QED
    BY <2>1, <2>2 DEF Placed
<1> HIDE DEF s
<1>9. remaining[s] # 0
  BY <1>4, <1>5, <1>6, <1>8, MainIsApart DEF NoneIsLost, Ripe
<1>10. PICK u \in Slots : s \in dependents[u]
  <2>1. Before(s) # {}
    BY <1>4, <1>9, FS_EmptySet DEF SlotInv, Waits
  <2> QED
    BY <2>1 DEF Before
<1> DEFINE k == occupant[u]
<1>11. k \in Jobs
  BY <1>10 DEF SlotInv, Waits, TypeInv, TypeOK
<1>12. k \in Deps[j]
  BY <1>5, <1>10 DEF Edges
<1>13. handle[k].slot = u /\ ~Released(k)
  BY <1>11, MainIsApart DEF SlotInv, SlotsAnswer
<1> HIDE DEF k
<1>14. handle[k] # NoHandle
  BY <1>13, MainIsApart DEF NoHandle
<1>15. k \notin done
  BY <1>7, <1>11, <1>13 DEF Released, Active, SlotInv, DoneFits
<1> HIDE DEF X
<1>16. k \in X
  BY <1>11, <1>14, <1>15 DEF X
<1> QED
  BY <1>3, <1>12, <1>16

LEMMA AllHaveRunAtJoin ==
    ASSUME SlotInv, Stack, NoneIsLost, Drained, Grounded, Edges,
           ph[Main] \in {"stopNotify", "join"}, \A w \in Workers : ph[w] = "exited"
    PROVE  \A j \in Jobs : ~Active(j) /\ (handle[j] # NoHandle => j \in done)
<1>1. \A j \in Jobs : ~Active(j)
  BY NobodyIsLeft
<1>2. \A w \in Workers : queue[w] = <<>>
  BY DEF Drained
<1> QED
  BY <1>1, <1>2, AllHaveRun DEF Enqueuing

\* The pool is down: what a handle names is over, and every body is a caller's.
LEMMA DownStep ==
    ASSUME SlotInv, SlotInv', Stack, NoneIsLost, Drained, Grounded, Edges, Down, [Next]_vars
    PROVE  Down'
<1>0. Arcs /\ Histories
  BY StepArcs, StepHistories
<1> SUFFICES ASSUME Serial'
             PROVE  /\ \A j \in Jobs : handle'[j] # NoHandle => j \in done'
                    /\ \A b \in Bodies : ph'[b] \in {"off", "run", "dead"}
  BY DEF Down
<1>1. ~running' /\ ph'[Main] \notin {"stopNotify", "join"}
  BY DEF Serial
<1>2. ~running
  <2>1. running' = running
    BY <1>0, <1>1 DEF Histories, RunningMoves
  <2> QED
    BY <1>1, <2>1
<1>3. /\ \A j \in Jobs : handle[j] # NoHandle => j \in done
      /\ \A b \in Bodies : b # Main => ph[b] \in {"off", "run", "dead"}
      /\ \/ Serial
         \/ ph[Main] = "join" /\ ph'[Main] = "run"
  <2>1. CASE Serial
    BY <2>1 DEF Down
  <2>2. CASE ~Serial
    <3>1. ph[Main] \in {"stopNotify", "join"}
      BY <1>2, <2>2 DEF Serial
    <3>2. MainArc
      BY <1>0, <1>1, <3>1, ArcKinds, MainIsApart DEF Arcs, Arc, Still, BodyArc
    <3>3. ph[Main] = "join" /\ ph'[Main] = "run" /\ \A w \in Workers : ph[w] = "exited"
      BY <1>1, <3>1, <3>2 DEF MainArc
    <3>4. \A j \in Jobs : ~Active(j) /\ (handle[j] # NoHandle => j \in done)
      BY <3>3, AllHaveRunAtJoin
    <3> QED
      BY <3>3, <3>4 DEF Active
  <2> QED
    BY <2>1, <2>2
<1>4. \A a \in Bodies : ~Allocate(a)
  <2> SUFFICES ASSUME NEW a \in Bodies, Allocate(a) PROVE FALSE
    OBVIOUS
  <2>1. ph[a] = "alloc"
    BY AllocateSlot
  <2> QED
    BY <1>3, <2>1 DEF Down
<1>5. \A j \in Jobs : handle'[j] = handle[j] \/ (handle'[j] = SerialHandle /\ j \in done')
  BY <1>4, HandleMoves
<1>6. \A j \in Jobs : handle'[j] # NoHandle => j \in done'
  BY <1>0, <1>3, <1>5 DEF Histories
<1>7. \A j \in Jobs : ph[j] = "run" => ph'[j] # "complete"
  <2> SUFFICES ASSUME NEW j \in Jobs, ph[j] = "run", ph'[j] = "complete" PROVE FALSE
    OBVIOUS
  <2>1. handle'[j].slot \in Slots
    BY DEF SlotInv, TypeInv, CompleteHasSlot
  <2>2. handle[j] = handle'[j] /\ handle[j] # NoHandle
    BY <1>5, <2>1, MainIsApart DEF SerialHandle, NoHandle
  <2> QED
    BY <1>3, <2>2 DEF SlotInv, DoneFits, Enqueuing
<1>8. \A a \in Bodies : ph[a] = "run" /\ AtWait(a) /\ handle[Target(a)] # NoHandle
                           => Finished(handle[Target(a)])
  <2> SUFFICES ASSUME NEW a \in Bodies, ph[a] = "run", AtWait(a), handle[Target(a)] # NoHandle
               PROVE  Finished(handle[Target(a)])
    OBVIOUS
  <2>1. Target(a) \in Jobs
    BY PoolAssumption DEF AtWait, Target
  <2>2. ph[Target(a)] = "dead"
    BY <1>3, <2>1, MainIsApart DEF SlotInv, DoneFits, Enqueuing
  <2>3. HandlesTrue
    BY TrueHandles
  <2> QED
    BY <2>1, <2>2, <2>3 DEF HandlesTrue, HandleTruth
<1>9. \A b \in Bodies : ph'[b] \in {"off", "run", "dead"}
  <2> SUFFICES ASSUME NEW b \in Bodies PROVE ph'[b] \in {"off", "run", "dead"}
    OBVIOUS
  <2>1. CASE b = Main /\ ph[Main] = "join"
    BY <1>3, <2>1 DEF Down
  <2>2. CASE ~(b = Main /\ ph[Main] = "join")
    <3>1. ph[b] \in {"off", "run", "dead"}
      BY <1>3, <2>2 DEF Down
    <3>2. b \notin Workers
      BY MainIsApart
    <3>3. BodyArc(b) => ph'[b] \in {"off", "run", "dead"}
      BY <1>2, <1>8, <3>1 DEF BodyArc
    <3>4. b \in Jobs /\ JobArc(b) => ph'[b] \in {"off", "run", "dead"}
      BY <1>7, <3>1 DEF JobArc
    <3>5. b = Main /\ MainArc => ph'[b] \in {"off", "run", "dead"}
      BY <1>2, <3>1 DEF MainArc
    <3> QED
      BY <1>0, <3>1, <3>2, <3>3, <3>4, <3>5 DEF Arcs, Arc, Still
  <2> QED
    BY <2>1, <2>2
<1> QED
  BY <1>6, <1>9

-----------------------------------------------------------------------------
PoolInv == SlotInv /\ Stack /\ CountFits /\ NothingLost

LEMMA PoolInit == Init => PoolInv
<1> SUFFICES ASSUME Init PROVE PoolInv
  OBVIOUS
<1>1. SlotInv
  BY SlotInit
<1>2. /\ \A a \in Actors : ph[a] = IF a = Main THEN "run" ELSE "off"
      /\ \A a \in Actors : callee[a] = None /\ todo[a] = {}
      /\ \A t \in Threads : on[t] = t
      /\ queue = [w \in Workers |-> <<>>] /\ readyCount = 0
      /\ \A j \in Jobs : handle[j] = NoHandle
      /\ \A s \in Slots : occupant[s] = None /\ dependents[s] = {}
  BY DEF Init
<1>3. Stack
  <2>1. {j \in Jobs : Active(j)} = {}
    BY <1>2, MainIsApart DEF Active
  <2>2. Rooted
    BY <2>1 DEF Rooted
  <2>3. ActiveIsCalled
    BY <2>1 DEF ActiveIsCalled
  <2> QED
    BY <1>2, <2>2, <2>3 DEF Stack, CallersWait, OneCaller
<1>4. CountFits
  <2>1. Queued = {}
    <3>1. \A w \in Workers : DOMAIN queue[w] = {}
      BY <1>2
    <3> QED
      BY <3>1, QueuedAre
  <2>2. Uncounted = {}
    BY <1>2 DEF Uncounted
  <2> QED
    BY <1>2, <2>1, <2>2, FS_EmptySet DEF CountFits, ReadyCounted
<1>5. NoneIsLost /\ Drained /\ InHandFits /\ Edges
  BY <1>2 DEF NoneIsLost, Ripe, Drained, InHandFits, Edges
<1>6. Grounded
  <2>1. {j \in Jobs : HasSlot(j)} = {}
    BY <1>2 DEF HasSlot, NoHandle
  <2> QED
    BY <2>1 DEF Grounded
<1>7. Down
  BY <1>2 DEF Down
<1> QED
  BY <1>1, <1>3, <1>4, <1>5, <1>6, <1>7 DEF PoolInv, NothingLost

LEMMA PoolStep == ASSUME OneLife PROVE PoolInv /\ [Next]_vars => PoolInv'
<1> SUFFICES ASSUME PoolInv, [Next]_vars PROVE PoolInv'
  OBVIOUS
<1>1. SlotInv /\ Stack /\ CountFits /\ NoneIsLost /\ Drained /\ InHandFits /\ Grounded
      /\ Edges /\ Down
  BY DEF PoolInv, NothingLost
<1>2. SlotInv'
  BY <1>1, SlotStep
<1>3. Stack' /\ CountFits'
  BY <1>1, StackStep, CountStep
<1>4. NoneIsLost' /\ Drained'
  BY <1>1, PlacedStep, DrainedStep
<1>5. InHandFits' /\ Grounded'
  BY <1>1, StepArcs, StepHistories, InHandKept, GroundedStep
<1>6. Edges' /\ Down'
  BY <1>1, <1>2, EdgesStep, DownStep
<1> QED
  BY <1>2, <1>3, <1>4, <1>5, <1>6 DEF PoolInv, NothingLost

\* In every reachable state the stacks, the count and the places of the slots agree:
\* the invariant behind the two theorems below.
THEOREM PoolHolds == ASSUME OneLife PROVE Spec => []PoolInv
BY PoolInit, PoolStep, PTL DEF Spec

-----------------------------------------------------------------------------
LEMMA ConservedSlots == PoolInv => SlotsConserved
<1> SUFFICES ASSUME PoolInv, NEW s \in Slots, occupant[s] # None
             PROVE  LET j == occupant[s]
                        waits  == IF remaining[s] > 0 THEN 1 ELSE 0
                        held   == Cardinality({a \in Actors : s \in todo[a]})
                        onTop  == IF runs[j] > 0 THEN 1 ELSE 0
                    IN  s \notin freeSlots
                        /\ waits + held + Cardinality(PlacesOf(s)) + onTop = 1
  BY DEF SlotsConserved
<1> DEFINE j == occupant[s]
           H == {a \in Actors : s \in todo[a]}
           P == PlacesOf(s)
<1>1. SlotInv /\ NoneIsLost
  BY DEF PoolInv, NothingLost
<1>2. j \in Jobs /\ runs[j] \in Nat /\ remaining[s] \in Nat /\ s \notin freeSlots
      /\ (runs[j] = 0 <=> ph[j] = "off")
  BY <1>1 DEF SlotInv, TypeInv, TypeOK, DoneFits, SlotsAnswer
<1>3. \A q : q \in P <=> \E w \in Workers : \E i \in DOMAIN queue[w] :
                            q = <<w, i>> /\ queue[w][i] = s
  BY QueuedAre DEF PlacesOf
<1>4. ASSUME ~Ripe(s) PROVE H = {} /\ P = {}
  <2>1. H = {}
    BY <1>1, <1>4 DEF SlotInv, Places
  <2>2. P = {}
    BY <1>1, <1>3, <1>4 DEF SlotInv, Places
  <2> QED
    BY <2>1, <2>2
<1>5. CASE runs[j] > 0
  <2>1. ph[j] # "off"
    BY <1>2, <1>5
  <2>2. remaining[s] = 0
    <3>1. Before(s) = {}
      BY <1>1, <2>1 DEF Before, SlotInv, Waits
    <3> QED
      BY <1>1, <3>1, FS_EmptySet DEF SlotInv, Waits
  <2>3. H = {} /\ P = {}
    BY <1>4, <2>1 DEF Ripe
  <2>4. Cardinality(H) = 0 /\ Cardinality(P) = 0
    BY <2>3, FS_EmptySet
  <2> QED
    BY <1>2, <1>5, <2>2, <2>4
<1>6. CASE ~(runs[j] > 0) /\ remaining[s] > 0
  <2>1. H = {} /\ P = {}
    BY <1>2, <1>4, <1>6 DEF Ripe
  <2>2. Cardinality(H) = 0 /\ Cardinality(P) = 0
    BY <2>1, FS_EmptySet
  <2> QED
    BY <1>2, <1>6, <2>2
<1>7. CASE ~(runs[j] > 0) /\ ~(remaining[s] > 0)
  <2>1. Ripe(s)
    BY <1>2, <1>7, MainIsApart DEF Ripe
  <2>2. CASE \E a \in Actors : s \in todo[a]
    <3>1. PICK a \in Actors : s \in todo[a]
      BY <2>2
    <3>2. H = {a}
      BY <1>1, <3>1 DEF SlotInv, Places
    <3>3. P = {}
      BY <1>1, <1>3, <3>1 DEF SlotInv, Places
    <3>4. Cardinality(H) = 1 /\ Cardinality(P) = 0
      BY <3>2, <3>3, FS_EmptySet, FS_Singleton
    <3> QED
      BY <1>2, <1>7, <3>4
  <2>3. CASE \E w \in Workers : \E i \in DOMAIN queue[w] : queue[w][i] = s
    <3>0. PICK w \in Workers : \E i \in DOMAIN queue[w] : queue[w][i] = s
      BY <2>3
    <3>1. PICK i \in DOMAIN queue[w] : queue[w][i] = s
      BY <3>0
    <3>2. P = {<<w, i>>}
      <4>1. <<w, i>> \in P
        BY <1>3, <3>1
      <4>2. ASSUME NEW q \in P PROVE q = <<w, i>>
        BY <1>1, <1>3, <3>1 DEF SlotInv, Places
      <4> QED
        BY <4>1, <4>2
    <3>3. H = {}
      BY <1>1, <3>1 DEF SlotInv, Places
    <3>4. Cardinality(H) = 0 /\ Cardinality(P) = 1
      BY <3>2, <3>3, FS_EmptySet, FS_Singleton
    <3> QED
      BY <1>2, <1>7, <3>4
  <2> QED
    BY <1>1, <2>1, <2>2, <2>3 DEF NoneIsLost, Placed
<1> QED
  BY <1>5, <1>6, <1>7

\* The pool's bookkeeping is exact: a slot that holds a job waits, or is about to be
\* queued, or is queued once, or is on a stack, and readyCount is what is queued less
\* what its enqueue has yet to count.
THEOREM PoolExactHolds == ASSUME OneLife PROVE Spec => []PoolExact
<1>1. PoolInv => PoolExact
  BY ConservedSlots DEF PoolInv, CountFits, PoolExact
<1> QED
  BY <1>1, PoolHolds, PTL

LEMMA NothingIsLeft == PoolInv => ShutdownRunsEverything
<1> SUFFICES ASSUME PoolInv, \A w \in Workers : ph[w] \in {"exited", "off"}
             PROVE  \A j \in Jobs : handle[j] # NoHandle => j \in done
  BY DEF ShutdownRunsEverything
<1>1. SlotInv /\ Stack /\ NothingLost
  BY DEF PoolInv
<1>2. ~running
  BY <1>1, PoolAssumption DEF SlotInv, Life
<1>3. CASE Serial
  BY <1>1, <1>3 DEF NothingLost, Down
<1>4. CASE ~Serial
  <2>1. ph[Main] \in {"stopNotify", "join"} /\ \A w \in Workers : ph[w] = "exited"
    BY <1>1, <1>2, <1>4 DEF Serial, SlotInv, Life
  <2> QED
    BY <1>1, <2>1, AllHaveRunAtJoin DEF NothingLost
<1> QED
  BY <1>3, <1>4

\* shutdown runs everything: once the workers have left, every job that was ever
\* scheduled has run, those that were waiting for others included.
THEOREM ShutdownRunsEverythingHolds == ASSUME OneLife PROVE Spec => []ShutdownRunsEverything
BY NothingIsLeft, PoolHolds, PTL

-----------------------------------------------------------------------------
(* D037, the enqueuing half.  An actor that is about to sleep holds the lock and *)
(* found nothing; while one is asleep, whoever has changed what it sleeps on has *)
(* its notification still to make.                                               *)

SleeperLooked ==
    \A a \in Actors : ph[a] = "sleep" =>
        readyCount <= 0 /\ (a \in Bodies => ~Finished(handle[Target(a)]))

AsleepFits ==
    \A a \in Actors : ph[a] = "asleep" =>
        /\ readyCount > 0 => \E b \in Actors : ph[b] = "notify"
        /\ a \in Bodies /\ Finished(handle[Target(a)]) =>
               \E b \in Actors : ph[b] \in {"push", "count", "notify", "leave"}

WakeInv == PoolInv /\ ShutdownInv /\ SleeperLooked /\ AsleepFits

\* Whoever leaves a place, unless it is woken, called, started or joined, leaves it
\* by a step of its own.
Moves(b) ==
    \/ b \in Bodies /\ (Allocate(b) \/ RunInline(b))
    \/ \E w \in Workers, o \in {0, 1} : TakeOf(b, w, o)
    \/ Push(b) \/ Count(b) \/ Park(b) \/ Sleep(b)
    \/ b \in Jobs /\ JobStep(b)
    \/ b = Main /\ (StopRunning \/ Join)
    \/ Calm(b)

LEMMA MoverIs ==
    ASSUME SlotInv, [Next]_vars, NEW b \in Actors, ph'[b] # ph[b],
           ph[b] \notin {"asleep", "off", "exited"}
    PROVE  Moves(b)
<1>0. TypeInv
  BY DEF SlotInv
<1>1. CASE \E a \in Bodies : Allocate(a)
  <2>1. PICK a \in Bodies : Allocate(a)
    BY <1>1
  <2>2. \A c \in Actors \ {a} : ph'[c] = ph[c]
    BY <2>1, AllocateSlot, AllocateMoves
  <2> QED
    BY <2>1, <2>2 DEF Moves
<1>2. CASE \E a \in Bodies : RunInline(a)
  <2>1. PICK a \in Bodies : RunInline(a)
    BY <1>2
  <2>2. /\ Target(a) \in Jobs /\ a # Target(a) /\ Call(a, Target(a), "run")
        /\ ph[Target(a)] = "off"
    BY <2>1, InlineSlot, TargetIsFresh
  <2>3. ph'[a] = "run" /\ \A c \in Actors \ {a, Target(a)} : ph'[c] = ph[c]
    BY <1>0, <2>2, CallOnly
  <2> QED
    BY <2>1, <2>2, <2>3 DEF Moves
<1>3. CASE \E a \in Actors : \E w \in Workers, o \in {0, 1} : TakeOf(a, w, o)
  <2>0. PICK a \in Actors : \E w \in Workers, o \in {0, 1} : TakeOf(a, w, o)
    BY <1>3
  <2>1. PICK w \in Workers, o \in {0, 1} : TakeOf(a, w, o)
    BY <2>0
  <2> DEFINE j == occupant[Taken(w, o)]
             p == IF ph[a] \in {"seek", "steal"} THEN Resume(a) ELSE "drain"
  <2>2. j \in Jobs /\ a # j /\ Call(a, j, p) /\ ph[j] = "off"
    BY <2>1, TakeJob DEF Ripe
  <2> HIDE DEF j, p
  <2>3. ph'[a] = p /\ \A c \in Actors \ {a, j} : ph'[c] = ph[c]
    BY <1>0, <2>2, CallOnly
  <2> QED
    BY <2>1, <2>2, <2>3 DEF Moves
<1>4. CASE \E a \in Actors : Push(a) \/ Count(a) \/ Park(a) \/ Sleep(a)
  <2>1. PICK a \in Actors : Push(a) \/ Count(a) \/ Park(a) \/ Sleep(a)
    BY <1>4
  <2>2. \E p : Goto(a, p)
    BY <2>1 DEF Push, Count, Park, Sleep
  <2>3. \A c \in Actors \ {a} : ph'[c] = ph[c]
    BY <1>0, <2>2, GotoOnly
  <2> QED
    BY <2>1, <2>3 DEF Moves
<1>5. CASE \E j \in Jobs : JobStep(j)
  <2>1. PICK j \in Jobs : JobStep(j)
    BY <1>5
  <2>2. \E p : Goto(j, p) \/ NotifyAll(j, p)
    BY <2>1 DEF JobStep, Return, Complete, Leave
  <2>3. \A c \in Actors \ {j} : ph'[c] = ph[c] \/ ph[c] = "asleep"
    BY <1>0, <2>2, GotoOnly, NotifyOnly
  <2> QED
    BY <2>1, <2>3 DEF Moves
<1>6. CASE InitPool
  <2>1. ph'[b] = ph[b] \/ (b \in Workers /\ ~running)
    BY <1>6 DEF InitPool
  <2>2. ph[Main] = "run"
    BY <1>6 DEF InitPool
  <2> QED
    BY <2>1, <2>2 DEF SlotInv, Life, Serial
<1>7. CASE StopRunning
  <2>1. \A c \in Actors \ {Main} : ph'[c] = ph[c]
    BY <1>0, <1>7, GotoOnly DEF StopRunning
  <2> QED
    BY <1>7, <2>1 DEF Moves
<1>8. CASE Join
  <2>1. b = Main \/ b \in Workers
    BY <1>8 DEF Join
  <2>2. b \in Workers => ph[b] = "exited"
    BY <1>8 DEF Join
  <2> QED
    BY <1>8, <2>1, <2>2 DEF Moves
<1>9. CASE \E a \in Actors : Calm(a)
  <2>1. PICK a \in Actors : Calm(a)
    BY <1>9
  <2>2. b = a
    BY <2>1 DEF Calm
  <2> QED
    BY <2>1, <2>2 DEF Moves
<1>10. CASE UNCHANGED vars
  BY <1>10 DEF vars
<1> QED
  BY <1>1, <1>2, <1>3, <1>4, <1>5, <1>6, <1>7, <1>8, <1>9, <1>10, StepKinds

\* What may have changed in a step that a sleeper's predicate reads.
LEMMA PredicateMoves ==
    ASSUME SlotInv, [Next]_vars
    PROVE  /\ \/ gen' = gen
              \/ \E j \in Jobs : Complete(j)
              \/ InitPool /\ ~running
           /\ \/ readyCount' = readyCount \/ readyCount' = readyCount - 1
              \/ \E a \in Actors : Count(a)
              \/ Join
<1>1. CASE \E a \in Bodies : Allocate(a) \/ RunInline(a)
  BY <1>1, AllocateSlot, InlineSlot DEF graphVars, queueVars
<1>2. CASE \E a \in Actors : \E w \in Workers, o \in {0, 1} : TakeOf(a, w, o)
  BY <1>2 DEF TakeOf, graphVars
<1>3. CASE \E a \in Actors : Push(a) \/ Count(a) \/ Park(a) \/ Sleep(a)
  BY <1>3 DEF Push, Count, Park, Sleep, graphVars, queueVars
<1>4. CASE \E j \in Jobs : JobStep(j)
  BY <1>4 DEF JobStep, Return, Complete, Leave, graphVars, queueVars
<1>5. CASE InitPool \/ StopRunning \/ Join
  BY <1>5 DEF InitPool, StopRunning, Join, graphVars, queueVars
<1>6. CASE \E a \in Actors : Calm(a)
  BY <1>6 DEF Calm, graphVars, queueVars
<1>7. CASE UNCHANGED vars
  BY <1>7 DEF vars, graphVars, queueVars
<1> QED
  BY <1>1, <1>2, <1>3, <1>4, <1>5, <1>6, <1>7, StepKinds

\* init finds nobody asleep, nor about to be, and nor does join.
LEMMA NobodySleeps ==
    ASSUME PoolInv, (InitPool /\ ~running) \/ Join, NEW a \in Actors
    PROVE  ph[a] \notin {"sleep", "asleep", "park"}
<1>1. SlotInv /\ Stack /\ NothingLost
  BY DEF PoolInv
<1>2. CASE InitPool /\ ~running
  <2>1. Serial
    BY <1>2 DEF InitPool, Serial
  <2> QED
    BY <1>1, <2>1 DEF NothingLost, Down, SlotInv, Life
<1>3. CASE Join
  <2>1. ph[Main] = "join" /\ \A w \in Workers : ph[w] = "exited"
    BY <1>3 DEF Join
  <2>2. \A j \in Jobs : ~Active(j)
    BY <1>1, <2>1, NobodyIsLeft
  <2> QED
    BY <2>1, <2>2 DEF Active
<1> QED
  BY <1>2, <1>3

\* The job a body waits for stays the same, and so does its handle.
LEMMA WaiterKeeps ==
    ASSUME SlotInv, [Next]_vars, NEW a \in Bodies, Waiting(a), pc'[a] = pc[a],
           ~Finished(handle[Target(a)])
    PROVE  /\ Target(a) \in Jobs /\ Target(a)' = Target(a)
           /\ handle'[Target(a)] = handle[Target(a)]
           /\ handle[Target(a)].slot \in Slots
           /\ Finished(handle[Target(a)])' => gen' # gen
<1>1. AtWait(a)
  BY DEF SlotInv, OpsFit, AtWait
<1>2. Target(a) \in Jobs
  BY <1>1, PoolAssumption DEF AtWait, Target
<1>3. HasSlot(Target(a)) /\ handle[Target(a)].slot \in Slots
  BY <1>2 DEF HasSlot, Finished, SlotInv, TypeInv, TypeOK
<1>4. handle'[Target(a)] = handle[Target(a)]
  BY <1>2, <1>3, HandlesLast
<1>5. Target(a)' = Target(a)
  BY DEF Target
<1>6. Finished(handle[Target(a)])' => gen' # gen
  <2> SUFFICES ASSUME Finished(handle[Target(a)])', gen' = gen PROVE FALSE
    OBVIOUS
  <2>1. handle'[Target(a)'] = handle[Target(a)]
    BY <1>4, <1>5
  <2> QED
    BY <2>1 DEF Finished
<1> QED
  BY <1>2, <1>3, <1>4, <1>5, <1>6

\* What Park leaves of an actor that goes to sleep.
LEMMA LookedPark ==
    ASSUME WakeInv, NEW a \in Actors, Park(a), ph'[a] = "sleep"
    PROVE  /\ readyCount' <= 0 /\ (a \in Bodies => ~Finished(handle[Target(a)])')
           /\ \A b \in Actors \ {a} : ph'[b] # "sleep"
<1>0. TypeInv /\ ShutdownInv
  BY DEF WakeInv, ShutdownInv
<1>1. ph[a] = "park" /\ graphLock = None /\ UNCHANGED <<readyCount, gen, handle, pc>>
  BY DEF Park, queueVars, graphVars, histVars
<1>2. ~WakePredicate(a) /\ Goto(a, "sleep")
  <2>1. CASE WakePredicate(a)
    <3>1. Goto(a, Resume(a)) /\ Resume(a) # "sleep"
      BY <2>1 DEF Park, Resume
    <3> QED
      BY <1>0, <3>1, GotoOnly
  <2>2. CASE ~WakePredicate(a)
    BY <2>2 DEF Park
  <2> QED
    BY <2>1, <2>2
<1>3. readyCount = 0 /\ (a \in Bodies => ~Finished(handle[Target(a)]))
  BY <1>2, MainIsApart DEF WakePredicate
<1>4. (a \in Bodies => ~Finished(handle[Target(a)])')
  BY <1>1, <1>3 DEF Finished, Target
<1>5. \A b \in Actors \ {a} : ph'[b] # "sleep"
  BY <1>0, <1>1, <1>2, GotoOnly, MainIsApart DEF ShutdownInv, SleeperHoldsLock
<1> QED
  BY <1>1, <1>3, <1>4, <1>5

LEMMA LookedStep ==
    ASSUME WakeInv, [Next]_vars PROVE SleeperLooked'
<1>0. SlotInv /\ TypeInv /\ Arcs /\ readyCount \in Int /\ PoolInv
  BY StepArcs DEF WakeInv, PoolInv, SlotInv, TypeInv, TypeOK
<1> SUFFICES ASSUME NEW a \in Actors, ph'[a] = "sleep"
             PROVE  readyCount' <= 0 /\ (a \in Bodies => ~Finished(handle[Target(a)])')
  BY DEF SleeperLooked
<1>1. CASE ph[a] = "sleep"
  <2>1. graphLock = a /\ graphLock # None
    BY <1>1, MainIsApart DEF WakeInv, ShutdownInv, SleeperHoldsLock
  <2>2. /\ \A j \in Jobs : ~Complete(j)
        /\ \A b \in Actors : ~Count(b)
        /\ ~(InitPool /\ ~running) /\ ~Join
    BY <1>0, <1>1, <2>1, NobodySleeps DEF Complete, Count
  <2>3. gen' = gen /\ (readyCount' = readyCount \/ readyCount' = readyCount - 1)
    BY <1>0, <2>2, PredicateMoves
  <2>4. readyCount <= 0 /\ (a \in Bodies => ~Finished(handle[Target(a)]))
    BY <1>1 DEF WakeInv, SleeperLooked
  <2>5. pc'[a] = pc[a]
    BY <1>0, <1>1 DEF Arcs, Still, Arc, BodyArc, JobArc, MainArc, WorkerArc
  <2>6. a \in Bodies => ~Finished(handle[Target(a)])'
    BY <1>0, <1>1, <2>3, <2>4, <2>5, WaiterKeeps DEF Waiting
  <2> QED
    BY <1>0, <2>3, <2>4, <2>6
<1>2. CASE ph[a] # "sleep"
  <2>1. ph[a] = "park"
    BY <1>0, <1>2 DEF Arcs, Still, Arc, BodyArc, JobArc, MainArc, WorkerArc
  <2>2. Moves(a)
    BY <1>0, <2>1, MoverIs
  <2>3. Park(a)
    BY <2>1, <2>2 DEF Moves, TakeOf, Allocate, RunInline, Push, Count, Sleep, JobStep,
                      Return, Complete, Leave, StopRunning, Join, Calm
  <2> QED
    BY <2>3, LookedPark
<1> QED
  BY <1>1, <1>2

\* A notification that is owed is made, and then nobody sleeps.
LEMMA OwedIsMade ==
    ASSUME WakeInv, [Next]_vars, NEW b \in Actors,
           ph[b] \in {"push", "count", "notify", "leave"},
           NEW a \in Actors, ph'[a] = "asleep"
    PROVE  /\ ph'[b] \in {"push", "count", "notify", "leave"}
           /\ ph[b] = "notify" => ph'[b] = "notify"
<1>0. SlotInv /\ TypeInv
  BY DEF WakeInv, PoolInv, SlotInv
<1> SUFFICES ASSUME ph'[b] # ph[b]
             PROVE  /\ ph'[b] \in {"push", "count", "notify", "leave"}
                    /\ ph[b] = "notify" => ph'[b] = "notify"
  OBVIOUS
<1>1. Moves(b)
  BY <1>0, MoverIs
<1>2. \/ ph[b] = "push" /\ Push(b)
      \/ ph[b] = "count" /\ Count(b)
      \/ b \in Jobs /\ ph[b] = "leave" /\ Leave(b)
      \/ ph[b] = "notify" /\ Calm(b)
  BY <1>1 DEF Moves, TakeOf, Allocate, RunInline, Park, Push, Count, Sleep, JobStep,
              Return, Complete, Leave, StopRunning, Join, Calm
<1>3. CASE ph[b] = "push" /\ Push(b)
  BY <1>0, <1>3, GotoOnly DEF Push
<1>4. CASE ph[b] = "count" /\ Count(b)
  BY <1>0, <1>4, GotoOnly DEF Count
<1>5. CASE b \in Jobs /\ ph[b] = "leave" /\ Leave(b)
  <2>1. NotifyAll(b, "dead")
    BY <1>5 DEF Leave
  <2>2. ph'[a] # "asleep"
    BY <1>0, <2>1, NotifyOnly
  <2> QED
    BY <2>2
<1>6. CASE ph[b] = "notify" /\ Calm(b)
  BY <1>6 DEF Calm
<1> QED
  BY <1>2, <1>3, <1>4, <1>5, <1>6

LEMMA AsleepStep ==
    ASSUME WakeInv, [Next]_vars PROVE AsleepFits'
<1>0. SlotInv /\ TypeInv /\ Arcs /\ readyCount \in Int /\ PoolInv
  BY StepArcs DEF WakeInv, PoolInv, SlotInv, TypeInv, TypeOK
<1> SUFFICES ASSUME NEW a \in Actors, ph'[a] = "asleep"
             PROVE  /\ readyCount' > 0 => \E b \in Actors : ph'[b] = "notify"
                    /\ a \in Bodies /\ Finished(handle[Target(a)])' =>
                         \E b \in Actors : ph'[b] \in {"push", "count", "notify", "leave"}
  BY DEF AsleepFits
<1>1. ph[a] \in {"sleep", "asleep"} /\ pc'[a] = pc[a]
  BY <1>0 DEF Arcs, Still, Arc, BodyArc, JobArc, MainArc, WorkerArc
<1>2. ~(InitPool /\ ~running) /\ ~Join
  BY <1>0, <1>1, NobodySleeps
<1>3. CASE ph[a] = "sleep"
  <2>1. Moves(a)
    BY <1>0, <1>3, MoverIs
  <2>2. Sleep(a)
    BY <1>3, <2>1 DEF Moves, TakeOf, Allocate, RunInline, Push, Count, Park, JobStep,
                      Return, Complete, Leave, StopRunning, Join, Calm
  <2>3. UNCHANGED <<gen, readyCount>>
    BY <2>2 DEF Sleep, graphVars, queueVars
  <2>4. readyCount <= 0 /\ (a \in Bodies => ~Finished(handle[Target(a)]))
    BY <1>3 DEF WakeInv, SleeperLooked
  <2>5. a \in Bodies => ~Finished(handle[Target(a)])'
    BY <1>0, <1>1, <1>3, <2>3, <2>4, WaiterKeeps DEF Waiting
  <2> QED
    BY <1>0, <2>3, <2>4, <2>5
<1>4. CASE ph[a] = "asleep"
  <2>1. ASSUME readyCount' > 0 PROVE \E b \in Actors : ph'[b] = "notify"
    <3>1. CASE \E b \in Actors : Count(b)
      <4>1. PICK b \in Actors : Count(b)
        BY <3>1
      <4>2. ph'[b] = "notify"
        BY <1>0, <4>1, GotoOnly DEF Count
      <4> QED
        BY <4>2
    <3>2. CASE ~\E b \in Actors : Count(b)
      <4>1. readyCount > 0
        BY <1>0, <1>2, <2>1, <3>2, PredicateMoves
      <4>2. PICK b \in Actors : ph[b] = "notify"
        BY <1>4, <4>1 DEF WakeInv, AsleepFits
      <4> QED
        BY <4>2, OwedIsMade
    <3> QED
      BY <3>1, <3>2
  <2>2. ASSUME a \in Bodies, Finished(handle[Target(a)])'
        PROVE  \E b \in Actors : ph'[b] \in {"push", "count", "notify", "leave"}
    <3>1. CASE Finished(handle[Target(a)])
      <4>1. PICK b \in Actors : ph[b] \in {"push", "count", "notify", "leave"}
        BY <1>4, <2>2, <3>1 DEF WakeInv, AsleepFits
      <4> QED
        BY <4>1, OwedIsMade
    <3>2. CASE ~Finished(handle[Target(a)])
      <4>1. gen' # gen
        BY <1>0, <1>1, <1>4, <2>2, <3>2, WaiterKeeps DEF Waiting
      <4>2. PICK j \in Jobs : Complete(j)
        BY <1>0, <1>2, <4>1, PredicateMoves
      <4>3. \E p \in {"leave", "push"} : Goto(j, p)
        BY <4>2 DEF Complete
      <4>4. ph'[j] \in {"leave", "push"}
        BY <1>0, <4>3, GotoOnly
      <4> QED
        BY <4>4
    <3> QED
      BY <3>1, <3>2
  <2> QED
    BY <2>1, <2>2
<1> QED
  BY <1>1, <1>3, <1>4

LEMMA WakeInit == Init => WakeInv
<1> SUFFICES ASSUME Init PROVE WakeInv
  OBVIOUS
<1>1. \A a \in Actors : ph[a] \in {"run", "off"}
  BY DEF Init
<1> QED
  BY <1>1, PoolInit, ShutdownInit DEF WakeInv, SleeperLooked, AsleepFits

LEMMA WakeStep == ASSUME OneLife PROVE WakeInv /\ [Next]_vars => WakeInv'
<1> SUFFICES ASSUME WakeInv, [Next]_vars PROVE WakeInv'
  OBVIOUS
<1>1. PoolInv' /\ ShutdownInv'
  BY PoolStep, ShutdownStep DEF WakeInv
<1> QED
  BY <1>1, LookedStep, AsleepStep DEF WakeInv

LEMMA NobodyMissesIt == WakeInv => NoLostWakeup
<1> SUFFICES ASSUME WakeInv, NEW a \in Actors, ph[a] = "asleep", WakePredicate(a)
             PROVE  \E b \in Actors :
                      ph[b] \in {"push", "count", "notify", "leave", "stopNotify"}
  BY DEF NoLostWakeup
<1>1. CASE readyCount > 0
  BY <1>1 DEF WakeInv, AsleepFits
<1>2. CASE readyCount < 0
  <2>1. readyCount = Cardinality(Queued) - Cardinality(Uncounted)
        /\ Cardinality(Queued) \in Nat
    BY FS_CardinalityType DEF WakeInv, PoolInv, CountFits, ReadyCounted
  <2>2. Uncounted # {}
    BY <1>2, <2>1, FS_EmptySet
  <2> QED
    BY <2>2 DEF Uncounted
<1>3. CASE ~(readyCount > 0 \/ readyCount < 0)
  <2>1. readyCount = 0
    BY <1>3 DEF WakeInv, PoolInv, SlotInv, TypeInv, TypeOK
  <2>2. CASE a \in Workers
    BY <2>1, <2>2 DEF WakePredicate, WakeInv, ShutdownInv, NoLostShutdown
  <2>3. CASE a \notin Workers
    BY <2>1, <2>3 DEF WakePredicate, WakeInv, AsleepFits
  <2> QED
    BY <2>2, <2>3
<1> QED
  BY <1>1, <1>2, <1>3

\* No wake-up is lost: when an actor sleeps on a predicate that has become true, whoever
\* made it true has still to notify (D037, the half that enqueue and complete carry).
THEOREM NoLostWakeupHolds == ASSUME OneLife PROVE Spec => []NoLostWakeup
BY WakeInit, WakeStep, NobodyMissesIt, PTL DEF Spec

-----------------------------------------------------------------------------
(* The promise of JobGraph: what a slot waits for is what its job was scheduled *)
(* behind, so that a job whose count has come to nothing is behind nothing.      *)

Recorded ==
    \A t \in Slots : occupant[t] # None /\ ph[occupant[t]] = "off" =>
        \A d \in Deps[occupant[t]] : d \in done \/ t \in dependents[handle[d].slot]

LEMMA RecordedStays ==
    ASSUME SlotInv, Recorded, [Next]_vars, UNCHANGED <<occupant, dependents>>,
           \A j \in Jobs : handle'[j] = handle[j] \/ (handle'[j] = SerialHandle /\ j \in done')
    PROVE  Recorded'
<1>0. Arcs /\ Histories
  BY StepArcs, StepHistories
<1> SUFFICES ASSUME NEW t \in Slots, occupant[t] # None, ph'[occupant[t]] = "off",
                    NEW d \in Deps[occupant[t]]
             PROVE  d \in done' \/ t \in dependents[handle'[d].slot]
  BY DEF Recorded
<1>1. occupant[t] \in Jobs
  BY DEF SlotInv, TypeInv, TypeOK
<1>2. ph[occupant[t]] = "off"
  BY <1>0, <1>1, OffStays
<1>3. d \in Jobs
  BY <1>1, PoolAssumption
<1>4. d \in done \/ t \in dependents[handle[d].slot]
  BY <1>2 DEF Recorded
<1>5. d \in done => d \in done'
  BY <1>0, <1>3 DEF Histories
<1> QED
  BY <1>3, <1>4, <1>5

\* A handle that has been returned and is of no finished job is of a slot.
LEMMA HandleOfUnfinished ==
    ASSUME SlotInv, NEW d \in Jobs, handle[d] # NoHandle, d \notin done
    PROVE  handle[d].slot \in Slots /\ ~Finished(handle[d]) /\ occupant[handle[d].slot] = d
<1>1. handle[d] \in [slot : Slots \cup {None}, gen : Nat]
  BY DEF SlotInv, TypeInv, TypeOK
<1>2. handle[d].slot # None
  BY DEF SlotInv, SlotsAnswer
<1>3. handle[d].gen = gen[handle[d].slot]
  BY <1>2 DEF SlotInv, SlotsAnswer
<1> QED
  BY <1>1, <1>2, <1>3 DEF Finished, SlotInv, SlotsAnswer

LEMMA RecordedAllocate ==
    ASSUME SlotInv, Recorded, Grounded, InHandFits, NEW a \in Bodies, Allocate(a) PROVE Recorded'
<1>1. PICK s \in freeSlots : s \in Slots /\ AllocateAt(a, s)
  BY AllocateSlot
<1>2. ph[a] = "alloc" /\ AtSchedule(a)
  BY AllocateSlot
<1> DEFINE j == Target(a)
           live == LiveDeps(j)
<1>3. j \in Jobs /\ a # j /\ handle[j] = NoHandle /\ \A d \in Deps[j] : handle[d] # NoHandle
  BY <1>2, TargetIsFresh DEF InHandFits
<1>4. /\ occupant' = [occupant EXCEPT ![s] = j]
      /\ dependents' = [t \in Slots |->
             IF t = s THEN {}
             ELSE IF \E d \in live : handle[d].slot = t
                  THEN dependents[t] \cup {s} ELSE dependents[t]]
      /\ handle' = [handle EXCEPT ![j] = [slot |-> s, gen |-> gen[s]]]
      /\ done' = done
  BY <1>1, AllocateSlot DEF AllocateAt
<1>5. live = {d \in Deps[j] : ~Finished(handle[d])}
  BY DEF LiveDeps
<1>6. Arcs
  BY AllocateMoves, ArcsAllocate
<1> HIDE DEF j, live
<1>7. /\ occupant \in [Slots -> Jobs \cup {None}] /\ dependents \in [Slots -> SUBSET Slots]
      /\ handle \in [Jobs -> [slot : Slots \cup {None}, gen : Nat]]
  BY DEF SlotInv, TypeInv, TypeOK
<1>8. occupant[s] = None
  BY <1>1 DEF SlotInv, SlotsAnswer
<1> SUFFICES ASSUME NEW t \in Slots, occupant'[t] # None, ph'[occupant'[t]] = "off",
                    NEW d \in Deps[occupant'[t]], d \notin done
             PROVE  t \in dependents'[handle'[d].slot]
  BY <1>4 DEF Recorded
<1>9. CASE t = s
  <2>1. occupant'[t] = j
    BY <1>1, <1>4, <1>7, <1>9
  <2>2. d \in Jobs /\ d # j /\ handle'[d] = handle[d] /\ d \in Deps[j] /\ handle[d] # NoHandle
    BY <1>3, <1>4, <1>7, <2>1, PoolAssumption
  <2>3. handle[d].slot \in Slots /\ ~Finished(handle[d]) /\ occupant[handle[d].slot] = d
    BY <2>2, HandleOfUnfinished
  <2>4. handle[d].slot # s
    BY <1>8, <2>2, <2>3, MainIsApart, PoolAssumption DEF Actors
  <2>5. d \in live
    BY <1>5, <2>2, <2>3
  <2>6. dependents'[handle[d].slot] = dependents[handle[d].slot] \cup {s}
    BY <1>4, <2>3, <2>4, <2>5
  <2> QED
    BY <1>9, <2>2, <2>6
<1>10. CASE t # s
  <2>1. occupant'[t] = occupant[t] /\ occupant[t] \in Jobs
    BY <1>4, <1>7, <1>10
  <2>2. ph[occupant[t]] = "off"
    BY <1>6, <2>1, OffStays
  <2>3. t \in dependents[handle[d].slot] /\ d \in Jobs
    BY <2>1, <2>2, PoolAssumption DEF Recorded
  <2>4. handle[occupant[t]].slot = t
    BY <2>1 DEF SlotInv, SlotsAnswer
  <2>5. handle[d] # NoHandle
    BY <2>1, <2>4, PoolAssumption DEF Grounded, HasSlot
  <2>6. handle[d].slot \in Slots /\ occupant[handle[d].slot] = d
    BY <2>3, <2>5, HandleOfUnfinished
  <2>7. handle[d].slot # s
    BY <1>8, <2>3, <2>6, PoolAssumption DEF Actors
  <2>8. d # j
    BY <1>3, <2>5
  <2>9. handle'[d] = handle[d]
    BY <1>4, <1>7, <2>3, <2>8
  <2>10. dependents[handle[d].slot] \subseteq dependents'[handle[d].slot]
    BY <1>4, <2>6, <2>7
  <2> QED
    BY <2>3, <2>9, <2>10
<1> QED
  BY <1>9, <1>10

LEMMA RecordedComplete ==
    ASSUME SlotInv, Recorded, Grounded, NEW j \in Jobs, Complete(j) PROVE Recorded'
<1> DEFINE s == handle[j].slot
<1>1. /\ s \in Slots /\ ph[j] = "complete" /\ occupant[s] = j
      /\ occupant' = [occupant EXCEPT ![s] = None]
      /\ dependents' = [dependents EXCEPT ![s] = {}]
      /\ UNCHANGED <<handle, done>>
  BY DEF Complete, ReleaseSlot, SlotInv, TypeInv, CompleteHasSlot, SlotsAnswer, histVars
<1> HIDE DEF s
<1>2. /\ occupant \in [Slots -> Jobs \cup {None}] /\ dependents \in [Slots -> SUBSET Slots]
      /\ handle \in [Jobs -> [slot : Slots \cup {None}, gen : Nat]]
  BY DEF SlotInv, TypeInv, TypeOK
<1>3. Arcs
  BY ArcsComplete
<1> SUFFICES ASSUME NEW t \in Slots, occupant'[t] # None, ph'[occupant'[t]] = "off",
                    NEW d \in Deps[occupant'[t]], d \notin done
             PROVE  t \in dependents'[handle[d].slot]
  BY <1>1 DEF Recorded
<1>4. t # s /\ occupant'[t] = occupant[t] /\ occupant[t] \in Jobs
  BY <1>1, <1>2
<1>5. ph[occupant[t]] = "off"
  BY <1>3, <1>4, OffStays
<1>6. t \in dependents[handle[d].slot] /\ d \in Jobs
  BY <1>4, <1>5, PoolAssumption DEF Recorded
<1>7. handle[occupant[t]].slot = t
  BY <1>4 DEF SlotInv, SlotsAnswer
<1>8. handle[d] # NoHandle
  BY <1>4, <1>7, PoolAssumption DEF Grounded, HasSlot
<1>9. handle[d].slot \in Slots /\ occupant[handle[d].slot] = d
  BY <1>6, <1>8, HandleOfUnfinished
<1>10. j \in done
  BY <1>1 DEF SlotInv, DoneFits
<1>11. handle[d].slot # s
  BY <1>1, <1>9, <1>10
<1> QED
  BY <1>1, <1>2, <1>6, <1>9, <1>11

LEMMA RecordedStep ==
    ASSUME SlotInv, Recorded, Grounded, InHandFits, [Next]_vars PROVE Recorded'
<1>1. CASE \E a \in Bodies : Allocate(a)
  BY <1>1, RecordedAllocate
<1>2. CASE \E j \in Jobs : Complete(j)
  BY <1>2, RecordedComplete
<1>3. CASE InitPool /\ ~running
  <2>1. \A s \in Slots : occupant'[s] = None
    BY <1>3 DEF InitPool
  <2> QED
    BY <2>1 DEF Recorded
<1>4. CASE ~(\E a \in Bodies : Allocate(a)) /\ ~(\E j \in Jobs : Complete(j)) /\ ~(InitPool /\ ~running)
  <2>1. \A j \in Jobs : handle'[j] = handle[j] \/ (handle'[j] = SerialHandle /\ j \in done')
    BY <1>4, HandleMoves
  <2>2. UNCHANGED <<occupant, dependents>>
    <3>1. CASE \E a \in Bodies : RunInline(a)
      BY <3>1, InlineSlot DEF graphVars
    <3>2. CASE \E a \in Actors : \E w \in Workers, o \in {0, 1} : TakeOf(a, w, o)
      BY <3>2 DEF TakeOf, graphVars
    <3>3. CASE \E a \in Actors : Push(a) \/ Count(a) \/ Park(a) \/ Sleep(a)
      BY <3>3 DEF Push, Count, Park, Sleep, graphVars
    <3>4. CASE \E j \in Jobs : Return(j) \/ Leave(j)
      BY <3>4 DEF Return, Leave, graphVars
    <3>5. CASE InitPool /\ running
      BY <3>5 DEF InitPool
    <3>6. CASE StopRunning \/ Join
      BY <3>6 DEF StopRunning, Join, graphVars
    <3>7. CASE \E a \in Actors : Calm(a)
      BY <3>7 DEF Calm, graphVars
    <3>8. CASE UNCHANGED vars
      BY <3>8 DEF vars, graphVars
    <3> QED
      BY <1>4, <3>1, <3>2, <3>3, <3>4, <3>5, <3>6, <3>7, <3>8, StepKinds DEF JobStep
  <2> QED
    BY <2>1, <2>2, RecordedStays
<1> QED
  BY <1>1, <1>2, <1>3, <1>4

\* A job that may be queued has nothing left before it.
LEMMA RipeIsReady ==
    ASSUME SlotInv, Grounded, Recorded, NEW t \in Slots, Ripe(t)
    PROVE  Deps[occupant[t]] \subseteq done
<1>1. occupant[t] \in Jobs /\ ph[occupant[t]] = "off" /\ remaining[t] = 0
  BY DEF Ripe, SlotInv, TypeInv, TypeOK
<1>2. Before(t) = {}
  <2>1. Cardinality(Before(t)) = 0
    BY <1>1 DEF SlotInv, Waits
  <2> QED
    BY <2>1, BeforeIsFinite, FS_EmptySet
<1> SUFFICES ASSUME NEW d \in Deps[occupant[t]], d \notin done PROVE FALSE
  OBVIOUS
<1>3. t \in dependents[handle[d].slot] /\ d \in Jobs
  BY <1>1, MainIsApart, PoolAssumption DEF Recorded, Ripe
<1>4. handle[occupant[t]].slot = t
  BY <1>1 DEF Ripe, SlotInv, SlotsAnswer
<1>5. handle[d] # NoHandle
  BY <1>1, <1>4, PoolAssumption DEF Grounded, HasSlot
<1>6. handle[d].slot \in Slots
  BY <1>3, <1>5, HandleOfUnfinished
<1> QED
  BY <1>2, <1>3, <1>6 DEF Before

-----------------------------------------------------------------------------
(* How the histories move. *)

LEMMA AwaitedStays ==
    ASSUME TypeInv, NEW a \in Bodies, pc[a] \in 1..Len(Body[a]), Body[a][pc[a]].op # "wait",
           pc' = [pc EXCEPT ![a] = @ + 1] \/ pc' = pc
    PROVE  Awaited' = Awaited
<1>1. CASE pc' = pc
  BY <1>1 DEF Awaited
<1>2. CASE pc' = [pc EXCEPT ![a] = @ + 1]
  <2>1. pc'[a] = pc[a] + 1 /\ pc[a] \in Nat \ {0} /\ \A b \in Bodies \ {a} : pc'[b] = pc[b]
    BY <1>2, NextOnly DEF TypeInv, TypeOK
  <2>2. ASSUME NEW j \in Jobs, NEW b \in Bodies, NEW i \in 1..(pc'[b] - 1),
               Body[b][i] = [op |-> "wait", job |-> j]
        PROVE  i \in 1..(pc[b] - 1)
    <3>1. Body[b][i].op = "wait"
      BY <2>2
    <3> QED
      BY <2>1, <3>1
  <2>3. \A b \in Bodies : 1..(pc[b] - 1) \subseteq 1..(pc'[b] - 1)
    BY <2>1
  <2>4. Awaited' \subseteq Awaited
    BY <2>2 DEF Awaited
  <2>5. Awaited \subseteq Awaited'
    BY <2>3 DEF Awaited
  <2> QED
    BY <2>4, <2>5
<1> QED
  BY <1>1, <1>2

LEMMA AwaitedGrows ==
    ASSUME TypeInv, NEW a \in Bodies, AtOp(a, "wait"), pc' = [pc EXCEPT ![a] = @ + 1]
    PROVE  Target(a) \in Jobs /\ Awaited' = Awaited \cup {Target(a)}
<1> DEFINE t == Target(a)
<1>1. pc'[a] = pc[a] + 1 /\ pc[a] \in Nat \ {0} /\ \A b \in Bodies \ {a} : pc'[b] = pc[b]
  BY NextOnly DEF TypeInv, TypeOK
<1>2. /\ pc[a] \in 1..Len(Body[a]) /\ Body[a] \in Seq(Ops) /\ Body[a][pc[a]].op = "wait"
      /\ t = Body[a][pc[a]].job
  BY PoolAssumption DEF AtOp, Target
<1>3. Body[a][pc[a]] \in Ops
  BY <1>2
<1>4. t \in Jobs
  BY <1>2, PoolAssumption
<1>5. Body[a][pc[a]] = [op |-> "wait", job |-> t]
  BY <1>2, <1>3 DEF Ops
<1> HIDE DEF t
<1>6. ASSUME NEW j \in Jobs, NEW b \in Bodies, NEW i \in 1..(pc'[b] - 1),
             Body[b][i] = [op |-> "wait", job |-> j]
      PROVE  i \in 1..(pc[b] - 1) \/ j = t
  <2>1. CASE b = a /\ i = pc[a]
    <3>1. [op |-> "wait", job |-> j] = [op |-> "wait", job |-> t]
      BY <1>5, <1>6, <2>1
    <3>2. [op |-> "wait", job |-> j].job = [op |-> "wait", job |-> t].job
      BY <3>1
    <3> QED
      BY <3>2
  <2>2. CASE ~(b = a /\ i = pc[a])
    BY <1>1, <2>2
  <2> QED
    BY <2>1, <2>2
<1>7. /\ \A b \in Bodies : 1..(pc[b] - 1) \subseteq 1..(pc'[b] - 1)
      /\ pc[a] \in 1..(pc'[a] - 1)
  BY <1>1
<1>8. Awaited' \subseteq Awaited \cup {t}
  BY <1>6 DEF Awaited
<1>9. Awaited \cup {t} \subseteq Awaited'
  BY <1>4, <1>5, <1>7 DEF Awaited
<1> QED
  BY <1>4, <1>8, <1>9 DEF t

\* What JobGraph sees: JobPool's substitutions, by name.
Submits == {j \in Jobs : handle[j] # NoHandle} \cup Entered

LEMMA Entering ==
    ASSUME SlotInv, NEW a \in Actors, NEW j \in Jobs, NEW p, a # j, ph[j] = "off", Call(a, j, p)
    PROVE  j \notin Entered /\ Entered' = Entered \cup {j}
<1>1. runs \in [Jobs -> Nat] /\ runs[j] = 0
  BY DEF SlotInv, DoneFits, TypeInv, TypeOK
<1>2. runs'[j] = runs[j] + 1 /\ \A b \in Jobs \ {j} : runs'[b] = runs[b]
  BY CallOnly DEF SlotInv
<1> QED
  BY <1>1, <1>2 DEF Entered

LEMMA SameGraph ==
    ASSUME UNCHANGED <<handle, runs, done>>, Awaited' = Awaited
    PROVE  UNCHANGED Graph!graph
BY DEF Graph!graph, Entered

LEMMA GraphOfAllocate ==
    ASSUME PoolInv, NEW a \in Bodies, Allocate(a) PROVE \E j \in Jobs : Graph!Submit(j)
<1> DEFINE j == Target(a)
<1>0. SlotInv /\ TypeInv
  BY DEF PoolInv, SlotInv
<1>1. PICK s \in freeSlots : s \in Slots /\ AllocateAt(a, s)
  BY <1>0, AllocateSlot
<1>2. ph[a] = "alloc" /\ AtSchedule(a) /\ UNCHANGED <<runs, done>>
  BY <1>0, AllocateSlot
<1>3. j \in Jobs /\ handle[j] = NoHandle /\ ph[j] = "off"
  BY <1>0, <1>2, TargetIsFresh
<1>4. handle' = [handle EXCEPT ![j] = [slot |-> s, gen |-> gen[s]]]
      /\ (pc' = [pc EXCEPT ![a] = @ + 1] \/ pc' = pc)
  BY <1>1 DEF AllocateAt
<1>5. Awaited' = Awaited
  BY <1>0, <1>2, <1>4, AwaitedStays DEF AtSchedule
<1> HIDE DEF j
<1>6. handle'[j] # NoHandle /\ \A k \in Jobs \ {j} : handle'[k] = handle[k]
  <2>1. handle'[j] = [slot |-> s, gen |-> gen[s]]
    BY <1>0, <1>3, <1>4 DEF TypeInv, TypeOK
  <2>2. handle'[j].slot # None /\ NoHandle.slot = None
    BY <1>1, <2>1, MainIsApart, PoolAssumption DEF NoHandle
  <2> QED
    BY <1>0, <1>4, <2>2 DEF TypeInv, TypeOK
<1>7. runs[j] = 0
  BY <1>0, <1>3 DEF SlotInv, DoneFits
<1>8. j \notin Submits /\ Submits' = Submits \cup {j} /\ Entered' = Entered
  BY <1>2, <1>3, <1>6, <1>7 DEF Submits, Entered
<1>9. PICK k \in Jobs : k = j
  BY <1>3
<1>10. Graph!Submit(k)
  BY <1>2, <1>5, <1>8, <1>9 DEF Graph!Submit, Submits
<1> QED
  BY <1>10

LEMMA GraphOfRunInline ==
    ASSUME PoolInv, NEW a \in Bodies, RunInline(a), Deps[Target(a)] \subseteq done
    PROVE  \E j \in Jobs : Graph!RunNow(j)
<1> DEFINE j == Target(a)
<1>0. SlotInv /\ TypeInv
  BY DEF PoolInv, SlotInv
<1>1. /\ ph[a] \in {"run", "alloc"} /\ AtSchedule(a)
      /\ Call(a, j, "run") /\ pc' = [pc EXCEPT ![a] = @ + 1] /\ UNCHANGED <<handle, done>>
  BY <1>0, InlineSlot
<1>2. j \in Jobs /\ a # j /\ handle[j] = NoHandle /\ ph[j] = "off"
  BY <1>0, <1>1, TargetIsFresh
<1>3. Awaited' = Awaited
  BY <1>0, <1>1, AwaitedStays DEF AtSchedule
<1> HIDE DEF j
<1>4. j \notin Entered /\ Entered' = Entered \cup {j}
  BY <1>0, <1>1, <1>2, Entering
<1>5. j \notin Submits /\ Submits' = Submits \cup {j}
  BY <1>1, <1>2, <1>4 DEF Submits
<1>6. PICK k \in Jobs : k = j
  BY <1>2
<1>7. Deps[k] \subseteq done
  BY <1>6 DEF j
<1>8. Graph!RunNow(k)
  BY <1>1, <1>3, <1>4, <1>5, <1>6, <1>7 DEF Graph!RunNow, Graph!Ready, Submits
<1> QED
  BY <1>8

LEMMA GraphOfTake ==
    ASSUME PoolInv, Recorded, NEW a \in Actors, NEW w \in Workers, NEW o \in {0, 1}, TakeOf(a, w, o)
    PROVE  \E j \in Jobs : Graph!Start(j)
<1>0. SlotInv /\ TypeInv /\ Grounded
  BY DEF PoolInv, SlotInv, NothingLost
<1> DEFINE s == Taken(w, o)
           j == occupant[s]
           p == IF ph[a] \in {"seek", "steal"} THEN Resume(a) ELSE "drain"
<1>1. /\ s \in Slots /\ Ripe(s) /\ j \in Jobs /\ j # a /\ Call(a, j, p)
      /\ UNCHANGED <<pc, handle, done>>
  BY <1>0, TakeJob DEF TakeOf
<1>2. ph[j] = "off" /\ Deps[j] \subseteq done
  BY <1>0, <1>1, RipeIsReady DEF Ripe
<1>3. handle[j] # NoHandle
  <2>1. handle[j].slot = s /\ s # None
    BY <1>0, <1>1, MainIsApart, PoolAssumption DEF SlotInv, SlotsAnswer, Ripe
  <2> QED
    BY <2>1 DEF NoHandle
<1>4. Awaited' = Awaited
  BY <1>1 DEF Awaited
<1> HIDE DEF s, j, p
<1>5. j \notin Entered /\ Entered' = Entered \cup {j}
  BY <1>0, <1>1, <1>2, Entering
<1>6. j \in Submits /\ Submits' = Submits
  BY <1>1, <1>3, <1>5 DEF Submits
<1>7. Graph!Start(j)
  BY <1>1, <1>2, <1>4, <1>5, <1>6 DEF Graph!Start, Graph!Ready, Submits
<1> QED
  BY <1>1, <1>7

LEMMA GraphOfReturn ==
    ASSUME PoolInv, NEW j \in Jobs, Return(j) PROVE Graph!Finish(j)
<1>0. SlotInv /\ TypeInv
  BY DEF PoolInv, SlotInv
<1>1. /\ ph[j] = "run" /\ done' = done \cup {j} /\ UNCHANGED <<pc, runs>>
      /\ handle' = handle \/ handle' = [handle EXCEPT ![j] = SerialHandle]
  BY DEF Return
<1>2. Awaited' = Awaited /\ Entered' = Entered
  BY <1>1 DEF Awaited, Entered
<1>3. runs[j] # 0 /\ j \notin done
  BY <1>0, <1>1 DEF SlotInv, DoneFits, Enqueuing
<1>4. j \in Entered
  BY <1>0, <1>3 DEF Entered, TypeInv, TypeOK
<1>5. \A k \in Jobs \ {j} : handle'[k] = handle[k]
  BY <1>0, <1>1 DEF TypeInv, TypeOK
<1>6. Submits' = Submits
  BY <1>2, <1>4, <1>5 DEF Submits
<1> QED
  BY <1>1, <1>2, <1>3, <1>4, <1>6 DEF Graph!Finish, Submits

LEMMA GraphOfWaitCheck ==
    ASSUME PoolInv, NEW a \in Bodies, WaitCheck(a)
    PROVE  (\E j \in Jobs : Graph!Await(j)) \/ UNCHANGED Graph!graph
<1>0. SlotInv /\ TypeInv
  BY DEF PoolInv, SlotInv
<1> DEFINE j == Target(a)
<1>1. /\ AtOp(a, "wait") /\ handle[j] # NoHandle /\ UNCHANGED <<handle, runs, done>>
      /\ IF Finished(handle[j]) THEN pc' = [pc EXCEPT ![a] = @ + 1] ELSE UNCHANGED pc
  BY DEF WaitCheck, InHand, histVars
<1>2. CASE Finished(handle[j])
  <2>1. j \in Jobs /\ Awaited' = Awaited \cup {j}
    BY <1>0, <1>1, <1>2, AwaitedGrows
  <2>2. j \in done
    BY <1>0, <1>1, <1>2, <2>1, HandleOfUnfinished
  <2>3. Graph!Await(j)
    BY <1>1, <2>1, <2>2 DEF Graph!Await, Entered
  <2> QED
    BY <2>1, <2>3
<1>3. CASE ~Finished(handle[j])
  BY <1>1, <1>3, SameGraph DEF Awaited
<1> QED
  BY <1>2, <1>3

LEMMA GraphOfNotify ==
    ASSUME PoolInv, NEW a \in Actors, Notify(a) PROVE UNCHANGED Graph!graph
<1>0. SlotInv /\ TypeInv
  BY DEF PoolInv, SlotInv
<1>1. /\ ph[a] = "notify" /\ UNCHANGED <<handle, runs, done>>
      /\ pc' = [pc EXCEPT ![a] = IF todo[a] = {} /\ a \notin done THEN @ + 1 ELSE @]
  BY DEF Notify, histVars
<1>2. CASE todo[a] = {} /\ a \notin done
  <2>1. a \in Bodies /\ AtSchedule(a)
    BY <1>0, <1>1, <1>2, EnqueuersAreBodies DEF Enqueuing, SlotInv, OpsFit, OnSchedule, AtSchedule
  <2>2. pc' = [pc EXCEPT ![a] = @ + 1]
    BY <1>1, <1>2
  <2> QED
    BY <1>0, <1>1, <2>1, <2>2, AwaitedStays, SameGraph DEF AtSchedule
<1>3. CASE ~(todo[a] = {} /\ a \notin done)
  <2>1. pc' = pc
    BY <1>0, <1>1, <1>3 DEF TypeInv, TypeOK
  <2> QED
    BY <1>1, <2>1, SameGraph DEF Awaited
<1> QED
  BY <1>2, <1>3

LEMMA GraphOfMain ==
    ASSUME PoolInv, MainStep PROVE UNCHANGED Graph!graph
<1>0. SlotInv /\ TypeInv
  BY DEF PoolInv, SlotInv
<1>1. UNCHANGED <<handle, runs, done>>
  BY DEF MainStep, InitPool, Shutdown, StopRunning, StopNotify, Join, histVars
<1>2. CASE StopRunning \/ StopNotify
  BY <1>1, <1>2, SameGraph DEF StopRunning, StopNotify, Awaited
<1>3. CASE InitPool \/ Shutdown
  <2>1. /\ pc[Main] \in 1..Len(Body[Main]) /\ Body[Main][pc[Main]].op # "wait"
        /\ pc' = [pc EXCEPT ![Main] = @ + 1] \/ pc' = pc
    BY <1>3 DEF InitPool, Shutdown, AtOp
  <2> QED
    BY <1>0, <1>1, <2>1, AwaitedStays, SameGraph
<1>4. CASE Join
  <2>1. /\ pc[Main] \in 1..Len(Body[Main]) /\ Body[Main][pc[Main]].op # "wait"
        /\ pc' = [pc EXCEPT ![Main] = @ + 1]
    BY <1>0, <1>4 DEF Join, SlotInv, OpsFit, Stopping
  <2> QED
    BY <1>0, <1>1, <2>1, AwaitedStays, SameGraph
<1> QED
  BY <1>2, <1>3, <1>4 DEF MainStep

\* A step of the pool is one of the graph's, or none, as long as what is run inline
\* has nothing left before it.
LEMMA GraphStep ==
    ASSUME PoolInv, Recorded, [Next]_vars,
           \A a \in Bodies : RunInline(a) => Deps[Target(a)] \subseteq done
    PROVE  [Graph!Next]_(Graph!graph)
<1>0. SlotInv /\ TypeInv
  BY DEF PoolInv, SlotInv
<1>1. CASE \E a \in Bodies : BodyStep(a)
  <2>1. PICK a \in Bodies : BodyStep(a)
    BY <1>1
  <2>2. CASE Schedule(a)
    BY <2>2, SameGraph DEF Schedule, histVars, Awaited
  <2>3. CASE Allocate(a)
    <3>1. \E j \in Jobs : Graph!Submit(j)
      BY <2>3, GraphOfAllocate
    <3> QED
      BY <3>1 DEF Graph!Next
  <2>4. CASE RunInline(a)
    <3>1. \E j \in Jobs : Graph!RunNow(j)
      BY <2>4, GraphOfRunInline
    <3> QED
      BY <3>1 DEF Graph!Next
  <2>5. CASE WaitCheck(a)
    BY <2>5, GraphOfWaitCheck DEF Graph!Next
  <2> QED
    BY <2>1, <2>2, <2>3, <2>4, <2>5 DEF BodyStep
<1>2. CASE \E a \in Actors : HelpStep(a)
  <2>1. PICK a \in Actors : HelpStep(a)
    BY <1>2
  <2>2. CASE \E w \in Workers, o \in {0, 1} : TakeOf(a, w, o)
    BY <2>2, GraphOfTake DEF Graph!Next
  <2>3. CASE LookOn(a)
    BY <2>3, SameGraph DEF LookOn, Awaited
  <2>4. CASE FindNothing(a) \/ Park(a) \/ Sleep(a)
    BY <2>4, SameGraph DEF FindNothing, Park, Sleep, histVars, Awaited
  <2> QED
    BY <1>0, <2>1, <2>2, <2>3, <2>4, TakeCases DEF HelpStep
<1>3. CASE \E a \in Actors : EnqueueStep(a)
  <2>1. PICK a \in Actors : EnqueueStep(a)
    BY <1>3
  <2>2. CASE Push(a) \/ Count(a)
    BY <2>2, SameGraph DEF Push, Count, histVars, Awaited
  <2> QED
    BY <2>1, <2>2, GraphOfNotify DEF EnqueueStep
<1>4. CASE \E j \in Jobs : JobStep(j)
  <2>1. PICK j \in Jobs : JobStep(j)
    BY <1>4
  <2>2. CASE Complete(j) \/ Leave(j)
    BY <2>2, SameGraph DEF Complete, Leave, histVars, Awaited
  <2> QED
    BY <2>1, <2>2, GraphOfReturn DEF JobStep, Graph!Next
<1>5. CASE \E w \in Workers : LoadRunning(w)
  BY <1>5, SameGraph DEF LoadRunning, histVars, Awaited
<1>6. CASE MainStep
  BY <1>6, GraphOfMain
<1>7. CASE UNCHANGED vars
  BY <1>7, SameGraph DEF vars, histVars, Awaited
<1> QED
  BY <1>1, <1>2, <1>3, <1>4, <1>5, <1>6, <1>7 DEF Next, Step

-----------------------------------------------------------------------------
(* When what is run inline has nothing left before it.  The pool runs a job    *)
(* inline when it finds no slot, and when it is not running; neither looks at   *)
(* the dependencies.                                                             *)

\* No schedule finds every slot taken.
Room == \A a \in Bodies : ph[a] = "alloc" => freeSlots # {}

\* The jobs that a job schedules depend on nothing, as those of a parallelFor: a job
\* that runs while the pool is shut down schedules what runs at once.
BodiesFork ==
    \A b \in Jobs : \A i \in 1..Len(Body[b]) :
        Body[b][i].op = "schedule" => Deps[Body[b][i].job] = {}

LEMMA InlineIsReady ==
    ASSUME BodiesFork, PoolInv, Room, NEW a \in Bodies, RunInline(a)
    PROVE  Deps[Target(a)] \subseteq done
<1>0. SlotInv /\ TypeInv /\ Down
  BY DEF PoolInv, SlotInv, NothingLost
<1>1. ph[a] = "run" /\ AtOp(a, "schedule") /\ InHand(Deps[Target(a)]) /\ ~running
  BY DEF RunInline, Room
<1>2. CASE a \in Jobs
  BY <1>1, <1>2 DEF AtOp, Target, BodiesFork
<1>3. CASE a = Main
  <2>1. Serial
    BY <1>1, <1>3 DEF Serial
  <2>2. Deps[Target(a)] \subseteq Jobs
    BY <1>1, PoolAssumption DEF AtOp, Target
  <2> QED
    BY <1>0, <1>1, <2>1, <2>2 DEF Down, InHand
<1> QED
  BY <1>2, <1>3

LEMMA RecordedInit == Init => Recorded
BY DEF Init, Recorded

LEMMA RecordedHolds == ASSUME OneLife PROVE Spec => []Recorded
<1>1. PoolInv /\ Recorded /\ [Next]_vars => Recorded'
  BY RecordedStep DEF PoolInv, NothingLost
<1> QED
  BY <1>1, RecordedInit, PoolHolds, PTL DEF Spec

LEMMA GraphInit == Init => Graph!Init
<1> SUFFICES ASSUME Init PROVE Graph!Init
  OBVIOUS
<1>1. Submits = {} /\ Entered = {} /\ done = {}
  BY DEF Init, Submits, Entered
<1>2. Awaited = {}
  BY DEF Init, Awaited
<1> QED
  BY <1>1, <1>2 DEF Graph!Init, Submits

\* jobs.h keeps its promise: a job is submitted once, starts once and only when all
\* it was scheduled behind has returned, and a wait for it returns no sooner than it,
\* as long as no schedule finds every slot taken.
THEOREM ImplementsJobGraphHolds ==
    ASSUME OneLife, BodiesFork PROVE Spec /\ []Room => ImplementsJobGraph
<1>1. PoolInv /\ Recorded /\ Room /\ [Next]_vars => [Graph!Next]_(Graph!graph)
  <2> SUFFICES ASSUME PoolInv, Recorded, Room, [Next]_vars PROVE [Graph!Next]_(Graph!graph)
    OBVIOUS
  <2>1. \A a \in Bodies : RunInline(a) => Deps[Target(a)] \subseteq done
    BY InlineIsReady
  <2> QED
    BY <2>1, GraphStep
<1> QED
  BY <1>1, GraphInit, PoolHolds, RecordedHolds, PTL DEF Spec, ImplementsJobGraph, Graph!Spec

-----------------------------------------------------------------------------
(* A pool with a slot for every job of the program has room. *)

\* Until the pool is started nobody is inside schedule; from then on a slot is free or
\* has a job.
Filled ==
    \/ Serial /\ \A b \in Bodies : ph[b] # "alloc"
    \/ \A s \in Slots : s \in freeSlots \/ occupant[s] # None

LEMMA SlotsStayFilled ==
    ASSUME SlotInv, [Next]_vars, \A s \in Slots : s \in freeSlots \/ occupant[s] # None
    PROVE  \A s \in Slots : s \in freeSlots' \/ occupant'[s] # None
<1>0. TypeInv
  BY DEF SlotInv
<1>1. CASE \E a \in Bodies : Allocate(a)
  <2>1. PICK a \in Bodies : Allocate(a)
    BY <1>1
  <2>2. PICK s \in freeSlots : s \in Slots /\ AllocateAt(a, s)
    BY <2>1, AllocateSlot
  <2>3. Target(a) \in Jobs
    BY <2>1, AllocateSlot
  <2>4. freeSlots' = freeSlots \ {s} /\ occupant' = [occupant EXCEPT ![s] = Target(a)]
    BY <2>2 DEF AllocateAt
  <2>5. Target(a) # None
    BY <2>3, PoolAssumption
  <2> QED
    BY <1>0, <2>4, <2>5 DEF TypeInv, TypeOK
<1>2. CASE \E j \in Jobs : Complete(j)
  <2>1. PICK j \in Jobs : Complete(j)
    BY <1>2
  <2>2. /\ freeSlots' = freeSlots \cup {handle[j].slot}
        /\ occupant' = [occupant EXCEPT ![handle[j].slot] = None]
    BY <2>1 DEF Complete, ReleaseSlot
  <2> QED
    BY <1>0, <2>2 DEF TypeInv, TypeOK
<1>3. CASE InitPool
  BY <1>3 DEF InitPool
<1>4. CASE \E a \in Bodies : RunInline(a)
  BY <1>4, InlineSlot DEF graphVars
<1>5. CASE \E a \in Actors : \E w \in Workers, o \in {0, 1} : TakeOf(a, w, o)
  BY <1>5 DEF TakeOf, graphVars
<1>6. CASE \E a \in Actors : Push(a) \/ Count(a) \/ Park(a) \/ Sleep(a)
  BY <1>6 DEF Push, Count, Park, Sleep, graphVars
<1>7. CASE \E j \in Jobs : Return(j) \/ Leave(j)
  BY <1>7 DEF Return, Leave, graphVars
<1>8. CASE StopRunning \/ Join
  BY <1>8 DEF StopRunning, Join, graphVars
<1>9. CASE \E a \in Actors : Calm(a)
  BY <1>9 DEF Calm, graphVars
<1>10. CASE UNCHANGED vars
  BY <1>10 DEF vars, graphVars
<1> QED
  BY <1>1, <1>2, <1>3, <1>4, <1>5, <1>6, <1>7, <1>8, <1>9, <1>10, StepKinds DEF JobStep

LEMMA FilledStep == ASSUME SlotInv, SlotInv', Filled, [Next]_vars PROVE Filled'
<1>1. CASE \A s \in Slots : s \in freeSlots \/ occupant[s] # None
  BY <1>1, SlotsStayFilled DEF Filled
<1>2. CASE InitPool /\ ~running
  BY <1>2 DEF InitPool, Filled
<1>3. CASE Serial /\ (\A b \in Bodies : ph[b] # "alloc") /\ ~(InitPool /\ ~running)
  <2>0. Arcs /\ Histories
    BY StepArcs, StepHistories
  <2>1. ~running
    BY <1>3 DEF Serial
  <2>2. \A b \in Bodies : ph'[b] # "alloc"
    <3> SUFFICES ASSUME NEW b \in Bodies, ph'[b] = "alloc" PROVE FALSE
      OBVIOUS
    <3>1. ph[b] # "alloc"
      BY <1>3
    <3>2. Arc(b)
      BY <2>0, <3>1 DEF Arcs, Still
    <3>3. ~BodyArc(b)
      BY <2>1, <3>1 DEF BodyArc
    <3>4. ~JobArc(b) /\ (b = Main => ~MainArc) /\ b \notin Workers
      BY MainIsApart, PoolAssumption DEF JobArc, MainArc
    <3> QED
      BY <3>2, <3>3, <3>4 DEF Arc
  <2>3. ~running'
    <3>1. CASE \E j \in Jobs : JobStep(j)
      BY <2>1, <3>1 DEF JobStep, Return, Complete, Leave
    <3>2. CASE \E a \in Bodies : Allocate(a) \/ RunInline(a)
      BY <2>1, <3>2, AllocateSlot, InlineSlot
    <3>3. CASE \E a \in Actors : \E w \in Workers, o \in {0, 1} : TakeOf(a, w, o)
      BY <2>1, <3>3 DEF TakeOf
    <3>4. CASE \E a \in Actors : Push(a) \/ Count(a) \/ Park(a) \/ Sleep(a)
      BY <2>1, <3>4 DEF Push, Count, Park, Sleep
    <3>5. CASE StopRunning \/ Join
      BY <2>1, <3>5 DEF StopRunning, Join
    <3>6. CASE \E a \in Actors : Calm(a)
      BY <2>1, <3>6 DEF Calm
    <3>7. CASE UNCHANGED vars
      BY <2>1, <3>7 DEF vars
    <3> QED
      BY <1>3, <2>1, <3>1, <3>2, <3>3, <3>4, <3>5, <3>6, <3>7, StepKinds
  <2>4. ph'[Main] \notin {"stopNotify", "join"}
    <3>1. ph[Main] \notin {"stop", "stopNotify", "join"}
      BY <1>3, <2>1 DEF Serial, SlotInv, Life
    <3>2. Still(Main) \/ BodyArc(Main) \/ MainArc
      BY <2>0, MainIsApart DEF Arcs, Arc
    <3> QED
      BY <3>1, <3>2 DEF Still, BodyArc, MainArc
  <2> QED
    BY <2>2, <2>3, <2>4 DEF Filled, Serial
<1> QED
  BY <1>1, <1>2, <1>3 DEF Filled

LEMMA FilledGivesRoom ==
    ASSUME PoolInv, Filled, Cardinality(Jobs) <= Cardinality(Slots) PROVE Room
<1> SUFFICES ASSUME NEW a \in Bodies, ph[a] = "alloc", freeSlots = {} PROVE FALSE
  BY DEF Room
<1>0. SlotInv /\ TypeInv /\ InHandFits
  BY DEF PoolInv, SlotInv, NothingLost
<1> DEFINE j == Target(a)
           f == [s \in Slots |-> occupant[s]]
<1>1. j \in Jobs /\ handle[j] = NoHandle
  BY <1>0, TargetIsFresh DEF InHandFits
<1>2. \A s \in Slots : occupant[s] \in Jobs /\ handle[occupant[s]].slot = s /\ s # None
  BY <1>0, PoolAssumption DEF Filled, SlotInv, SlotsAnswer, TypeInv, TypeOK
<1>3. \A s \in Slots : occupant[s] # j
  BY <1>1, <1>2 DEF NoHandle
<1> HIDE DEF j
<1>4. f \in [Slots -> Jobs \ {j}] /\ \A s, t \in Slots : f[s] = f[t] => s = t
  BY <1>2, <1>3
<1> HIDE DEF f
<1>5. f \in Injection(Slots, Jobs \ {j})
  BY <1>4 DEF Injection, IsInjective
<1>6. IsFiniteSet(Jobs) /\ IsFiniteSet(Slots)
  BY PoolAssumption
<1>7. IsFiniteSet(Jobs \ {j}) /\ Cardinality(Jobs \ {j}) = Cardinality(Jobs) - 1
  BY <1>1, <1>6, FS_RemoveElement
<1>8. Cardinality(Slots) <= Cardinality(Jobs \ {j})
  BY <1>5, <1>7, FS_Injection
<1> QED
  BY <1>6, <1>7, <1>8, FS_CardinalityType

LEMMA FilledInit == Init => Filled
<1> SUFFICES ASSUME Init PROVE Filled
  OBVIOUS
<1>1. ~running /\ \A a \in Actors : ph[a] = IF a = Main THEN "run" ELSE "off"
  BY DEF Init
<1> QED
  BY <1>1 DEF Filled, Serial

\* A pool with as many slots as the program has jobs runs nothing inline while it is
\* running.
THEOREM RoomHolds ==
    ASSUME OneLife, Cardinality(Jobs) <= Cardinality(Slots) PROVE Spec => []Room
<1>1. PoolInv /\ PoolInv' /\ Filled /\ [Next]_vars => Filled'
  BY FilledStep DEF PoolInv
<1>2. PoolInv /\ Filled => Room
  BY FilledGivesRoom
<1> QED
  BY <1>1, <1>2, FilledInit, PoolHolds, PTL DEF Spec

\* So a pool with a slot for every job keeps the promise whatever the schedules do.
THEOREM JobGraphHolds ==
    ASSUME OneLife, BodiesFork, Cardinality(Jobs) <= Cardinality(Slots)
    PROVE  Spec => ImplementsJobGraph
BY ImplementsJobGraphHolds, RoomHolds, PTL

-----------------------------------------------------------------------------
(* The partition of a parallelFor is right for every span and grain whose sums   *)
(* do not wrap.                                                                   *)

LEMMA Division ==
    ASSUME NEW n \in Nat, NEW g \in Nat \ {0}
    PROVE  n \div g \in Nat /\ (n \div g) * g <= n /\ n < (n \div g) * g + g
BY SMT

LEMMA Small == ASSUME NEW n \in Nat, NEW m \in Nat \ {0}, n < m PROVE n % m = n
BY SMT

LEMMA Product == ASSUME NEW a \in Nat, NEW b \in Nat, NEW g \in Nat, a < b
                 PROVE  a * g \in Nat /\ b * g \in Nat /\ a * g + g <= b * g
BY SMT

\* The number of ranges is the span over the grain, rounded up.
LEMMA CountIsCeiling ==
    ASSUME NEW begin \in Nat, NEW end \in Nat, NEW grain \in Nat \ {0}, begin < end,
           Fits(begin, end, grain), NEW n, n = RangeCount(begin, end, grain)
    PROVE  n \in Nat /\ n * grain < end - begin + grain /\ end - begin <= n * grain
<1> DEFINE span == (end - begin) + grain - 1
           q == span \div grain
<1>1. span \in Nat /\ span < SizeLimit /\ span % SizeLimit = span
  BY Small, WidthAssumption DEF Fits
<1>2. q \in Nat /\ q * grain <= span /\ span < q * grain + grain
  BY <1>1, Division
<1>3. q < IndexLimit
  <2> SUFFICES ASSUME IndexLimit <= q PROVE FALSE
    BY <1>2, WidthAssumption
  <2>1. IndexLimit * grain <= q * grain
    BY <1>2, Product, WidthAssumption
  <2> QED BY <1>1, <1>2, <2>1, WidthAssumption DEF Fits
<1>4. n = q
  <2>1. n = ((span % SizeLimit) \div grain) % IndexLimit
    BY DEF RangeCount
  <2>2. q % IndexLimit = q
    BY <1>2, <1>3, Small, WidthAssumption
  <2> QED BY <1>1, <2>1, <2>2
<1> QED BY <1>2, <1>4

\* A range is grain elements, but the last, which ends at end.
LEMMA RangeBounds ==
    ASSUME NEW begin \in Nat, NEW end \in Nat, NEW grain \in Nat \ {0}, begin < end,
           Fits(begin, end, grain), NEW i \in 0..(RangeCount(begin, end, grain) - 1)
    PROVE  /\ i * grain \in Nat /\ begin + i * grain < end
           /\ RangeBegin(begin, grain, i) = begin + i * grain
           /\ RangeEnd(begin, end, grain, i) = Least(begin + i * grain + grain, end)
<1> DEFINE n == RangeCount(begin, end, grain)
<1>1. n \in Nat /\ n * grain < end - begin + grain
  BY CountIsCeiling
<1>2. i \in Nat /\ i < n
  BY <1>1
<1>3. i * grain \in Nat /\ i * grain + grain <= n * grain
  BY <1>1, <1>2, Product
<1>4. begin + i * grain < end
  BY <1>1, <1>3
<1>5. begin + i * grain < SizeLimit /\ begin + i * grain + grain <= SizeLimit
  BY <1>3, <1>4, WidthAssumption DEF Fits
<1>6. RangeBegin(begin, grain, i) = begin + i * grain
  BY <1>3, <1>5, Small, WidthAssumption DEF RangeBegin
<1>7. RangeEnd(begin, end, grain, i) = Least(begin + i * grain + grain, end)
  <2>1. begin + i * grain + grain < SizeLimit
    BY <1>3, <1>4, WidthAssumption DEF Fits
  <2> QED BY <1>3, <1>6, <2>1, Small, WidthAssumption DEF RangeEnd
<1> QED BY <1>3, <1>4, <1>6, <1>7

\* jobs.h: "range 3 covers the same elements on every run", and between them the
\* ranges cover all of [begin, end): no element is skipped or visited twice.
THEOREM PartitionCovers ==
    ASSUME NEW begin \in Nat, NEW end \in Nat, NEW grain \in Nat \ {0}, begin < end,
           Fits(begin, end, grain)
    PROVE  EachOnce(begin, end, grain)
<1> DEFINE n == RangeCount(begin, end, grain)
<1>0. n \in Nat /\ end - begin <= n * grain
  BY CountIsCeiling
<1>1. SUFFICES ASSUME NEW e \in begin..(end - 1)
               PROVE  \E i \in 0..(n - 1) :
                        /\ e \in Elements(begin, end, grain, i)
                        /\ \A j \in 0..(n - 1) : e \in Elements(begin, end, grain, j) => i = j
  BY DEF EachOnce
<1> DEFINE i == (e - begin) \div grain
<1>2. i \in Nat /\ i * grain <= e - begin /\ e - begin < i * grain + grain
  BY Division
<1>3. i < n
  <2> SUFFICES ASSUME n <= i PROVE FALSE
    BY <1>0, <1>2
  <2>1. n * grain <= i * grain
    BY <1>0, <1>2, Product
  <2> QED BY <1>0, <1>2, <2>1
<1>4. e \in Elements(begin, end, grain, i)
  <2> HIDE DEF i
  <2>1. i \in 0..(n - 1)
    BY <1>0, <1>2, <1>3
  <2>2. /\ RangeBegin(begin, grain, i) = begin + i * grain
        /\ RangeEnd(begin, end, grain, i) = Least(begin + i * grain + grain, end)
    BY <2>1, RangeBounds
  <2> QED BY <1>2, <2>2 DEF Elements, Least
<1>5. ASSUME NEW j \in 0..(n - 1), e \in Elements(begin, end, grain, j) PROVE i = j
  <2>1. j * grain \in Nat /\ j * grain <= e - begin /\ e - begin < j * grain + grain
    BY <1>5, RangeBounds DEF Elements, Least
  <2>2. ~(i < j)
    BY <1>0, <1>2, <2>1, Product
  <2>3. ~(j < i)
    BY <1>0, <1>2, <2>1, Product
  <2> QED BY <1>0, <1>2, <2>2, <2>3
<1> QED BY <1>0, <1>2, <1>3, <1>4, <1>5

\* A range is never empty and never reaches outside of the span it is a part of.
THEOREM PartitionInside ==
    ASSUME NEW begin \in Nat, NEW end \in Nat, NEW grain \in Nat \ {0}, begin < end,
           Fits(begin, end, grain)
    PROVE  RangesAreInside(begin, end, grain)
<1> SUFFICES ASSUME NEW i \in 0..(RangeCount(begin, end, grain) - 1)
             PROVE  /\ Elements(begin, end, grain, i) # {}
                    /\ Elements(begin, end, grain, i) \subseteq begin..(end - 1)
  BY DEF RangesAreInside
<1>1. /\ i * grain \in Nat /\ begin + i * grain < end
      /\ RangeBegin(begin, grain, i) = begin + i * grain
      /\ RangeEnd(begin, end, grain, i) = Least(begin + i * grain + grain, end)
  BY RangeBounds
<1>2. begin + i * grain \in Elements(begin, end, grain, i)
  BY <1>1 DEF Elements, Least
<1> QED BY <1>1, <1>2 DEF Elements, Least

\* commit.h: the walk in bucket order is the sequential order, whichever order the
\* ranges completed in, since a lower bucket holds lower elements.
THEOREM PartitionInOrder ==
    ASSUME NEW begin \in Nat, NEW end \in Nat, NEW grain \in Nat \ {0}, begin < end,
           Fits(begin, end, grain)
    PROVE  InOrder(begin, end, grain)
<1> DEFINE n == RangeCount(begin, end, grain)
<1> SUFFICES ASSUME NEW i \in 0..(n - 1), NEW j \in 0..(n - 1), i < j,
                    NEW d \in Elements(begin, end, grain, i), NEW e \in Elements(begin, end, grain, j)
             PROVE  d < e
  BY DEF InOrder
<1>1. n \in Nat
  BY CountIsCeiling
<1>2. i * grain \in Nat /\ d < begin + i * grain + grain
  BY RangeBounds DEF Elements, Least
<1>3. j * grain \in Nat /\ begin + j * grain <= e
  BY RangeBounds DEF Elements, Least
<1>4. i * grain + grain <= j * grain
  BY <1>1, Product
<1>5. d \in Int /\ e \in Int
  BY RangeBounds DEF Elements, Least
<1> QED BY <1>2, <1>3, <1>4, <1>5

\* jobs.cpp: the waves of a parallelFor take every range once, MaxRangesPerWave at
\* the most in the air together.
THEOREM WavesCover ==
    ASSUME NEW ranges \in Nat, ranges + MaxRangesPerWave < IndexLimit
    PROVE  WavesMeet(ranges)
<1> SUFFICES ASSUME NEW start \in 0..(ranges - 1)
             PROVE  /\ \A i \in Wave(ranges, start) : i < start + MaxRangesPerWave /\ i < ranges
                    /\ start \in Wave(ranges, start)
                    /\ \A i \in start..(ranges - 1) : i \in Wave(ranges, start) \/ i >= NextWave(start)
                    /\ NextWave(start) > start
  BY DEF WavesMeet
<1>1. NextWave(start) = start + MaxRangesPerWave
  BY Small, WidthAssumption DEF NextWave
<1> QED BY <1>1, WidthAssumption DEF Wave, Least
=============================================================================
