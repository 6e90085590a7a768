------------------------------- MODULE JobPool -------------------------------
(***************************************************************************)
(* The CPU work pool of engine/jobs: workers with a queue each, a graph    *)
(* lock, one condition variable, and callers that help while they wait.    *)
(*                                                                         *)
(* An actor is an activation that can take a step: the main thread, a      *)
(* worker's loop, or the body of a job.  A job runs on the thread of the   *)
(* actor that called it (callee), so a thread's call stack is the chain of *)
(* callees from its worker or from Main, and only its top actor steps.     *)
(*                                                                         *)
(* Every critical section is one step, except the wait on the condition    *)
(* variable, whose predicate is evaluated in one step and whose            *)
(* registration is the next, with the graph lock held between the two.     *)
(***************************************************************************)
EXTENDS Integers, Sequences, FiniteSets

CONSTANTS Jobs,      \* the jobs of the program, each scheduled at most once
          Workers,   \* worker threads
          Slots,     \* the fixed pool of job slots (MaxLiveJobs)
          Main,      \* the thread that owns the pool
          None,      \* no actor, no slot
          Deps,      \* Deps[j]: jobs whose handles j is scheduled behind
          Body       \* Body[a]: what Main or a job's callable does to the pool

Threads == Workers \cup {Main}
Bodies  == Jobs \cup {Main}
Actors  == Jobs \cup Threads
Ops     == [op : {"schedule", "wait", "init", "shutdown"}, job : Jobs \cup {None}]

ASSUME PoolAssumption ==
    /\ Main \notin Jobs \cup Workers /\ Jobs \cap Workers = {}
    /\ None \notin Actors \cup Slots
    /\ IsFiniteSet(Jobs) /\ IsFiniteSet(Workers) /\ IsFiniteSet(Slots)
    /\ Workers # {}   \* init starts one at least, whatever it is asked for
    /\ Deps \in [Jobs -> SUBSET Jobs]
    /\ Body \in [Bodies -> Seq(Ops)]
    /\ \A a \in Bodies : \A i \in 1..Len(Body[a]) :
         LET o == Body[a][i] IN
         /\ o.op \in {"schedule", "wait"} => o.job \in Jobs
         /\ o.op \in {"init", "shutdown"} => a = Main
    /\ \A a, b \in Bodies : \A i \in 1..Len(Body[a]), k \in 1..Len(Body[b]) :
         (/\ Body[a][i].op = "schedule" /\ Body[b][k] = Body[a][i])
            => (a = b /\ i = k)

VARIABLES
    running,     \* Pool::running
    graphLock,   \* who holds Pool::mutex across steps, or None
    freeSlots,   \* Pool::freeSlots, its order abstracted
    gen,         \* Job::generation of each slot
    occupant,    \* the callable stored in each slot, as the job it belongs to
    remaining,   \* Job::remainingDependencies
    dependents,  \* Job::dependents
    queue,       \* Worker::queue
    readyCount,  \* Pool::readyCount; a u32 in the code, read only against 0
    ph, pc,      \* where each actor is: the phase, and the operation of its body
    callee,      \* the job an actor is executing on its own stack, or None
    on,          \* the thread each actor runs on (t_workerIndex)
    victims,     \* the workers a steal has still to look at
    todo,        \* slots a schedule or a completion has still to enqueue
    handle,      \* the JobHandle schedule returned for each job
    runs,        \* history: how often each job's body was entered
    done         \* history: the jobs whose body has returned

graphVars  == <<freeSlots, gen, occupant, remaining, dependents>>
queueVars  == <<queue, readyCount>>
histVars   == <<handle, runs, done>>
vars == <<running, graphLock, graphVars, queueVars, ph, pc, callee, on,
          victims, todo, histVars>>

Phases == {"off", "run", "alloc", "loop", "seek", "steal", "park", "sleep", "asleep",
           "push", "count", "notify", "complete", "leave", "drain",
           "drainSteal", "stop", "stopNotify", "join", "exited", "dead"}

NoHandle     == [slot |-> None, gen |-> 0]   \* schedule has returned none
SerialHandle == [slot |-> None, gen |-> 1]   \* the job has already run

\* handleFinished: the generation moved on, or the pool never held the job.
Finished(h) == h.slot = None \/ gen[h.slot] # h.gen

\* a has the frame on top of its thread's stack, and is at this operation.
AtOp(a, op) == /\ callee[a] = None
               /\ pc[a] \in 1..Len(Body[a]) /\ Body[a][pc[a]].op = op
Target(a)   == Body[a][pc[a]].job

Init ==
    /\ running = FALSE /\ graphLock = None
    /\ freeSlots = {} /\ gen = [s \in Slots |-> 0]
    /\ occupant = [s \in Slots |-> None]
    /\ remaining = [s \in Slots |-> 0] /\ dependents = [s \in Slots |-> {}]
    /\ queue = [w \in Workers |-> <<>>] /\ readyCount = 0
    /\ ph = [a \in Actors |-> IF a = Main THEN "run" ELSE "off"]
    /\ pc = [a \in Actors |-> 1]
    /\ callee = [a \in Actors |-> None]
    /\ on = [a \in Actors |-> IF a \in Threads THEN a ELSE None]
    /\ victims = [a \in Actors |-> {}] /\ todo = [a \in Actors |-> {}]
    /\ handle = [j \in Jobs |-> NoHandle]
    /\ runs = [j \in Jobs |-> 0] /\ done = {}

-----------------------------------------------------------------------------
(* Building blocks *)

Goto(a, phase) == ph' = [ph EXCEPT ![a] = phase]

\* condition_variable::notify_all by a, which goes on to the given phase: every
\* sleeper wakes to evaluate its predicate again.
NotifyAll(a, phase) ==
    ph' = [b \in Actors |-> IF b = a THEN phase
                            ELSE IF ph[b] = "asleep" THEN "park" ELSE ph[b]]

\* a calls j on its own stack, and resumes in the given phase when j returns.
Call(a, j, resume) ==
    /\ callee' = [callee EXCEPT ![a] = j]
    /\ ph' = [ph EXCEPT ![a] = resume, ![j] = "run"]
    /\ on' = [on EXCEPT ![j] = on[a]]
    /\ runs' = [runs EXCEPT ![j] = @ + 1]

\* j returns to its caller, and its frame is gone.
Pop(j) == /\ callee' = [a \in Actors |-> IF callee[a] = j THEN None ELSE callee[a]]
          /\ on' = [on EXCEPT ![j] = None]

Resume(a) == IF a \in Workers THEN "loop" ELSE "run"

\* schedule needs the handles it depends on, and wait the handle it waits for:
\* a program holds one only after schedule has returned it.
Returned(d) == \E b \in Bodies : \E i \in 1..(pc[b] - 1) :
                  Body[b][i] = [op |-> "schedule", job |-> d]
InHand(S)   == \A d \in S : handle[d] # NoHandle /\ Returned(d)

\* Mutant of LiveDeps: the test for a finished dependency is inverted.
LiveDepsInverted(j) == {d \in Deps[j] : Finished(handle[d])}

\* The dependencies schedule records: those neither finished nor recycled.
LiveDeps(j) == {d \in Deps[j] : ~Finished(handle[d])}

-----------------------------------------------------------------------------
(* schedule *)

\* schedule reads `running` before it takes the graph lock.
Schedule(a) ==
    /\ ph[a] = "run" /\ AtOp(a, "schedule") /\ InHand(Deps[Target(a)])
    /\ running
    /\ Goto(a, "alloc")
    /\ UNCHANGED <<running, graphLock, graphVars, queueVars, pc, callee, on,
                   victims, todo, histVars>>

Allocate(a) ==
    /\ ph[a] = "alloc" /\ AtOp(a, "schedule") /\ graphLock = None
    /\ \E s \in freeSlots :
         LET j == Target(a)  live == LiveDeps(j) IN
         /\ freeSlots' = freeSlots \ {s}
         /\ occupant' = [occupant EXCEPT ![s] = j]
         /\ remaining' = [remaining EXCEPT ![s] = Cardinality(live)]
         /\ dependents' = [t \in Slots |->
                IF t = s THEN {}
                ELSE IF \E d \in live : handle[d].slot = t
                     THEN dependents[t] \cup {s} ELSE dependents[t]]
         /\ handle' = [handle EXCEPT ![j] = [slot |-> s, gen |-> gen[s]]]
         /\ IF live = {}
            THEN Goto(a, "push") /\ todo' = [todo EXCEPT ![a] = {s}] /\ UNCHANGED pc
            ELSE Goto(a, "run") /\ pc' = [pc EXCEPT ![a] = @ + 1] /\ UNCHANGED todo
    /\ UNCHANGED <<running, graphLock, gen, queueVars, callee, on, victims, runs, done>>

\* runInline: a serial pool, or a pool with no slot left, runs the callable on
\* the calling thread before schedule returns.  The dependencies are not read.
RunInline(a) ==
    /\ AtOp(a, "schedule")
    /\ \/ ph[a] = "run" /\ InHand(Deps[Target(a)]) /\ ~running
       \/ ph[a] = "alloc" /\ graphLock = None /\ freeSlots = {}
    /\ Call(a, Target(a), "run")
    /\ pc' = [pc EXCEPT ![a] = @ + 1]
    /\ UNCHANGED <<running, graphLock, graphVars, queueVars, victims, todo, handle, done>>

-----------------------------------------------------------------------------
(* enqueue, from schedule and from complete: the queue under its own lock,  *)
(* the count under the graph lock, then the notification under neither.     *)

Push(a) ==
    /\ ph[a] = "push"
    /\ \E s \in todo[a], w \in Workers :
         /\ on[a] \in Workers => w = on[a]
         /\ queue' = [queue EXCEPT ![w] = Append(@, s)]
         /\ todo' = [todo EXCEPT ![a] = @ \ {s}]
    /\ Goto(a, "count")
    /\ UNCHANGED <<running, graphLock, graphVars, readyCount, pc, callee, on,
                   victims, histVars>>

\* Mutant of Count: the count as it was before D037, under no lock.
CountUnlocked(a) ==
    /\ ph[a] = "count"
    /\ readyCount' = readyCount + 1
    /\ Goto(a, "notify")
    /\ UNCHANGED <<running, graphLock, graphVars, queue, pc, callee, on,
                   victims, todo, histVars>>

Count(a) ==
    /\ ph[a] = "count" /\ graphLock = None
    /\ readyCount' = readyCount + 1
    /\ Goto(a, "notify")
    /\ UNCHANGED <<running, graphLock, graphVars, queue, pc, callee, on,
                   victims, todo, histVars>>

Notify(a) ==
    /\ ph[a] = "notify"
    /\ NotifyAll(a, IF todo[a] # {} THEN "push"
                    ELSE IF a \in done THEN "leave" ELSE "run")
    /\ pc' = [pc EXCEPT ![a] = IF todo[a] = {} /\ a \notin done THEN @ + 1 ELSE @]
    /\ UNCHANGED <<running, graphLock, graphVars, queueVars, callee, on,
                   victims, todo, histVars>>

-----------------------------------------------------------------------------
(* tryRunOne: the owner's end of the local queue, then the far end of every *)
(* other queue, one queue lock at a time.                                   *)

\* Mutant of Take: the slot leaves the queue and stays in the count.
TakeUncounted(a, w, rest, slot, resume) ==
    /\ queue' = [queue EXCEPT ![w] = rest]
    /\ UNCHANGED readyCount
    /\ Call(a, occupant[slot], resume)

Take(a, w, rest, slot, resume) ==
    /\ queue' = [queue EXCEPT ![w] = rest]
    /\ readyCount' = readyCount - 1
    /\ Call(a, occupant[slot], resume)

PopLocal(a) ==
    /\ ph[a] \in {"seek", "drain"} /\ callee[a] = None
    /\ LET w == on[a]  resume == IF ph[a] = "seek" THEN Resume(a) ELSE "drain" IN
       IF w \in Workers /\ queue[w] # <<>>
       THEN /\ Take(a, w, SubSeq(queue[w], 1, Len(queue[w]) - 1),
                    queue[w][Len(queue[w])], resume)
            /\ UNCHANGED victims
       ELSE /\ Goto(a, IF ph[a] = "seek" THEN "steal" ELSE "drainSteal")
            /\ victims' = [victims EXCEPT ![a] = Workers \ {w}]
            /\ UNCHANGED <<queueVars, callee, on, runs>>
    /\ UNCHANGED <<running, graphLock, graphVars, pc, todo, handle, done>>

Steal(a) ==
    /\ ph[a] \in {"steal", "drainSteal"} /\ callee[a] = None
    /\ \E v \in victims[a] :
         IF queue[v] # <<>>
         THEN /\ Take(a, v, Tail(queue[v]), Head(queue[v]),
                      IF ph[a] = "steal" THEN Resume(a) ELSE "drain")
              /\ victims' = [victims EXCEPT ![a] = {}]
         ELSE /\ victims' = [victims EXCEPT ![a] = @ \ {v}]
              /\ UNCHANGED <<queueVars, ph, callee, on, runs>>
    /\ UNCHANGED <<running, graphLock, graphVars, pc, todo, handle, done>>

\* tryRunOne found nothing: sleep, or stop draining.
FindNothing(a) ==
    /\ ph[a] \in {"steal", "drainSteal"} /\ callee[a] = None /\ victims[a] = {}
    /\ Goto(a, IF ph[a] = "steal" THEN "park"
               ELSE IF a = Main THEN "stop" ELSE "exited")
    /\ UNCHANGED <<running, graphLock, graphVars, queueVars, pc, callee, on,
                   victims, todo, histVars>>

-----------------------------------------------------------------------------
(* execute's tail and complete: the body has returned *)

Return(j) ==
    /\ ph[j] = "run" /\ callee[j] = None /\ pc[j] > Len(Body[j])
    /\ done' = done \cup {j}
    /\ IF handle[j].slot = None   \* it was run inline: schedule returns now
       THEN /\ Goto(j, "dead") /\ Pop(j)
            /\ handle' = [handle EXCEPT ![j] = SerialHandle]
       ELSE Goto(j, "complete") /\ UNCHANGED <<callee, on, handle>>
    /\ UNCHANGED <<running, graphLock, graphVars, queueVars, pc, victims, todo, runs>>

\* Mutant of ReleaseSlot: the generation does not move on.
ReleaseSameGeneration(s) ==
    /\ occupant' = [occupant EXCEPT ![s] = None]
    /\ dependents' = [dependents EXCEPT ![s] = {}]
    /\ freeSlots' = freeSlots \cup {s}
    /\ UNCHANGED gen

ReleaseSlot(s) ==
    /\ occupant' = [occupant EXCEPT ![s] = None]
    /\ dependents' = [dependents EXCEPT ![s] = {}]
    /\ gen' = [gen EXCEPT ![s] = @ + 1]
    /\ freeSlots' = freeSlots \cup {s}

\* The dependents for which s was the last dependency.
Ready(s) == {t \in dependents[s] : remaining[t] = 1}

Complete(j) ==
    /\ ph[j] = "complete" /\ graphLock = None
    /\ LET s == handle[j].slot IN
       /\ remaining' = [t \in Slots |->
              IF t \in dependents[s] /\ remaining[t] > 0 THEN remaining[t] - 1
              ELSE remaining[t]]
       /\ ReleaseSlot(s)
       /\ todo' = [todo EXCEPT ![j] = Ready(s)]
       /\ Goto(j, IF Ready(s) = {} THEN "leave" ELSE "push")
    /\ UNCHANGED <<running, graphLock, queueVars, pc, callee, on, victims, histVars>>

\* complete's last notification, and the return to whoever called execute.
Leave(j) ==
    /\ ph[j] = "leave"
    /\ NotifyAll(j, "dead") /\ Pop(j)
    /\ UNCHANGED <<running, graphLock, graphVars, queueVars, pc, victims, todo, histVars>>

-----------------------------------------------------------------------------
(* wait, and the sleep it shares with workerLoop *)

WaitCheck(a) ==
    /\ ph[a] = "run" /\ AtOp(a, "wait") /\ InHand({Target(a)}) /\ graphLock = None
    /\ IF Finished(handle[Target(a)])
       THEN pc' = [pc EXCEPT ![a] = @ + 1] /\ UNCHANGED ph
       ELSE Goto(a, "seek") /\ UNCHANGED pc
    /\ UNCHANGED <<running, graphLock, graphVars, queueVars, callee, on,
                   victims, todo, histVars>>

\* readyCount is a u32: a thief may take a slot before its enqueue has counted
\* it, and the count then wraps to a large value, which is not zero.
WakePredicate(a) ==
    \/ readyCount # 0
    \/ IF a \in Workers THEN ~running ELSE Finished(handle[Target(a)])

Park(a) ==
    /\ ph[a] = "park" /\ graphLock = None
    /\ IF WakePredicate(a)
       THEN Goto(a, Resume(a)) /\ UNCHANGED graphLock
       ELSE Goto(a, "sleep") /\ graphLock' = a
    /\ UNCHANGED <<running, graphVars, queueVars, pc, callee, on, victims,
                   todo, histVars>>

Sleep(a) ==
    /\ ph[a] = "sleep"
    /\ graphLock' = None
    /\ Goto(a, "asleep")
    /\ UNCHANGED <<running, graphVars, queueVars, pc, callee, on, victims,
                   todo, histVars>>

\* Mutant of LoadRunning: the worker leaves without draining.
LoadRunningNoDrain(w) ==
    /\ ph[w] = "loop" /\ callee[w] = None
    /\ Goto(w, IF running THEN "seek" ELSE "exited")
    /\ UNCHANGED <<running, graphLock, graphVars, queueVars, pc, callee, on,
                   victims, todo, histVars>>

\* The head of workerLoop: go on, or drain on the way out.
LoadRunning(w) ==
    /\ ph[w] = "loop" /\ callee[w] = None
    /\ Goto(w, IF running THEN "seek" ELSE "drain")
    /\ UNCHANGED <<running, graphLock, graphVars, queueVars, pc, callee, on,
                   victims, todo, histVars>>

-----------------------------------------------------------------------------
(* init and shutdown *)

InitPool ==
    /\ ph[Main] = "run" /\ AtOp(Main, "init")
    /\ pc' = [pc EXCEPT ![Main] = @ + 1]
    /\ IF running
       THEN UNCHANGED <<running, freeSlots, gen, occupant, ph>>
       ELSE /\ running' = TRUE
            /\ freeSlots' = Slots
            /\ gen' = [s \in Slots |-> 1]
            /\ occupant' = [s \in Slots |-> None]
            /\ ph' = [a \in Actors |-> IF a \in Workers THEN "loop" ELSE ph[a]]
    /\ UNCHANGED <<graphLock, remaining, dependents, queueVars, callee, on,
                   victims, todo, histVars>>

\* shutdown drains what is queued on the calling thread first.
Shutdown ==
    /\ ph[Main] = "run" /\ AtOp(Main, "shutdown")
    /\ IF running THEN Goto(Main, "drain") /\ UNCHANGED pc
       ELSE pc' = [pc EXCEPT ![Main] = @ + 1] /\ UNCHANGED ph
    /\ UNCHANGED <<running, graphLock, graphVars, queueVars, callee, on,
                   victims, todo, histVars>>

\* Mutant of StopRunning: the store as it was before D037, under no lock.
StopRunningUnlocked ==
    /\ ph[Main] = "stop"
    /\ running' = FALSE
    /\ Goto(Main, "stopNotify")
    /\ UNCHANGED <<graphLock, graphVars, queueVars, pc, callee, on, victims,
                   todo, histVars>>

StopRunning ==
    /\ ph[Main] = "stop" /\ graphLock = None
    /\ running' = FALSE
    /\ Goto(Main, "stopNotify")
    /\ UNCHANGED <<graphLock, graphVars, queueVars, pc, callee, on, victims,
                   todo, histVars>>

StopNotify ==
    /\ ph[Main] = "stopNotify"
    /\ NotifyAll(Main, "join")
    /\ UNCHANGED <<running, graphLock, graphVars, queueVars, pc, callee, on,
                   victims, todo, histVars>>

Join ==
    /\ ph[Main] = "join" /\ \A w \in Workers : ph[w] = "exited"
    /\ ph' = [a \in Actors |-> IF a = Main THEN "run"
                               ELSE IF a \in Workers THEN "off" ELSE ph[a]]
    /\ pc' = [pc EXCEPT ![Main] = @ + 1]
    /\ queue' = [w \in Workers |-> <<>>]
    /\ readyCount' = 0
    /\ UNCHANGED <<running, graphLock, graphVars, callee, on, victims, todo, histVars>>

-----------------------------------------------------------------------------
BodyStep(a)   == Schedule(a) \/ Allocate(a) \/ RunInline(a) \/ WaitCheck(a)
HelpStep(a)   == PopLocal(a) \/ Steal(a) \/ FindNothing(a) \/ Park(a) \/ Sleep(a)
EnqueueStep(a) == Push(a) \/ Count(a) \/ Notify(a)
JobStep(j)    == Return(j) \/ Complete(j) \/ Leave(j)
MainStep      == InitPool \/ Shutdown \/ StopRunning \/ StopNotify \/ Join

Step(a) == \/ a \in Bodies /\ BodyStep(a)
           \/ HelpStep(a)
           \/ EnqueueStep(a)
           \/ a \in Jobs /\ JobStep(a)
           \/ a \in Workers /\ LoadRunning(a)
           \/ a = Main /\ MainStep

\* The program is over: Main is at its end, and the pool is down.
Over == /\ ph[Main] = "run" /\ callee[Main] = None /\ pc[Main] > Len(Body[Main])
        /\ \A w \in Workers : ph[w] = "off"

Next == (\E a \in Actors : Step(a)) \/ (Over /\ UNCHANGED vars)

\* Every thread of the operating system is scheduled; nothing else is assumed.
\* The lock is held across steps only by an actor about to sleep, and none
\* sleeps again without a notification, so weak fairness is enough.
Fairness == \A a \in Actors : WF_vars(Step(a))

Spec == Init /\ [][Next]_vars
FairSpec == Spec /\ Fairness

-----------------------------------------------------------------------------
(* Properties *)

TypeOK ==
    /\ running \in BOOLEAN
    /\ graphLock \in Actors \cup {None}
    /\ freeSlots \in SUBSET Slots
    /\ gen \in [Slots -> Nat]
    /\ occupant \in [Slots -> Jobs \cup {None}]
    /\ remaining \in [Slots -> Nat]
    /\ dependents \in [Slots -> SUBSET Slots]
    /\ queue \in [Workers -> Seq(Slots)]
    /\ readyCount \in Int
    /\ ph \in [Actors -> Phases]
    /\ pc \in [Actors -> Nat \ {0}]
    /\ callee \in [Actors -> Jobs \cup {None}]
    /\ on \in [Actors -> Threads \cup {None}]
    /\ victims \in [Actors -> SUBSET Workers]
    /\ todo \in [Actors -> SUBSET Slots]
    /\ handle \in [Jobs -> [slot : Slots \cup {None}, gen : Nat]]
    /\ runs \in [Jobs -> Nat]
    /\ done \in SUBSET Jobs

\* The places of the queues, and those that hold s.
Queued    == UNION {{w} \X DOMAIN queue[w] : w \in Workers}
PlacesOf(s) == {q \in Queued : queue[q[1]][q[2]] = s}
Uncounted == {a \in Actors : ph[a] = "count"}

\* Every slot is in one place: free, or holding a job that waits for others,
\* is about to be queued, is queued once, or is on some stack.  A slot in two
\* places runs its job twice; a slot in none is lost, and so is its job.
SlotsConserved ==
    \A s \in Slots : occupant[s] # None =>
        /\ s \notin freeSlots
        /\ LET j == occupant[s]
               waits  == IF remaining[s] > 0 THEN 1 ELSE 0
               held   == Cardinality({a \in Actors : s \in todo[a]})
               onTop  == IF runs[j] > 0 THEN 1 ELSE 0
           IN waits + held + Cardinality(PlacesOf(s)) + onTop = 1

\* readyCount is the queued slots, less those an enqueue has pushed and not yet
\* counted: what keeps a sleeper's predicate about the queues and not about a
\* number that drifted.
ReadyCounted ==
    readyCount = Cardinality(Queued) - Cardinality(Uncounted)

\* The pool's bookkeeping: each slot in one place, and the count true to the queues.
PoolExact == SlotsConserved /\ ReadyCounted

\* D037: no actor sleeps on a true predicate unless somebody is still on the way
\* to a notify_all.
NoLostWakeup ==
    \A a \in Actors : ph[a] = "asleep" /\ WakePredicate(a) =>
        \E b \in Actors : ph[b] \in {"push", "count", "notify", "leave", "stopNotify"}

\* The shutdown half of D037: once `running` is false, no worker is asleep but
\* for the instant before the main thread notifies.
NoLostShutdown ==
    \A w \in Workers : ph[w] = "asleep" /\ ~running => ph[Main] = "stopNotify"

\* A job's body is entered after the bodies of everything it was scheduled
\* behind have returned ("a dependency runs before its dependent").
DependencyOrder == \A j \in Jobs : runs[j] > 0 => Deps[j] \subseteq done

\* wait(h) returns only when the job h names has run.
WaitMeansDone ==
    \A a \in Bodies : \A i \in 1..(pc[a] - 1) :
        Body[a][i].op = "wait" => Body[a][i].job \in done

\* The handle of a job that is over says so for ever, whatever the slot holds.
HandleTruth == \A j \in Jobs : ph[j] = "dead" => Finished(handle[j])

\* What the pool says of a job, through its handle or by returning from a wait for
\* it, is so.
HandlesTrue == WaitMeansDone /\ HandleTruth

\* shutdown: once every worker has left its loop, all that was scheduled has run.
ShutdownRunsEverything ==
    (\A w \in Workers : ph[w] \in {"exited", "off"}) =>
        \A j \in Jobs : handle[j] # NoHandle => j \in done

\* The pool implements the promise of JobGraph; a job's Await is the first
\* return of a wait for it.
Entered == {j \in Jobs : runs[j] > 0}
Awaited == {j \in Jobs : \E a \in Bodies : \E i \in 1..(pc[a] - 1) :
                Body[a][i] = [op |-> "wait", job |-> j]}
Graph == INSTANCE JobGraph WITH
             submitted <- {j \in Jobs : handle[j] # NoHandle} \cup Entered,
             started <- Entered, finished <- done, awaited <- Awaited
ImplementsJobGraph == Graph!Spec

\* The program reaches its end: every wait returns, every worker wakes up for
\* shutdown, and join returns.
Termination == <>Over
=============================================================================
