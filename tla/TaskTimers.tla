----------------------------- MODULE TaskTimers -----------------------------
(***************************************************************************)
(* The timers of the task library: TaskScheduler::timers as a sequence of  *)
(* the threads parked by task.wait and task.delay.  A deadline is kept as  *)
(* deadlineTick - state.tick, the ticks left to it, and the tick a timer   *)
(* was made in as state.tick - scheduledTick, the ticks since, so that     *)
(* nothing counts for ever: when state.tick is counted up, every timer is  *)
(* a tick older.                                                           *)
(***************************************************************************)
EXTENDS Sublists, SequencesExt

CONSTANT Thread
Timer == [thread : Thread, left : Int, since : Nat, asked : Nat]

\* The whole ticks of a duration: a wait of nothing is a wait of one tick.
TicksFor(duration) == IF duration < 1 THEN 1 ELSE duration

\* Mutant of InsertTimer: in front of those with the same deadline.
InsertFirst(timers, thread, duration) ==
    LET e == [thread |-> thread, left |-> TicksFor(duration), since |-> 0, asked |-> TicksFor(duration)]
        before == Leading(timers, {i \in DOMAIN timers : timers[i].left < e.left})
    IN  Append(before, e) \o After(timers, before)

\* Behind every timer with its deadline or an earlier one: the order is that of
\* (deadline, sequence).
InsertTimer(timers, thread, duration) ==
    LET e == [thread |-> thread, left |-> TicksFor(duration), since |-> 0, asked |-> TicksFor(duration)]
        before == Leading(timers, {i \in DOMAIN timers : timers[i].left <= e.left})
    IN  Append(before, e) \o After(timers, before)

\* What state.tick += 1 makes of them.
Aged(timers) == [i \in DOMAIN timers |-> [timers[i] EXCEPT !.left = @ - 1, !.since = @ + 1]]

\* The loop stops at the first that is not due.
Due(timers)    == Leading(timers, {i \in DOMAIN timers : timers[i].left <= 0})
NotDue(timers) == After(timers, Due(timers))

Threads(timers) == {timers[i].thread : i \in DOMAIN timers}
\* task.cancel of a thread that has a timer.
Cancelled(timers, thread) ==
    LET i == CHOOSE i \in DOMAIN timers :
                 timers[i].thread = thread /\ \A j \in 1..(i - 1) : timers[j].thread # thread
    IN  RemoveAt(timers, i)

=============================================================================
