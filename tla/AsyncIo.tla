------------------------------- MODULE AsyncIo -------------------------------
(***************************************************************************)
(* The asynchronous file reads of engine/platform: a fixed pool of request *)
(* slots, a submitter thread that opens files outside the lock, SDL's      *)
(* completion queue, and a frame thread that harvests it once a frame.     *)
(*                                                                         *)
(* Everything is guarded by one mutex, so a critical section is one step.  *)
(* What runs outside it is what interleaves: the open, SDL's read, the     *)
(* notification pumpIo owes, its callbacks, and the stages of shutdownIo.  *)
(***************************************************************************)
EXTENDS Sublists

CONSTANTS Requests,      \* the reads the program asks for, each once
          Slots,         \* MaxIoRequests slots
          None,
          Priorities,    \* a subset of 0..3, most urgent first
          MaxInFlight,   \* reads SDL may have open at once
          Carries,       \* the requests that carry a callback
          MaxEmptyWaits, \* empty waits before shutdownIo gives up draining
          Lives          \* how often the program calls initIo

ASSUME IoAssumption ==
    /\ IsFiniteSet(Requests) /\ IsFiniteSet(Slots)
    /\ None \notin Requests \cup Slots
    /\ Priorities \subseteq 0..3 /\ Carries \subseteq Requests
    /\ MaxInFlight \in Nat \ {0} /\ MaxEmptyWaits \in Nat \ {0} /\ Lives \in Nat

VARIABLES
    initialized, stopping,
    request,      \* the Request in each slot
    gen,          \* its generation
    freeSlots,    \* order abstracted
    queued,       \* slots waiting for a place in flight
    inFlight,     \* Service::inFlight
    nextSequence,
    sub, subSlot, subFile,   \* the submitter: where it is, what it is opening
    reading,      \* external: SDL's tasks, each with its slot and its file
    outcomes,     \* external: SDL's completion queue
    frame,        \* where the frame thread is
    completed,    \* pumpIo's local list of callbacks to fire
    outstanding, emptyWaits,   \* shutdownIo's locals
    handle,       \* the IoRequest readFileAsync returned for each request
    life,         \* how often initIo succeeded
    told, over    \* history: callbacks fired for each request; requests given up

serviceVars == <<initialized, stopping, request, gen, freeSlots, queued, inFlight, nextSequence>>
subVars     == <<sub, subSlot, subFile>>
sdlVars     == <<reading, outcomes>>
frameVars   == <<frame, completed, outstanding, emptyWaits>>
historyVars == <<handle, life, told, over>>
vars == <<serviceVars, subVars, sdlVars, frameVars, historyVars>>

NoHandle == [slot |-> None, gen |-> 0]
Blank    == [allocated |-> FALSE, status |-> "Unknown", owner |-> None,
             priority |-> 0, sequence |-> 0, inFlight |-> FALSE,
             abandoned |-> FALSE, callback |-> FALSE, bytes |-> None]

Init ==
    /\ initialized = FALSE /\ stopping = FALSE
    /\ request = [s \in Slots |-> Blank] /\ gen = [s \in Slots |-> 0]
    /\ freeSlots = {} /\ queued = {} /\ inFlight = 0 /\ nextSequence = 1
    /\ sub = "off" /\ subSlot = None /\ subFile = None
    /\ reading = {} /\ outcomes = <<>>
    /\ frame = "idle" /\ completed = <<>> /\ outstanding = 0 /\ emptyWaits = 0
    /\ handle = [r \in Requests |-> NoHandle] /\ life = 0
    /\ told = [r \in Requests |-> 0] /\ over = {}

\* The handle names the request its slot holds now.
Live(h) == h.slot # None /\ gen[h.slot] = h.gen /\ request[h.slot].allocated

\* ioStatus
StatusOf(h) == IF Live(h) THEN request[h.slot].status ELSE "Unknown"

\* notify_one on a variable only the submitter waits on.
WakeSubmitter == sub' = IF sub = "asleep" THEN "idle" ELSE sub

\* Mutant of Release: the generation does not move on.
ReleaseSameGeneration(S) ==
    /\ request' = [s \in Slots |-> IF s \in S THEN Blank ELSE request[s]]
    /\ freeSlots' = freeSlots \cup S
    /\ UNCHANGED gen

\* Mutant of Release: the slot is not given back to the free list.
ReleaseUnqueued(S) ==
    /\ request' = [s \in Slots |-> IF s \in S THEN Blank ELSE request[s]]
    /\ gen' = [s \in Slots |-> IF s \in S THEN gen[s] + 1 ELSE gen[s]]
    /\ UNCHANGED freeSlots

\* releaseSlotLocked for each slot of S, and what else happens to the others.
Release(S) ==
    /\ request' = [s \in Slots |-> IF s \in S THEN Blank ELSE request[s]]
    /\ gen' = [s \in Slots |-> IF s \in S THEN gen[s] + 1 ELSE gen[s]]
    /\ freeSlots' = freeSlots \cup S

\* The program calls in from the frame thread, from a callback of pumpIo too.
InProgram == frame \in {"idle", "called"}

-----------------------------------------------------------------------------
(* The caller's side *)

InitIo ==
    /\ frame = "idle" /\ ~initialized /\ life < Lives
    /\ initialized' = TRUE /\ stopping' = FALSE
    /\ request' = [s \in Slots |-> [request[s] EXCEPT !.allocated = FALSE, !.status = "Unknown"]]
    /\ gen' = [s \in Slots |-> 1]
    /\ freeSlots' = Slots /\ queued' = {} /\ inFlight' = 0 /\ nextSequence' = 1
    /\ sub' = "idle" /\ life' = life + 1
    /\ UNCHANGED <<subSlot, subFile, sdlVars, frameVars, handle, told, over>>

ReadFileAsync(r, p) ==
    /\ InProgram /\ handle[r] = NoHandle /\ r \notin over
    /\ initialized
    /\ \E s \in freeSlots :
         /\ freeSlots' = freeSlots \ {s}
         /\ request' = [request EXCEPT ![s] =
                [Blank EXCEPT !.allocated = TRUE, !.status = "Pending", !.owner = r,
                              !.priority = p, !.sequence = nextSequence,
                              !.callback = (r \in Carries)]]
         /\ queued' = queued \cup {s}
         /\ handle' = [handle EXCEPT ![r] = [slot |-> s, gen |-> gen[s]]]
    /\ nextSequence' = nextSequence + 1
    /\ WakeSubmitter
    /\ UNCHANGED <<initialized, stopping, gen, inFlight, subSlot, subFile, sdlVars, frameVars,
                   life, told, over>>

\* An invalid request: the service is down, or every slot is taken.  The caller
\* reads the file itself.
ReadRefused(r) ==
    /\ InProgram /\ handle[r] = NoHandle /\ r \notin over
    /\ ~initialized \/ freeSlots = {}
    /\ over' = over \cup {r}
    /\ UNCHANGED <<serviceVars, subVars, sdlVars, frameVars, handle, life, told>>

TakeIoResult(r) ==
    /\ InProgram /\ StatusOf(handle[r]) = "Ready"
    /\ Release({handle[r].slot})
    /\ over' = over \cup {r}
    /\ UNCHANGED <<initialized, stopping, queued, inFlight, nextSequence, subVars,
                   sdlVars, frameVars, handle, life, told>>

CancelIo(r) ==
    /\ InProgram /\ Live(handle[r])
    /\ LET s == handle[r].slot IN
       IF request[s].inFlight
       THEN /\ request' = [request EXCEPT ![s].abandoned = TRUE, ![s].callback = FALSE]
            /\ UNCHANGED <<gen, freeSlots, queued>>
       ELSE queued' = queued \ {s} /\ Release({s})
    /\ over' = over \cup {r}
    /\ UNCHANGED <<initialized, stopping, inFlight, nextSequence, subVars, sdlVars,
                   frameVars, handle, life, told>>

SetIoPriority(r, p) ==
    /\ InProgram /\ Live(handle[r]) /\ ~request[handle[r].slot].inFlight
    /\ request' = [request EXCEPT ![handle[r].slot].priority = p]
    /\ UNCHANGED <<initialized, stopping, gen, freeSlots, queued, inFlight, nextSequence,
                   subVars, sdlVars, frameVars, historyVars>>

-----------------------------------------------------------------------------
(* The submitter thread *)

CanPick == inFlight < MaxInFlight /\ queued # {}

\* wake.wait: the predicate and the registration are under the lock.
SubmitSleep ==
    /\ sub = "idle" /\ ~stopping /\ ~CanPick
    /\ sub' = "asleep"
    /\ UNCHANGED <<serviceVars, subSlot, subFile, sdlVars, frameVars, historyVars>>

SubmitStop ==
    /\ sub = "idle" /\ stopping
    /\ sub' = "exited"
    /\ UNCHANGED <<serviceVars, subSlot, subFile, sdlVars, frameVars, historyVars>>

\* Most urgent first, and first come first served inside a band.
MoreUrgent(s, t) ==
    \/ request[s].priority < request[t].priority
    \/ request[s].priority = request[t].priority /\ request[s].sequence < request[t].sequence

\* pickLocked
Pick(s) ==
    /\ s \in queued /\ \A t \in queued \ {s} : MoreUrgent(s, t)
    /\ queued' = queued \ {s}
    /\ request' = [request EXCEPT ![s].inFlight = TRUE]
    /\ inFlight' = inFlight + 1

SubmitPick ==
    /\ sub = "idle" /\ ~stopping /\ CanPick
    /\ \E s \in queued : Pick(s) /\ subSlot' = s /\ subFile' = request[s].owner
    /\ sub' = "opening"
    /\ UNCHANGED <<initialized, stopping, gen, freeSlots, nextSequence, sdlVars,
                   frameVars, historyVars>>

\* SDL_LoadFileAsync returned true: from here SDL owns the read.
OpenIssued ==
    /\ sub = "opening"
    /\ reading' = reading \cup {[slot |-> subSlot, file |-> subFile]}
    /\ sub' = "idle" /\ subSlot' = None /\ subFile' = None
    /\ UNCHANGED <<serviceVars, outcomes, frameVars, historyVars>>

\* Mutant of OpenFailed: the place in flight is not given back.
OpenFailedKeepsPlace ==
    /\ sub = "opening"
    /\ request' = [request EXCEPT ![subSlot].inFlight = FALSE, ![subSlot].status = "Failed"]
    /\ sub' = "idle" /\ subSlot' = None /\ subFile' = None
    /\ UNCHANGED <<initialized, stopping, gen, freeSlots, queued, inFlight, nextSequence,
                   sdlVars, frameVars, historyVars>>

\* It returned false: no task, and the optimistic count comes off again.
OpenFailed ==
    /\ sub = "opening"
    /\ request' = [request EXCEPT ![subSlot].inFlight = FALSE, ![subSlot].status = "Failed"]
    /\ inFlight' = IF inFlight > 0 THEN inFlight - 1 ELSE 0
    /\ sub' = "idle" /\ subSlot' = None /\ subFile' = None
    /\ UNCHANGED <<initialized, stopping, gen, freeSlots, queued, nextSequence, sdlVars,
                   frameVars, historyVars>>

\* External: SDL finishes a read, well or badly.
ReadDone(t, ok) ==
    /\ t \in reading
    /\ reading' = reading \ {t}
    /\ outcomes' = Append(outcomes, [slot |-> t.slot, file |-> t.file, ok |-> ok])
    /\ UNCHANGED <<serviceVars, subVars, frameVars, historyVars>>

-----------------------------------------------------------------------------
(* pumpIo, on the frame thread *)

\* The outcome of a request cancelled in flight: nobody is told.
Silent(o) == request[o.slot].abandoned

\* The outcome is delivered by a callback, and the slot is released at once.
ByCallback(o) == ~Silent(o) /\ request[o.slot].callback

Settled(q, o) == [q EXCEPT !.inFlight = FALSE,
                           !.status = IF o.ok THEN "Ready" ELSE "Failed",
                           !.bytes = IF o.ok THEN o.file ELSE None]

\* Everything SDL has finished is collected under the lock.  A slot has one
\* outcome at a time (OneTaskPerSlot), so their order only orders the callbacks.
PumpIo ==
    /\ frame = "idle" /\ initialized
    /\ LET landed == {outcomes[i] : i \in DOMAIN outcomes}
           freed  == {o.slot : o \in {l \in landed : Silent(l) \/ ByCallback(l)}}
           called == Sublist(outcomes, {i \in DOMAIN outcomes : ByCallback(outcomes[i])}) IN
       /\ request' = [s \in Slots |->
              IF s \in freed THEN Blank
              ELSE IF \E o \in landed : o.slot = s
                   THEN Settled(request[s], CHOOSE o \in landed : o.slot = s)
                   ELSE request[s]]
       /\ gen' = [s \in Slots |-> IF s \in freed THEN gen[s] + 1 ELSE gen[s]]
       /\ freeSlots' = freeSlots \cup freed
       /\ inFlight' = IF inFlight > Len(outcomes) THEN inFlight - Len(outcomes) ELSE 0
       /\ outcomes' = <<>>
       /\ completed' = [i \in DOMAIN called |->
              [owner |-> request[called[i].slot].owner, file |-> called[i].file,
               ok |-> called[i].ok]]
    /\ frame' = IF queued # {} THEN "wake" ELSE IF completed' # <<>> THEN "fire" ELSE "idle"
    /\ UNCHANGED <<initialized, stopping, queued, nextSequence, subVars, reading,
                   outstanding, emptyWaits, historyVars>>

\* The notification for the freed places, after the lock.
PumpWake ==
    /\ frame = "wake"
    /\ WakeSubmitter
    /\ frame' = IF completed # <<>> THEN "fire" ELSE "idle"
    /\ UNCHANGED <<serviceVars, subSlot, subFile, sdlVars, completed, outstanding, emptyWaits, historyVars>>

\* A callback is entered, outside the lock ...
FireCallback ==
    /\ frame = "fire"
    /\ told' = [told EXCEPT ![Head(completed).owner] = @ + 1]
    /\ completed' = Tail(completed)
    /\ frame' = "called"
    /\ UNCHANGED <<serviceVars, subVars, sdlVars, outstanding, emptyWaits, handle, life, over>>

\* ... calls the service as it likes, and returns.
CallbackReturns ==
    /\ frame = "called"
    /\ frame' = IF completed = <<>> THEN "idle" ELSE "fire"
    /\ UNCHANGED <<serviceVars, subVars, sdlVars, completed, outstanding, emptyWaits, historyVars>>

-----------------------------------------------------------------------------
(* shutdownIo, on the frame thread *)

\* What is still queued is dropped, and the submitter is told to stop.
ShutdownIo ==
    /\ frame = "idle" /\ initialized
    /\ Release(queued) /\ queued' = {}
    /\ stopping' = TRUE
    /\ over' = over \cup {request[s].owner : s \in queued}
    /\ frame' = "stop"
    /\ UNCHANGED <<initialized, inFlight, nextSequence, subVars, sdlVars, completed,
                   outstanding, emptyWaits, handle, life, told>>

\* Mutant of ShutdownWake: the submitter is not notified.
ShutdownNoWake ==
    /\ frame = "stop"
    /\ frame' = "join"
    /\ UNCHANGED <<serviceVars, subVars, sdlVars, completed, outstanding, emptyWaits, historyVars>>

ShutdownWake ==
    /\ frame = "stop"
    /\ WakeSubmitter
    /\ frame' = "join"
    /\ UNCHANGED <<serviceVars, subSlot, subFile, sdlVars, completed, outstanding, emptyWaits, historyVars>>

\* Mutant of ShutdownJoin: what is in flight is read before the submitter is gone.
DrainBeforeJoin ==
    /\ frame = "join"
    /\ sub' = IF sub = "exited" THEN "off" ELSE sub
    /\ outstanding' = inFlight /\ emptyWaits' = 0
    /\ frame' = "drain"
    /\ UNCHANGED <<serviceVars, subSlot, subFile, sdlVars, completed, historyVars>>

\* The submitter has exited, and only now is what is in flight read.
ShutdownJoin ==
    /\ frame = "join" /\ sub = "exited"
    /\ sub' = "off"
    /\ outstanding' = inFlight /\ emptyWaits' = 0
    /\ frame' = "drain"
    /\ UNCHANGED <<serviceVars, subSlot, subFile, sdlVars, completed, historyVars>>

Draining == frame = "drain" /\ outstanding > 0 /\ emptyWaits < MaxEmptyWaits

\* SDL_WaitAsyncIOResult hands over an outcome ...
DrainCollect ==
    /\ Draining /\ outcomes # <<>>
    /\ outcomes' = Tail(outcomes)
    /\ outstanding' = outstanding - 1 /\ emptyWaits' = 0
    /\ UNCHANGED <<serviceVars, subVars, reading, frame, completed, historyVars>>

\* ... or returns false: a second went by, or it woke for nothing.
DrainEmpty ==
    /\ Draining
    /\ emptyWaits' = emptyWaits + 1
    /\ UNCHANGED <<serviceVars, subVars, sdlVars, frame, completed, outstanding, historyVars>>

\* The drain is over, every slot is released and the queue destroyed.
ShutdownDone ==
    /\ frame = "drain" /\ ~Draining
    /\ Release({s \in Slots : request[s].allocated})
    /\ over' = over \cup {request[s].owner : s \in {t \in Slots : request[t].allocated}}
    /\ inFlight' = 0 /\ initialized' = FALSE
    /\ reading' = {} /\ outcomes' = <<>>
    /\ frame' = "idle"
    /\ UNCHANGED <<stopping, queued, nextSequence, subVars, completed, outstanding,
                   emptyWaits, handle, life, told>>

-----------------------------------------------------------------------------
Call == \/ InitIo \/ ShutdownIo
        \/ \E r \in Requests :
              \/ ReadRefused(r) \/ TakeIoResult(r) \/ CancelIo(r)
              \/ \E p \in Priorities : ReadFileAsync(r, p) \/ SetIoPriority(r, p)

Submitter == SubmitSleep \/ SubmitStop \/ SubmitPick \/ OpenIssued \/ OpenFailed
Sdl       == \E t \in reading, ok \in BOOLEAN : ReadDone(t, ok)
Frame     == PumpIo \/ PumpWake \/ FireCallback \/ CallbackReturns
Stop      == ShutdownWake \/ ShutdownJoin \/ DrainCollect \/ DrainEmpty \/ ShutdownDone

\* A program that makes no more calls.
Rest == frame = "idle" /\ UNCHANGED vars

Next == Call \/ Submitter \/ Sdl \/ Frame \/ Stop \/ Rest

\* The two threads are scheduled, SDL finishes what it was given, and the frame
\* loop pumps once a frame; what the program calls is its own affair.
Fairness == WF_vars(Submitter) /\ WF_vars(Sdl) /\ WF_vars(Frame) /\ WF_vars(Stop)

Spec == Init /\ [][Next]_vars
FairSpec == Spec /\ Fairness

-----------------------------------------------------------------------------
(* Properties *)

Handles  == [slot : Slots \cup {None}, gen : Nat]
Statuses == {"Unknown", "Pending", "Ready", "Failed"}
RequestType == [allocated : BOOLEAN, status : Statuses, owner : Requests \cup {None},
                priority : 0..3, sequence : Nat, inFlight : BOOLEAN,
                abandoned : BOOLEAN, callback : BOOLEAN, bytes : Requests \cup {None}]

TypeOK ==
    /\ initialized \in BOOLEAN /\ stopping \in BOOLEAN
    /\ request \in [Slots -> RequestType] /\ gen \in [Slots -> Nat]
    /\ freeSlots \subseteq Slots /\ queued \subseteq Slots
    /\ inFlight \in Nat /\ nextSequence \in Nat
    /\ sub \in {"off", "idle", "asleep", "opening", "exited"}
    /\ subSlot \in Slots \cup {None} /\ subFile \in Requests \cup {None}
    /\ reading \subseteq [slot : Slots, file : Requests]
    /\ outcomes \in Seq([slot : Slots, file : Requests, ok : BOOLEAN])
    /\ frame \in {"idle", "wake", "fire", "called", "stop", "join", "drain"}
    /\ completed \in Seq([owner : Requests, file : Requests, ok : BOOLEAN])
    /\ outstanding \in Nat /\ emptyWaits \in 0..MaxEmptyWaits
    /\ handle \in [Requests -> Handles] /\ life \in Nat
    /\ told \in [Requests -> Nat] /\ over \subseteq Requests

Flying == {s \in Slots : request[s].inFlight}
Held   == Cardinality(reading) + Len(outcomes)     \* what SDL has

\* The budget is what SDL really has, and what is about to be handed to it: a
\* leaked place would end with nothing issued at all, a lost one would admit
\* more reads than MaxInFlight.
InFlightHonest ==
    initialized /\ frame # "drain" =>
        /\ inFlight = Held + (IF sub = "opening" THEN 1 ELSE 0)
        /\ inFlight = Cardinality(Flying)
        /\ inFlight <= MaxInFlight

\* shutdownIo waits for as many outcomes as SDL still holds: one fewer leaks a
\* buffer, one more waits for a read nobody made.
DrainCounts == frame = "drain" => sub = "off" /\ outstanding = Held

\* What the service counts is what SDL holds, while it runs and while it drains.
BudgetExact == InFlightHonest /\ DrainCounts

\* A read in SDL's hands belongs to the request that is in its slot, and what a
\* request or a callback is given is the file it asked for.
NoMisdelivery ==
    /\ \A t \in reading \cup {outcomes[i] : i \in DOMAIN outcomes} :
         request[t.slot].inFlight /\ request[t.slot].owner = t.file
    /\ \A s \in Slots : request[s].bytes \in {None, request[s].owner}
    /\ \A i \in DOMAIN completed : completed[i].owner = completed[i].file

\* Every slot is free or held, and a pending request is on its way: queued, being
\* opened, or in SDL's hands.
SlotsAccounted ==
    \A s \in Slots :
        /\ s \in freeSlots => ~request[s].allocated /\ s \notin queued
        /\ initialized => (s \in freeSlots \/ request[s].allocated)
        /\ request[s].status = "Pending" => s \in queued \/ request[s].inFlight

\* The table of requests is well formed, and no slot of it is lost.
SlotsExact == TypeOK /\ SlotsAccounted

\* A request is answered once, and one that was cancelled while it was queued or
\* in flight is not answered at all.
ToldOnce == \A r \in Requests : told[r] <= 1 /\ (told[r] = 1 => r \notin over)

\* A stale handle never names somebody else's request.
HandleNamesOwn ==
    \A r \in Requests : Live(handle[r]) => request[handle[r].slot].owner = r

\* Every request gets its own file, by its own handle, once at most.
DeliveredRight == NoMisdelivery /\ ToldOnce /\ HandleNamesOwn

\* A read that was accepted is finished, unless it is dropped.
Answered == \A r \in Requests :
    StatusOf(handle[r]) = "Pending" ~> StatusOf(handle[r]) # "Pending"

\* A callback is fired once for every request that carries one and was neither
\* cancelled nor refused.
CallbackFires == \A r \in Carries : handle[r] # NoHandle ~> told[r] = 1 \/ r \in over

\* shutdownIo returns: it is not blocked in the join or in the drain.
ShutdownReturns == frame = "stop" ~> frame = "idle"
=============================================================================
