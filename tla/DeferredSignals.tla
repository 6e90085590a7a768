--------------------------- MODULE DeferredSignals ---------------------------
(***************************************************************************)
(* Deferred signals of engine/script: every fire and every task.defer goes *)
(* to one queue, which a drain works off to the end while the handlers it  *)
(* runs fire, connect, disconnect, destroy and disable.                    *)
(*                                                                         *)
(* Bound on what a script does: one operation per resumption.  A signal of *)
(* an instance is taken to exist once the instance does (a script has      *)
(* asked for it).  Connection handles are not reused (SlotMap); a model    *)
(* value is, when nothing names it any more.                               *)
(***************************************************************************)
EXTENDS Sublists, SequencesExt

CONSTANTS
    Conns, Tasks, Signals,
    Instances,       \* instances that own signals and run scripts
    Nobody,          \* no instance: a script-made signal, a handler that no script owns
    Owner,           \* whose a signal is
    Hooks,           \* the Destroying signals
    Console,         \* DebugService.MessageOut, or Nobody when it has no handler
    ConsoleRaises,   \* whether what MessageOut resumes raises anything itself
    MaxDeferredDepth,
    LateConnect,     \* whether scripts connect to what is closed
    MaxQueued        \* bound: scripts raise between two drains while fewer are queued

Free == [signal |-> Nobody, kind |-> "free", script |-> Nobody]

ASSUME SignalAssumption ==
    /\ Owner \in [Signals -> Instances \cup {Nobody}] /\ Nobody \notin Instances \cup Signals
    /\ Conns \cap Tasks = {} /\ Hooks \subseteq {s \in Signals : Owner[s] # Nobody}
    /\ Console \in {s \in Signals : Owner[s] = Nobody} \cup {Nobody}
    /\ MaxDeferredDepth \in Nat /\ {LateConnect, ConsoleRaises} \subseteq BOOLEAN

VARIABLES
    conn,       \* connections: the signal, the kind, the script of the handler
    listeners,  \* record.connections of a signal
    closed,     \* record.closed
    queue, draining,
    current,    \* the entry being worked off: its targets to come, depth, signal and hook
    running,    \* a handler, a waiter or a task is being resumed
    disabled, destroyed, retired

vars == <<conn, listeners, closed, queue, draining, current, running,
          disabled, destroyed, retired>>
instances == <<disabled, destroyed, retired>>

Idle == [targets |-> <<>>, depth |-> 0, signal |-> Nobody, hook |-> FALSE]

Init ==
    /\ conn = [c \in Conns |-> Free] /\ listeners = [s \in Signals |-> <<>>]
    /\ closed = {} /\ queue = <<>> /\ draining = FALSE
    /\ current = Idle /\ running = FALSE
    /\ disabled = {} /\ destroyed = {} /\ retired = {}

Live == {c \in Conns : conn[c] # Free}
Of(x) == {s \in Signals : Owner[s] = x}

\* Targets that are still to come, of the entry in hand and of those queued.
Targets(e) == CASE e.kind = "fire" -> e.targets
                [] e.kind = "task" -> <<e.task>>
                [] OTHER           -> <<>>
ToCome == current.targets \o Joined([i \in DOMAIN queue |-> Targets(queue[i])])

\* suppressionFor: a stopped script is not resumed; for the Destroying that its
\* destruction raises, and no other fire, a destroyed one is.
Suppressed(x, hook) ==
    x # Nobody /\ (\/ x \in retired
                   \/ x \in destroyed /\ ~hook
                   \/ x \in disabled \ destroyed)

-----------------------------------------------------------------------------
(* The queue *)

\* Mutant of RaisedDepth: what a handler raises is as deep as the handler.
SameDepth(d) == IF draining THEN d ELSE 0

RaisedDepth(d) == IF draining THEN d + 1 ELSE 0

FireEntry(s, depth) ==
    [kind |-> "fire", depth |-> depth, targets |-> listeners[s], signal |-> s, hook |-> FALSE]

\* A message to MessageOut, at the depth of whoever it is about.
Report(q) ==
    IF Console = Nobody \/ Console \in closed THEN q
    ELSE Append(q, FireEntry(Console, current.depth))

\* Nothing is raised on a closed signal; past the cap a message is, in its place.
Enqueue(q, s) ==
    CASE s \in closed -> q
      [] s \notin closed /\ RaisedDepth(current.depth) > MaxDeferredDepth -> Report(q)
      [] OTHER -> Append(q, FireEntry(s, RaisedDepth(current.depth)))

\* The fire of s that is last in the queue, whoever raised it, is the hook.
Marked(q, s) ==
    IF q # <<>> /\ Last(q).kind = "fire" /\ Last(q).signal = s
    THEN [q EXCEPT ![Len(q)].hook = TRUE] ELSE q

\* Destroying of x, if a script has asked for it.
EnqueueDestroying(x) ==
    IF Of(x) \cap Hooks = {} THEN queue
    ELSE LET s == CHOOSE s \in Of(x) \cap Hooks : TRUE IN Marked(Enqueue(queue, s), s)

\* What is disconnected is erased, and taken off its signal's list.
Disconnected(gone) == [c \in Conns |-> IF c \in gone THEN Free ELSE conn[c]]
Unlisted(gone) ==
    [s \in Signals |-> Sublist(listeners[s], {i \in DOMAIN listeners[s] : listeners[s][i] \notin gone})]

-----------------------------------------------------------------------------
(* What a script does: outside a drain, or as the one thing a resumption does *)

Script ==
    /\ running \/ ~draining
    /\ running' = FALSE
    /\ UNCHANGED <<draining, current, retired>>

\* ... and is raised.
Raise == /\ Script
         /\ running \/ Len(queue) < MaxQueued
         /\ running /\ Console # Nobody /\ current.signal = Console => ConsoleRaises

\* Signal:Fire, of any signal, Destroying and MessageOut among them, and the events
\* of an instance.
Fire(s) ==
    /\ Raise /\ Owner[s] \notin retired
    /\ queue' = Enqueue(queue, s)
    /\ UNCHANGED <<conn, listeners, closed, disabled, destroyed>>

Defer(t, x) ==
    /\ Raise /\ t \notin ToSet(ToCome)
    /\ queue' = IF RaisedDepth(current.depth) > MaxDeferredDepth THEN Report(queue)
                ELSE Append(queue, [kind |-> "task", depth |-> RaisedDepth(current.depth),
                                    task |-> t, script |-> x])
    /\ UNCHANGED <<conn, listeners, closed, disabled, destroyed>>

\* print and warn, and the error a handler ends with.
Say ==
    /\ Raise /\ Console # Nobody
    /\ queue' = Report(queue)
    /\ UNCHANGED <<conn, listeners, closed, disabled, destroyed>>

\* A queued task; one that is being resumed, or has been, is not cancelled.
Cancel(t) ==
    /\ Script
    /\ \E i \in DOMAIN queue : /\ queue[i].kind = "task" /\ queue[i].task = t
                               /\ queue' = RemoveAt(queue, i)
    /\ UNCHANGED <<conn, listeners, closed, disabled, destroyed>>

\* Connect, Once and Wait, of a handler of x.  Not refused on a closed signal.
Connect(c, s, kind, x) ==
    /\ Script /\ conn[c] = Free /\ c \notin ToSet(ToCome)
    /\ Owner[s] \notin retired
    /\ ~LateConnect => /\ s \notin closed
                       /\ Owner[s] \in destroyed =>
                            \E i \in DOMAIN queue : queue[i].kind = "close" /\ queue[i].owner = Owner[s]
    /\ conn' = [conn EXCEPT ![c] = [signal |-> s, kind |-> kind, script |-> x]]
    /\ listeners' = [listeners EXCEPT ![s] = Append(@, c)]
    /\ UNCHANGED <<closed, queue, disabled, destroyed>>

Disconnect(c) ==
    /\ Script /\ c \in Live
    /\ conn' = Disconnected({c}) /\ listeners' = Unlisted({c})
    /\ UNCHANGED <<closed, queue, disabled, destroyed>>

\* Signal:Destroy and Signal:DisconnectAll, of a script's own signal.
EndSignal(s, close) ==
    /\ Script /\ Owner[s] = Nobody /\ s # Console
    /\ closed' = IF close THEN closed \cup {s} ELSE closed
    /\ IF close /\ s \in closed THEN UNCHANGED <<conn, listeners>>
       ELSE /\ conn' = Disconnected(ToSet(listeners[s]))
            /\ listeners' = Unlisted(ToSet(listeners[s]))
    /\ UNCHANGED <<queue, disabled, destroyed>>

SetEnabled(x) ==
    /\ Script /\ x \notin retired
    /\ disabled' = IF x \in disabled THEN disabled \ {x} ELSE disabled \cup {x}
    /\ UNCHANGED <<conn, listeners, closed, queue, destroyed>>

\* Mutant of Destroy: the other signals are left to the end of the drain.
DestroyClosesLater(x) ==
    /\ Raise /\ x \notin destroyed \cup retired
    /\ destroyed' = destroyed \cup {x}
    /\ queue' = Append(EnqueueDestroying(x), [kind |-> "close", owner |-> x])
    /\ UNCHANGED <<conn, listeners, closed, disabled>>

\* Destroying is raised, with the close behind it, and then every other signal is
\* closed.
Destroy(x) ==
    /\ Raise /\ x \notin destroyed \cup retired
    /\ destroyed' = destroyed \cup {x}
    /\ queue' = Append(EnqueueDestroying(x), [kind |-> "close", owner |-> x])
    /\ closed' = closed \cup (Of(x) \ Hooks)
    /\ LET gone == UNION {ToSet(listeners[s]) : s \in Of(x) \ (Hooks \cup closed)} IN
       conn' = Disconnected(gone) /\ listeners' = Unlisted(gone)
    /\ UNCHANGED disabled

\* The resumption yields or returns, having done nothing of the above.
Return ==
    /\ running /\ running' = FALSE
    /\ UNCHANGED <<conn, listeners, closed, queue, draining, current, instances>>

-----------------------------------------------------------------------------
(* The drain *)

\* Mutant of StartDrain: what has been destroyed is retired first.
StartDrainRetires ==
    /\ ~draining /\ queue # <<>>
    /\ draining' = TRUE
    /\ retired' = retired \cup destroyed /\ destroyed' = {}
    /\ UNCHANGED <<conn, listeners, closed, queue, current, running, disabled>>

StartDrain ==
    /\ ~draining /\ queue # <<>>
    /\ draining' = TRUE
    /\ UNCHANGED <<conn, listeners, closed, queue, current, running, instances>>

Ready == draining /\ ~running

\* Whoever was captured is asked again.  A waiter is resumed whatever has become of
\* its script; a stopped script's handler is passed over, and stays connected.
ServeTarget ==
    /\ Ready /\ current.targets # <<>>
    /\ current' = [current EXCEPT !.targets = Tail(@)]
    /\ LET c == Head(current.targets) IN
       IF c \in Live /\ (conn[c].kind = "waiter" \/ ~Suppressed(conn[c].script, current.hook))
       THEN /\ running' = TRUE
            /\ LET gone == IF conn[c].kind = "handler" THEN {} ELSE {c} IN
               conn' = Disconnected(gone) /\ listeners' = Unlisted(gone)
       ELSE UNCHANGED <<conn, listeners, running>>
    /\ UNCHANGED <<closed, queue, draining, instances>>

\* Mutant of TakeFire: the connections are looked up when the fire is served.
TakeFireLate ==
    /\ Ready /\ current.targets = <<>> /\ queue # <<>> /\ Head(queue).kind = "fire"
    /\ queue' = Tail(queue)
    /\ current' = [targets |-> IF Head(queue).targets = <<>> THEN <<>>
                               ELSE FlattenSeq(SetToSeq({listeners[s] : s \in Signals})),
                   depth |-> Head(queue).depth, signal |-> Head(queue).signal,
                   hook |-> Head(queue).hook]
    /\ UNCHANGED <<conn, listeners, closed, draining, running, instances>>

TakeFire ==
    /\ Ready /\ current.targets = <<>> /\ queue # <<>> /\ Head(queue).kind = "fire"
    /\ queue' = Tail(queue)
    /\ current' = [targets |-> Head(queue).targets, depth |-> Head(queue).depth,
                   signal |-> Head(queue).signal, hook |-> Head(queue).hook]
    /\ UNCHANGED <<conn, listeners, closed, draining, running, instances>>

\* The task of a stopped script is dropped.
TakeTask ==
    /\ Ready /\ current.targets = <<>> /\ queue # <<>> /\ Head(queue).kind = "task"
    /\ queue' = Tail(queue)
    /\ current' = [Idle EXCEPT !.depth = Head(queue).depth]
    /\ running' = ~Suppressed(Head(queue).script, FALSE)
    /\ UNCHANGED <<conn, listeners, closed, draining, instances>>

\* What the instance has left is closed, and the records are freed: a signal asked
\* for after this is a new one.
TakeClose ==
    /\ Ready /\ current.targets = <<>> /\ queue # <<>> /\ Head(queue).kind = "close"
    /\ queue' = Tail(queue) /\ current' = Idle
    /\ LET own == Of(Head(queue).owner) IN
       /\ conn' = Disconnected(UNION {ToSet(listeners[s]) : s \in own \ closed})
       /\ listeners' = [s \in Signals |-> IF s \in own THEN <<>> ELSE listeners[s]]
       /\ closed' = closed \ own
    /\ UNCHANGED <<draining, running, instances>>

\* To fixpoint; then the destroyed are retired.
EndDrain ==
    /\ Ready /\ current.targets = <<>> /\ queue = <<>>
    /\ draining' = FALSE /\ current' = Idle
    /\ retired' = retired \cup destroyed /\ destroyed' = {}
    /\ UNCHANGED <<conn, listeners, closed, queue, running, disabled>>

Drain == ServeTarget \/ TakeFire \/ TakeTask \/ TakeClose \/ EndDrain

Next ==
    \/ \E s \in Signals : Fire(s) \/ \E close \in BOOLEAN : EndSignal(s, close)
    \/ \E t \in Tasks : Cancel(t) \/ \E x \in Instances \cup {Nobody} : Defer(t, x)
    \/ \E c \in Conns : Disconnect(c) \/
         \E s \in Signals, kind \in {"handler", "once", "waiter"}, x \in Instances \cup {Nobody} :
             Connect(c, s, kind, x)
    \/ \E x \in Instances : SetEnabled(x) \/ Destroy(x)
    \/ Say \/ Return \/ StartDrain \/ Drain

Spec == Init /\ [][Next]_vars

\* The loop goes on as long as there is an entry, and a handler yields or returns;
\* that a drain is begun is the frame's doing and not asked for.
FairSpec == Spec /\ WF_vars(Drain) /\ WF_vars(Return)

-----------------------------------------------------------------------------
(* Properties *)

EntryOK(e) ==
    CASE e.kind = "fire" -> /\ e.targets \in Seq(Conns) /\ e.depth \in 0..MaxDeferredDepth
                            /\ e.signal \in Signals /\ e.hook \in BOOLEAN
      [] e.kind = "task" -> e.task \in Tasks /\ e.depth \in 0..MaxDeferredDepth
      [] OTHER           -> e.kind = "close" /\ e.owner \in Instances

TypeOK ==
    /\ \A c \in Live : /\ conn[c].signal \in Signals
                       /\ conn[c].kind \in {"handler", "once", "waiter"}
                       /\ conn[c].script \in Instances \cup {Nobody}
    /\ listeners \in [Signals -> Seq(Conns)]
    /\ closed \subseteq Signals
    /\ \A i \in DOMAIN queue : EntryOK(queue[i])
    /\ current.targets \in Seq(Conns) /\ current.depth \in 0..MaxDeferredDepth
    /\ draining \in BOOLEAN /\ running \in BOOLEAN /\ current.signal \in Signals \cup {Nobody}
    /\ current.hook \in BOOLEAN
    /\ disabled \subseteq Instances /\ destroyed \subseteq Instances /\ retired \subseteq Instances

\* A connection that says Connected is on its signal's list, once, and nothing else
\* is; what is closed or gone has no connections left.
ConnectedIsListed ==
    /\ \A s \in Signals : /\ IsInjective(listeners[s])
                          /\ \A c \in ToSet(listeners[s]) : c \in Live /\ conn[c].signal = s
    /\ \A c \in Live : /\ c \in ToSet(listeners[conn[c].signal])
                       /\ conn[c].signal \notin closed
                       /\ Owner[conn[c].signal] \notin retired

\* The fire of an instance's Destroying and the close behind it find the handle
\* still resolving: retirement waits for the drain they are in.
RetiredAfterDestroying ==
    /\ \A i \in DOMAIN queue : queue[i].kind = "close" => queue[i].owner \in destroyed
    /\ \A x \in destroyed : x \notin retired

\* The lists of connections and what the queue still refers to are well formed.
ListsExact == TypeOK /\ ConnectedIsListed /\ RetiredAfterDestroying

Resumes(c) == /\ ~running /\ running' /\ current.targets # <<>>
              /\ c = Head(current.targets)

\* "queued fires for them find no live connections and invoke nothing": of a
\* destroyed instance's signals only Destroying still reaches a handler.
DestroyedIsSilent ==
    [][\A c \in Conns : Resumes(c) /\ Owner[conn[c].signal] \in destroyed =>
           conn[c].signal \in Hooks]_vars

\* Connections and tasks of scripts that are disabled, destroyed or retired.
Stopped ==
    LET silent == disabled \cup destroyed \cup retired IN
    {c \in Live : conn[c].script \in silent} \cup
        {t \in Tasks : \E i \in DOMAIN queue : /\ queue[i].kind = "task" /\ queue[i].task = t
                                             /\ queue[i].script \in silent}

\* One queue, one order: the signals implement DeferredOrder.  Whoever is first in
\* line is resumed next unless its script has been stopped, and a drain ends when
\* nobody is in line any more.
Order == INSTANCE DeferredOrder WITH
    listening <- listeners,
    once      <- {c \in Live : conn[c].kind # "handler"},
    pending   <- Only(ToCome, Tasks \cup Live),
    ready     <- Ready,
    stopped   <- Stopped
OneOrder == Order!Spec

\* "This bounds signal loops deterministically": whatever handlers raise, a drain
\* comes to its end.
DrainEnds == draining ~> ~draining
=============================================================================
