---------------------------- MODULE RemoteCalls ----------------------------
(***************************************************************************)
(* RemoteEvents and RemoteFunctions between an authority's scripts and     *)
(* those of one replica: questions asked with InvokeServerAsync, handlers  *)
(* that answer at once or park on a timer first, messages fired to the     *)
(* client, and the sessions that carry them over a reliable, ordered       *)
(* connection which may break and be dialled again.                        *)
(*                                                                         *)
(* A thread that handles a question is named by the question's number.     *)
(* What a message carries is left out, and a fired message is known by its *)
(* number.  Which instances are in the replica's interest is an input.     *)
(* The authority hears that a connection broke before it hears of the next *)
(* one; ReplicationSession has the other order.                            *)
(***************************************************************************)
EXTENDS TaskTimers

CONSTANTS Call,        \* the numbers of the questions that may be asked, from 1
          Event,       \* RemoteEvents
          Fn,          \* the RemoteFunction
          Delayed,     \* a thread of task.delay
          Waits,       \* durations scripts wait for
          MaxHeld,     \* MaxRemoteHeldSends
          MaxPerPoll,  \* MaxRemoteMessagesPerTick
          MaxFired, MaxConns, MaxChanges  \* bounds: messages fired, connections, and
                       \* breaks, second waits and changes of the scripts and their world

ASSUME RemoteAssumption ==
    /\ IsFiniteSet(Call) /\ Call = 1..Cardinality(Call) /\ Thread = Call \cup {Delayed} /\ Delayed \notin Call
    /\ Fn \notin Event /\ IsFiniteSet(Event) /\ Waits \subseteq Nat
    /\ MaxHeld \in Nat /\ MaxPerPoll \in Nat \ {0}
    /\ MaxFired \in Nat /\ MaxConns \in Nat \ {0} /\ MaxChanges \in Nat

Remote == Event \cup {Fn}

VARIABLES
    born, alive, ids,     \* remotes there have been; those that exist; those with a
                          \* network id (m_netIds)
    near,                 \* those the replica should have
    phase,                \* where the authority is in its tick
    inbox, outbox,        \* its remoteInbox and remoteOutbox
    handled,              \* whether OnServerInvoke is assigned
    enabled,              \* whether the script whose threads these are is
    running, ended,       \* invokeRunning; those of its threads that have finished
    timers, due,          \* its timers, and those resumeDueTimers has collected
    peer,                 \* the replica's Peer
    rep,                  \* the replica: its session, and its scripts
    up, toRep, toAuth,    \* the connection, and the Control channel's two ways
    fired, heard,         \* history: messages fired; those the replica's scripts heard
    changes,
    excused               \* history: questions something happened to

scripts == <<born, alive, near, handled, enabled, timers, outbox, fired, changes>>
tick    == <<phase, inbox, running, ended, due>>
network == <<up, toRep, toAuth>>
vars == <<scripts, tick, ids, peer, rep, network, heard, excused>>

Nobody == [welcomed |-> FALSE, player |-> 0, known |-> {}, held |-> <<>>]

Init ==
    /\ born \in SUBSET Remote /\ alive = born /\ ids = {} /\ near = Remote
    /\ phase = "idle" /\ inbox = <<>> /\ outbox = <<>> /\ handled = TRUE /\ enabled = TRUE
    /\ running = <<>> /\ ended = {} /\ timers = <<>> /\ due = <<>>
    /\ peer = Nobody
    /\ rep = [conn |-> 0, life |-> 0, welcomed |-> FALSE, lost |-> TRUE, locals |-> {},
              inbox |-> <<>>, outbox |-> <<>>, next |-> 1, waiters |-> {}]
    /\ up = FALSE /\ toRep = <<>> /\ toAuth = <<>>
    /\ fired = 0 /\ heard = <<>> /\ changes = 0 /\ excused = {}

Gone == [kind |-> "Gone"]
Changing == changes < MaxChanges /\ changes' = changes + 1

-----------------------------------------------------------------------------
(* The connection.                                                         *)

Dial ==
    /\ rep.lost /\ ~up /\ rep.conn < MaxConns
    /\ up' = TRUE /\ toAuth' = Append(toAuth, [kind |-> "Hello", conn |-> rep.conn + 1])
    /\ rep' = [rep EXCEPT !.conn = @ + 1, !.lost = FALSE]
    /\ UNCHANGED <<scripts, tick, ids, peer, toRep, heard, excused>>

\* Whoever waits for an answer is still parked when the session ends.
Break ==
    /\ up /\ Changing
    /\ up' = FALSE /\ toRep' = <<Gone>> /\ toAuth' = <<Gone>>
    /\ excused' = excused \cup rep.waiters
    /\ UNCHANGED <<born, alive, near, handled, enabled, timers, outbox, fired, tick, ids, peer, rep, heard>>

-----------------------------------------------------------------------------
(* AuthoritySession::receive: the first k of what arrived.                 *)

Polled(k) == SubSeq(toAuth, 1, k)
Kind(msgs, kind) == {i \in DOMAIN msgs : msgs[i].kind = kind}
\* Of the questions of one poll, so many are taken, and the rest are dropped.
Questions(k) ==
    LET asked == Sublist(Polled(k), Kind(Polled(k), "Question"))
    IN  SubSeq(asked, 1, IF Len(asked) < MaxPerPoll THEN Len(asked) ELSE MaxPerPoll)
CallsOf(msgs) == {msgs[i].call : i \in Kind(msgs, "Question")}

AuthorityReceive(k) ==
    LET hello == Kind(Polled(k), "Hello")
        who   == IF hello # {} THEN toAuth[Place(hello, 1)].conn ELSE peer.player
        taken == IF Fn \in ids \cap alive THEN Questions(k) ELSE <<>>
    IN  /\ phase = "idle" /\ k > 0
        /\ toAuth' = SubSeq(toAuth, k + 1, Len(toAuth))
        /\ peer' = IF hello # {} THEN [Nobody EXCEPT !.welcomed = TRUE, !.player = who]
                   ELSE IF Kind(Polled(k), "Gone") # {} THEN Nobody ELSE peer
        /\ toRep' = IF hello # {} /\ up THEN Append(toRep, [kind |-> "Welcome"]) ELSE toRep
        /\ inbox' = inbox \o [i \in DOMAIN taken |-> [call |-> taken[i].call, player |-> who]]
        /\ excused' = excused \cup (CallsOf(Polled(k)) \ CallsOf(taken))
        /\ UNCHANGED <<scripts, phase, running, ended, due, ids, rep, up, heard>>

-----------------------------------------------------------------------------
(* The authority's tick.                                                   *)

\* sendAnswer: to a player who is still here.
Here(player) == peer.welcomed /\ peer.player = player
Answers(done) ==
    LET to == Sublist(done, {i \in DOMAIN done : Here(done[i].player)})
    IN  [i \in DOMAIN to |-> [remote |-> Fn, call |-> to[i].call, n |-> 0, waited |-> 0]]

\* state.tick is counted up first, and fireRemoteMessages begins with the handlers
\* that have finished.
Finished == {i \in DOMAIN running : running[i].call \in ended}
TickStarts ==
    /\ phase = "idle" /\ phase' = "inbox"
    /\ timers' = Aged(timers)
    /\ outbox' = outbox \o Answers(Sublist(running, Finished))
    /\ running' = Sublist(running, DOMAIN running \ Finished)
    /\ ended' = {}
    /\ UNCHANGED <<born, alive, near, handled, enabled, fired, changes, inbox, due, ids, peer,
                   rep, network, heard, excused>>

\* startInvoke: a question to what is gone is dropped; with no handler the answer
\* is an error; a handler answers (or fails) now, or parks on a timer.
Handle(wait) ==
    LET q == Head(inbox) IN
    /\ phase = "inbox" /\ inbox # <<>> /\ inbox' = Tail(inbox)
    /\ \/ Fn \notin alive
          /\ UNCHANGED <<outbox, running, timers>>
       \/ Fn \in alive /\ (wait = 0 \/ ~handled)
          /\ outbox' = outbox \o Answers(<<q>>) /\ UNCHANGED <<running, timers>>
       \/ Fn \in alive /\ handled /\ wait > 0
          /\ running' = Append(running, q)
          /\ timers' = InsertTimer(timers, q.call, wait) /\ UNCHANGED outbox
    /\ UNCHANGED <<born, alive, near, handled, enabled, fired, changes, phase, ended, due, ids, peer,
                   rep, network, heard, excused>>

\* resumeDueTimers collects what is due by this tick; a wait that a handler of this
\* tick began is not, however short ...
TimersDue ==
    /\ phase = "inbox" /\ inbox = <<>> /\ phase' = "resume"
    /\ due' = Due(timers) /\ timers' = NotDue(timers)
    /\ UNCHANGED <<born, alive, near, handled, enabled, outbox, fired, changes, inbox, running, ended,
                   ids, peer, rep, network, heard, excused>>

\* ... and resumes it one by one: a thread finishes, or waits once more; a timer of a
\* disabled script is dropped.
ResumeTimer ==
    LET thread == Head(due).thread IN
    /\ phase = "resume" /\ due # <<>> /\ due' = Tail(due)
    /\ \/ enabled /\ ended' = ended \cup ({thread} \cap Call)
          /\ UNCHANGED <<timers, changes, excused>>
       \/ enabled /\ Changing /\ \E wait \in Waits : timers' = InsertTimer(timers, thread, wait)
          /\ UNCHANGED <<ended, excused>>
       \/ ~enabled /\ excused' = excused \cup ({thread} \cap Call)
          /\ UNCHANGED <<timers, changes, ended>>
    /\ UNCHANGED <<born, alive, near, handled, enabled, outbox, fired, phase, inbox, running, ids, peer,
                   rep, network, heard>>

\* What the scripts of a tick may do between two resumptions, or in a handler.
Scripting == phase \in {"inbox", "resume"}
BesideScript(v) == UNCHANGED <<tick, ids, peer, rep, network, heard>> /\ UNCHANGED v

\* FireClient and FireAllClients.
FireClient(e) ==
    /\ Scripting /\ e \in alive /\ peer.welcomed /\ fired < MaxFired
    /\ fired' = fired + 1
    /\ outbox' = Append(outbox, [remote |-> e, call |-> 0, n |-> fired + 1, waited |-> 0])
    /\ BesideScript(<<born, alive, near, handled, enabled, timers, changes, excused>>)

Delay(wait) ==
    /\ Scripting /\ Changing /\ Delayed \notin Threads(timers) \cup Threads(due)
    /\ timers' = InsertTimer(timers, Delayed, wait)
    /\ BesideScript(<<born, alive, near, handled, enabled, outbox, fired, excused>>)

\* task.cancel of a thread that has been collected raises, and is no step.
Cancel(thread) ==
    /\ Scripting /\ Changing /\ thread \in Threads(timers)
    /\ timers' = Cancelled(timers, thread)
    /\ excused' = excused \cup ({thread} \cap Call)
    /\ BesideScript(<<born, alive, near, handled, enabled, outbox, fired>>)

Create(r) ==
    /\ Scripting /\ Changing /\ r \in Remote \ born
    /\ born' = born \cup {r} /\ alive' = alive \cup {r}
    /\ BesideScript(<<near, handled, enabled, timers, outbox, fired, excused>>)
Destroy(r) ==
    /\ Scripting /\ Changing /\ r \in alive /\ alive' = alive \ {r}
    /\ excused' = IF r = Fn THEN excused \cup rep.waiters ELSE excused
    /\ BesideScript(<<born, near, handled, enabled, timers, outbox, fired>>)

SetHandler == /\ Scripting /\ Changing /\ handled' = ~handled
              /\ BesideScript(<<born, alive, near, enabled, timers, outbox, fired, excused>>)
SetEnabled == /\ Scripting /\ Changing /\ enabled' = ~enabled
              /\ BesideScript(<<born, alive, near, handled, timers, outbox, fired, excused>>)
Move(r)    == /\ Scripting /\ Changing /\ near' = (near \cup {r}) \ (near \cap {r})
              /\ BesideScript(<<born, alive, handled, enabled, timers, outbox, fired, excused>>)

-----------------------------------------------------------------------------
(* The end of the tick: send, which captures and tells the peer what enters *)
(* and leaves (when a snapshot is due), then sendMessages.                  *)

ListOf(kind, S) == IF S = {} THEN <<>> ELSE <<[kind |-> kind, ids |-> S]>>
OnWire(msg) == [kind |-> IF msg.call = 0 THEN "Fired" ELSE "Answer",
                remote |-> msg.remote, call |-> msg.call, n |-> msg.n]
Wired(msgs) == [i \in DOMAIN msgs |-> OnWire(msgs[i])]

Known(msgs, known) == {i \in DOMAIN msgs : msgs[i].remote \in known}

\* flush: what was waiting goes first, as far as the events are known or the wait
\* has been too long; the one it stops at has waited once more.
Flushed(held, known) ==
    Leading(held, Known(held, known) \cup {i \in DOMAIN held : held[i].waited >= MaxHeld})

\* Mutant of Rest: the one it stops at is taken off.
RestPopped(held, known) ==
    LET rest == After(held, Flushed(held, known)) IN IF rest = <<>> THEN rest ELSE Tail(rest)

\* Mutant of Rest: it may wait for ever.
RestUncounted(held, known) == After(held, Flushed(held, known))
Rest(held, known) ==
    LET rest == After(held, Flushed(held, known))
    IN  IF rest = <<>> THEN rest ELSE [rest EXCEPT ![1].waited = @ + 1]

\* Mutant of Sendable: it may go though others wait.
SendableAlways(rest, named, known) == Leading(named, Known(named, known))

\* New messages go if nothing waits before them and their event is known.
Sendable(rest, named, known) ==
    IF rest = <<>> THEN Leading(named, Known(named, known)) ELSE <<>>

TickEnds(capture) ==
    LET numbered == IF capture THEN alive ELSE ids
        known    == IF capture /\ peer.welcomed THEN alive \cap near ELSE peer.known
        entering == ListOf("Spawn", known \ peer.known)
        leaving  == ListOf("Despawn", peer.known \ known)
        flushed  == Flushed(peer.held, known)
        rest     == Rest(peer.held, known)
        new      == Sublist(outbox, Known(outbox, numbered))
        named    == [i \in DOMAIN new |-> [new[i] EXCEPT !.waited = 0]]
        at_once  == Sendable(rest, named, known)
        again    == Sublist(outbox, {i \in Known(outbox, alive \ numbered) : outbox[i].waited < MaxHeld})
        sent     == leaving \o entering
                    \o Wired(Sublist(flushed, Known(flushed, known))) \o Wired(at_once)
        dropped  == {flushed[i].call : i \in DOMAIN flushed \ Known(flushed, known)}
    IN  /\ phase = "resume" /\ due = <<>> /\ phase' = "idle"
        /\ ids' = numbered
        /\ outbox' = [i \in DOMAIN again |-> [again[i] EXCEPT !.waited = @ + 1]]
        /\ peer' = IF peer.welcomed
                   THEN [peer EXCEPT !.known = known, !.held = rest \o After(named, at_once)] ELSE peer
        /\ toRep' = IF up /\ Here(rep.conn) THEN toRep \o sent ELSE toRep
        /\ excused' = IF peer.welcomed THEN excused \cup (dropped \cap Call) ELSE excused
        /\ UNCHANGED <<born, alive, near, handled, enabled, timers, fired, changes, inbox, running, ended,
                       due, rep, up, toAuth, heard>>

-----------------------------------------------------------------------------
(* The replica.                                                            *)

\* ReplicaSession::receive: one message.
Received(msg) ==
    CASE msg.kind = "Gone"    -> [rep EXCEPT !.lost = TRUE, !.welcomed = FALSE]
      [] msg.kind = "Welcome" -> [rep EXCEPT !.welcomed = TRUE, !.life = rep.conn, !.locals = {}]
      [] msg.kind = "Spawn"   -> [rep EXCEPT !.locals = @ \cup msg.ids]
      [] msg.kind = "Despawn" -> [rep EXCEPT !.locals = @ \ msg.ids]
      [] OTHER -> IF msg.remote \in rep.locals THEN [rep EXCEPT !.inbox = Append(@, msg)] ELSE rep

ReplicaReceive ==
    /\ toRep # <<>> /\ toRep' = Tail(toRep)
    /\ rep' = Received(Head(toRep))
    /\ UNCHANGED <<scripts, tick, ids, peer, up, toAuth, heard, excused>>

\* deliverAnswer finds its caller by number.
Answered(msgs) == {msgs[i].call : i \in DOMAIN msgs} \cap rep.waiters
Heard(msgs) == LET events == Sublist(msgs, Kind(msgs, "Fired"))
               IN  [i \in DOMAIN events |-> [remote |-> events[i].remote, n |-> events[i].n]]

\* One tick: the inbox to the scripts, which may ask, then sendMessages.  What is
\* fired before the welcome waits for it; a question names the instance of the
\* world it was asked in.
ReplicaTick(asks) ==
    LET queued == IF asks THEN Append(rep.outbox, [call |-> rep.next, life |-> rep.life, waited |-> 0])
                  ELSE rep.outbox
        wait   == Sublist(queued, {i \in DOMAIN queued : ~rep.welcomed /\ queued[i].waited < MaxHeld})
        sends  == Sublist(queued, {i \in DOMAIN queued : rep.welcomed /\ queued[i].life = rep.life
                                                         /\ Fn \in rep.locals})
    IN  /\ rep.inbox # <<>> \/ queued # <<>>
        /\ asks => rep.next \in Call /\ Fn \in rep.locals
        /\ heard' = heard \o Heard(rep.inbox)
        /\ rep' = [rep EXCEPT !.inbox = <<>>,
                              !.outbox = [i \in DOMAIN wait |-> [wait[i] EXCEPT !.waited = @ + 1]],
                              !.next = IF asks THEN @ + 1 ELSE @,
                              !.waiters = (@ \ Answered(rep.inbox)) \cup (IF asks THEN {rep.next} ELSE {})]
        /\ toAuth' = IF up THEN toAuth \o [i \in DOMAIN sends |-> [kind |-> "Question", call |-> sends[i].call]]
                     ELSE toAuth
        /\ excused' = IF asks /\ ~(up /\ rep.welcomed /\ Fn \in alive) THEN excused \cup {rep.next}
                      ELSE excused
        /\ UNCHANGED <<scripts, tick, ids, peer, up, toRep>>

-----------------------------------------------------------------------------
Receives == \E k \in 1..Len(toAuth) : AuthorityReceive(k)
Handles  == \E wait \in Waits : Handle(wait)
Ends     == \E capture \in BOOLEAN : TickEnds(capture)
Script   == \/ \E e \in Event : FireClient(e)
            \/ \E wait \in Waits : Delay(wait)
            \/ \E thread \in Thread : Cancel(thread)
            \/ \E r \in Remote : Create(r) \/ Destroy(r) \/ Move(r)
            \/ SetHandler \/ SetEnabled

Next == \/ Dial \/ Break
        \/ Receives \/ TickStarts \/ Handles \/ TimersDue \/ ResumeTimer \/ Script \/ Ends
        \/ ReplicaReceive \/ ReplicaTick(TRUE) \/ ReplicaTick(FALSE)
Spec == Init /\ [][Next]_vars

\* Both machines go on ticking, a snapshot is due again and again, and what was
\* sent on a connection that stands arrives.
FairSpec ==
    /\ Spec
    /\ WF_vars(TickStarts) /\ WF_vars(Handles) /\ WF_vars(TimersDue) /\ WF_vars(ResumeTimer)
    /\ WF_vars(Ends) /\ SF_vars(TickEnds(TRUE)) /\ SF_vars(Receives)
    /\ WF_vars(ReplicaReceive) /\ WF_vars(ReplicaTick(FALSE))

-----------------------------------------------------------------------------
\* What a timer still has to wait at the least: in the first part of a tick it may be
\* due in this one.
Soonest == IF phase = "inbox" THEN 0 ELSE 1

TypeOK ==
    /\ alive \subseteq born /\ born \cup ids \cup near \subseteq Remote /\ phase \in {"idle", "inbox", "resume"}
    /\ timers \in Seq(Timer) /\ due \in Seq(Timer) /\ (\A i \in DOMAIN timers : timers[i].left >= Soonest)
    /\ ended \subseteq Call /\ excused \subseteq Call
    /\ rep.waiters \subseteq 1..(rep.next - 1) /\ peer.known \subseteq Remote

\* A thread is resumed in the tick that is exactly so many after the one it began to
\* wait in, whichever part of that tick it was in: task.wait returns what it was
\* asked for.  Of those due together, the one that began in an earlier tick is first.
WaitsAreExact ==
    /\ \A i \in DOMAIN due : due[i].since = due[i].asked
    /\ \A i, j \in DOMAIN due : i < j => due[i].since >= due[j].since

\* What reaches the replica through its connection names an instance it has been
\* sent, and has not been told is gone: nothing is dropped there.
Brings(msg, r) == msg.kind = "Spawn" /\ r \in msg.ids
Takes(msg, r)  == msg.kind = "Welcome" \/ (msg.kind = "Despawn" /\ r \in msg.ids)
IsThere(r, n) ==
    \E i \in 0..n : /\ IF i = 0 THEN r \in rep.locals ELSE Brings(toRep[i], r)
                    /\ \A j \in (i + 1)..n : ~Takes(toRep[j], r)
NamedIsThere ==
    \A i \in DOMAIN toRep : toRep[i].kind \in {"Fired", "Answer"} => IsThere(toRep[i].remote, i - 1)

\* Messages fired through one event are heard in the order they were fired, each
\* at most once, however they waited and whatever was lost with a connection.
HeardInOrder ==
    \A i, j \in DOMAIN heard : i < j /\ heard[i].remote = heard[j].remote => heard[i].n < heard[j].n

\* The same of all the events: "a message never overtakes an earlier one".
NeverOvertakes == \A i, j \in DOMAIN heard : i < j => heard[i].n < heard[j].n

\* A question nothing happened to is in exactly one place on its way to the
\* handler and back, and a handler that has parked has a timer, or has finished.
Places(c) ==
    LET at(msgs) == Cardinality({i \in DOMAIN msgs : msgs[i].call = c})
        on(wire, kind) == Cardinality({i \in Kind(wire, kind) : wire[i].call = c})
    IN  at(rep.outbox) + on(toAuth, "Question") + at(inbox) + at(running) + at(outbox) + at(peer.held)
        + on(toRep, "Answer") + on(rep.inbox, "Answer")
NothingIsLost ==
    /\ \A c \in rep.waiters \ excused : Places(c) = 1
    /\ \A i \in DOMAIN running : LET c == running[i].call IN
           c \in excused \cup ended \cup Threads(timers) \cup Threads(due)

\* Calls and messages are never dropped in silence on their way.
NothingIsDropped == TypeOK /\ NamedIsThere /\ NothingIsLost

\* Whoever asks is answered, with the handler's values, its error or the lack of
\* one, unless the connection broke, the function was destroyed or kept out of
\* interest too long, the flood limit cut it, or the handler's thread was stopped.
CallersReturn == \A c \in Call : c \in rep.waiters ~> (c \notin rep.waiters \/ c \in excused)

=============================================================================
