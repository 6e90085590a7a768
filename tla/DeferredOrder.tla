---------------------------- MODULE DeferredOrder ----------------------------
(***************************************************************************)
(* What deferred signals promise: one queue, one order.  A fire reaches    *)
(* those connected when it was raised, in the order they connected, unless *)
(* they disconnect first or their script is stopped; deferred tasks wait   *)
(* in the same line; a one-shot is consumed by its first; and a drain goes *)
(* on until the line is empty, one resumption at a time.                   *)
(***************************************************************************)
EXTENDS Sublists, SequencesExt

CONSTANTS Conns, Tasks, Signals

VARIABLES listening,   \* who is connected to each signal, in order
          once,        \* those of them that are one-shots
          pending,     \* what is still to be resumed, in order
          ready,       \* a drain is on and nobody it has resumed is at work
          stopped      \* connections and tasks of stopped scripts

vars == <<listening, once, pending, ready, stopped>>

Init ==
    /\ listening = [s \in Signals |-> <<>>]
    /\ once = {} /\ pending = <<>> /\ ready = FALSE /\ stopped = {}

Without(seq, gone) == Only(seq, (Conns \cup Tasks) \ gone)

Leave(gone) ==
    /\ once' = once \ gone
    /\ listening' = [s \in Signals |-> Without(listening[s], gone)]

\* A script at work connects,
Connect(s, c, oneShot) ==
    /\ ~ready /\ ready' \in BOOLEAN
    /\ c \notin ToSet(pending) /\ \A r \in Signals : c \notin ToSet(listening[r])
    /\ listening' = [listening EXCEPT ![s] = Append(@, c)]
    /\ once' = IF oneShot THEN once \cup {c} ELSE once \ {c}
    /\ UNCHANGED pending

\* or raises a fire, a task or nothing; some disconnect or are cancelled.
Raise(new, gone) ==
    /\ ~ready /\ ready' \in BOOLEAN
    /\ Leave(gone) /\ pending' = Without(pending \o new, gone)

\* The first in line is resumed, a one-shot for the last time.
Resume ==
    /\ ready /\ ~ready' /\ pending # <<>>
    /\ LET gone == {Head(pending)} \cap once IN
       Leave(gone) /\ pending' = Without(Tail(pending), gone)

\* The first in line belongs to a script that has been stopped.
PassOver ==
    /\ ready /\ ready' /\ pending # <<>> /\ Head(pending) \in stopped
    /\ pending' = Tail(pending)
    /\ UNCHANGED <<listening, once>>

\* What a destroyed instance has left is disconnected.
Close(gone) ==
    /\ ready /\ ready' /\ gone \subseteq Conns
    /\ Leave(gone) /\ pending' = Without(pending, gone)

\* A drain begins or goes on, or ends, with nobody in line.
Turn ==
    /\ ready => pending = <<>>
    /\ ready' = ~ready
    /\ UNCHANGED <<listening, once, pending>>

Step ==
    \/ \E s \in Signals, c \in Conns, oneShot \in BOOLEAN : Connect(s, c, oneShot)
    \/ \E new \in {<<>>} \cup {listening[s] : s \in Signals} \cup {<<t>> : t \in Tasks} :
         \E gone \in SUBSET (Conns \cup Tasks) : Raise(new, gone)
    \/ Resume \/ PassOver \/ Turn
    \/ \E gone \in SUBSET Conns : Close(gone)
    \/ UNCHANGED <<listening, once, pending, ready>>

\* Scripts are stopped and started at any time.
Next == Step /\ stopped' \in SUBSET (Conns \cup Tasks)

Spec == Init /\ [][Next]_vars
=============================================================================
