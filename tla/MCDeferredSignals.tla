-------------------------- MODULE MCDeferredSignals --------------------------
(* Instances of DeferredSignals for TLC: one instance with an event and its  *)
(* Destroying, a signal of a script's own and the console's.                 *)
EXTENDS DeferredSignals

CONSTANTS part, event, destroying, custom, console, a, b, t, u

OwnerOf == [s \in Signals |-> IF s \in {event, destroying} THEN part ELSE Nobody]
=============================================================================
