----------------------------- MODULE HandleTable -----------------------------
(***************************************************************************)
(* What a generation-checked container promises, with no slots in it: a    *)
(* handle is issued once, names one object for ever, and resolves to that  *)
(* object or to nothing.  A restore brings back exactly what was live when *)
(* the copy was taken.                                                     *)
(***************************************************************************)
VARIABLES issued,   \* every handle ever handed out, with the object it was for
          live,     \* the ones that resolve
          copies    \* what was live when each copy was taken

table == <<issued, live, copies>>

SameName(h, k) == h.index = k.index /\ h.generation = k.generation

Init == issued = {} /\ live = {} /\ copies = {}

\* A handle no other object ever had, and no other live handle in its place.
Insert(h) ==
    /\ \A k \in issued : ~SameName(h, k)
    /\ \A k \in live : h.index # k.index
    /\ issued' = issued \cup {h} /\ live' = live \cup {h}
    /\ UNCHANGED copies

Erase(h) == h \in live /\ live' = live \ {h} /\ UNCHANGED <<issued, copies>>
Clear    == live' = {} /\ UNCHANGED <<issued, copies>>
Copy     == copies' = copies \cup {live} /\ UNCHANGED <<issued, live>>
Restore(c) == c \in copies /\ live' = c /\ UNCHANGED <<issued, copies>>

Next == \/ \E h \in issued' : Insert(h)
        \/ \E h \in live : Erase(h)
        \/ Clear \/ Copy
        \/ \E c \in copies : Restore(c)

Spec == Init /\ [][Next]_table
=============================================================================
