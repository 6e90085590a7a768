------------------------------- MODULE SlotMap -------------------------------
(***************************************************************************)
(* The generation-checked slot storage of engine/core: instances, signals, *)
(* connections and tweens are named by its handles, and the editor's Play  *)
(* and Stop copy it and put the copy back.                                 *)
(*                                                                         *)
(* The container is sequential: every operation is one step, and what is   *)
(* hard is the sequence of them.  The threaded free list is a set here:    *)
(* which free slot an insert takes is left open.                           *)
(***************************************************************************)
EXTENDS Naturals, FiniteSets

CONSTANTS Objects,         \* what is inserted, each once
          None,            \* an empty slot
          MaxSlots,        \* bound: the vectors of the code grow without one
          MaxCopies,       \* bound: copies kept at a time
          MaxRestores,     \* bound: a restore moves the generations of free slots on
          LastGeneration   \* the largest generation, 2^32 - 1 in the code

ASSUME SlotAssumption ==
    /\ None \notin Objects
    /\ MaxSlots \in Nat /\ MaxCopies \in Nat /\ MaxRestores \in Nat
    /\ LastGeneration \in Nat \ {0}

Index == 0..(MaxSlots - 1)

VARIABLES
    size,       \* m_slots.size()
    value,      \* m_slots; None from size on
    gen,        \* m_generations; 1 from size on
    free,       \* m_freeHead and m_nextFree, the order abstracted
    ceiling,    \* m_generationCeiling; 0 where the vector does not reach
    liveCount,
    saved,      \* the copies a caller keeps
    restores,   \* how often a copy was put back
    issued,     \* history: every handle handed out, with the object it was for
    wrapped     \* history: a slot has gone through all its generations

slotVars == <<size, value, gen, free, ceiling, liveCount, saved, restores, issued, wrapped>>

SlotInit ==
    /\ size = 0 /\ liveCount = 0 /\ restores = 0
    /\ value = [i \in Index |-> None] /\ gen = [i \in Index |-> 1]
    /\ ceiling = [i \in Index |-> 0]
    /\ free = {} /\ saved = {} /\ issued = {} /\ wrapped = FALSE

Bigger(a, b) == IF a < b THEN b ELSE a

Occupied == {i \in Index : value[i] # None}
Handle(i) == [index |-> i, generation |-> gen[i], object |-> value[i]]

\* resolve: the slot is taken and its generation is the handle's.
Resolves(h) == value[h.index] # None /\ gen[h.index] = h.generation

\* Mutant of NextGeneration: the ceiling a restore left is not looked at.
NextIgnoresCeiling(g, c) == IF g = LastGeneration THEN 1 ELSE g + 1

\* One past the one the slot holds, past the ceiling too, and never 0.
NextGeneration(g, c) ==
    LET next == IF g = LastGeneration THEN 1 ELSE g + 1 IN
    IF next <= c THEN (IF c = LastGeneration THEN 1 ELSE c + 1) ELSE next

\* The generations have run out, and the next is one the slot has had.
Wraps(g, c) == g = LastGeneration \/ c = LastGeneration

Insert(o) ==
    /\ \A h \in issued : h.object # o
    /\ \E i \in free \cup (IF free = {} /\ size < MaxSlots THEN {size} ELSE {}) :
         /\ value' = [value EXCEPT ![i] = o]
         /\ free' = free \ {i}
         /\ size' = IF i = size THEN size + 1 ELSE size
         /\ issued' = issued \cup {[index |-> i, generation |-> gen[i], object |-> o]}
    /\ liveCount' = liveCount + 1
    /\ UNCHANGED <<gen, ceiling, saved, restores, wrapped>>

\* Mutant of Erase: the generation stays, and the old handle comes to life again.
EraseKeepsGeneration(h) ==
    /\ Resolves(h)
    /\ value' = [value EXCEPT ![h.index] = None]
    /\ free' = free \cup {h.index}
    /\ liveCount' = liveCount - 1
    /\ UNCHANGED <<size, gen, ceiling, saved, restores, issued, wrapped>>

\* A handle that is already stale is refused: erase returns false.
Erase(h) ==
    /\ Resolves(h)
    /\ value' = [value EXCEPT ![h.index] = None]
    /\ gen' = [gen EXCEPT ![h.index] = NextGeneration(@, ceiling[h.index])]
    /\ wrapped' = (wrapped \/ Wraps(gen[h.index], ceiling[h.index]))
    /\ free' = free \cup {h.index}
    /\ liveCount' = liveCount - 1
    /\ UNCHANGED <<size, ceiling, saved, restores, issued>>

\* The generations are not reset: a handle from before does not come back.
Clear ==
    /\ value' = [i \in Index |-> None]
    /\ gen' = [i \in Index |-> IF i \in Occupied THEN NextGeneration(gen[i], ceiling[i]) ELSE gen[i]]
    /\ wrapped' = (wrapped \/ \E i \in Occupied : Wraps(gen[i], ceiling[i]))
    /\ free' = free \cup Occupied
    /\ liveCount' = 0
    /\ UNCHANGED <<size, ceiling, saved, restores, issued>>

\* The caller copies the map.
Copy ==
    /\ Cardinality(saved) < MaxCopies
    /\ saved' = saved \cup {[size |-> size, value |-> value, gen |-> gen,
                             free |-> free, liveCount |-> liveCount]}
    /\ UNCHANGED <<size, value, gen, free, ceiling, liveCount, restores, issued, wrapped>>

\* Mutant of RestoreFrom: the slots the copy never saw are not freed.
RestoreLosesTail(s) ==
    /\ restores < MaxRestores
    /\ LET high == [i \in Index |-> Bigger(ceiling[i], Bigger(gen[i], s.gen[i]))]
           back == [i \in Index |-> IF i < s.size THEN s.gen[i] ELSE gen[i]]
           empty == {i \in Index : i < size /\ s.value[i] = None} IN
       /\ ceiling' = [i \in Index |-> IF i < size THEN high[i] ELSE ceiling[i]]
       /\ gen' = [i \in Index |-> IF i \in empty THEN NextGeneration(back[i], high[i]) ELSE back[i]]
       /\ wrapped' = (wrapped \/ \E i \in empty : Wraps(back[i], high[i]))
    /\ value' = s.value /\ free' = s.free /\ liveCount' = s.liveCount
    /\ restores' = restores + 1
    /\ UNCHANGED <<size, saved, issued>>

\* A copy of this map never has more slots than the map, which does not shrink.
\* What the copy holds comes back under the generation it had; every free slot
\* moves on, past all it has ever been.
RestoreFrom(s) ==
    /\ restores < MaxRestores
    /\ LET high == [i \in Index |-> Bigger(ceiling[i], Bigger(gen[i], s.gen[i]))]
           back == [i \in Index |-> IF i < s.size THEN s.gen[i] ELSE gen[i]]
           empty == {i \in Index : i < size /\ s.value[i] = None} IN
       /\ ceiling' = [i \in Index |-> IF i < size THEN high[i] ELSE ceiling[i]]
       /\ gen' = [i \in Index |-> IF i \in empty THEN NextGeneration(back[i], high[i]) ELSE back[i]]
       /\ wrapped' = (wrapped \/ \E i \in empty : Wraps(back[i], high[i]))
       /\ free' = s.free \cup {i \in Index : s.size <= i /\ i < size}
    /\ value' = s.value /\ liveCount' = s.liveCount
    /\ restores' = restores + 1
    /\ UNCHANGED <<size, saved, issued>>

SlotNext ==
    \/ \E o \in Objects : Insert(o)
    \/ \E h \in issued : Erase(h)
    \/ Clear \/ Copy
    \/ \E s \in saved : RestoreFrom(s)

SlotSpec == SlotInit /\ [][SlotNext]_slotVars

-----------------------------------------------------------------------------
(* Properties *)

HandleType == [index : Index, generation : Nat \ {0}, object : Objects]
CopyType   == [size : 0..MaxSlots, value : [Index -> Objects \cup {None}],
               gen : [Index -> Nat \ {0}], free : SUBSET Index, liveCount : Nat]

SlotTypeOK ==
    /\ size \in 0..MaxSlots
    /\ value \in [Index -> Objects \cup {None}]
    /\ gen \in [Index -> Nat \ {0}]
    /\ free \in SUBSET Index
    /\ ceiling \in [Index -> Nat]
    /\ liveCount \in Nat
    /\ saved \in SUBSET CopyType
    /\ restores \in Nat
    /\ issued \in SUBSET HandleType
    /\ wrapped \in BOOLEAN

\* "Stale handles are detected, not dereferenced": through every erase, clear and
\* restore, a handle resolves to the object it was issued for or to nothing, as
\* long as no slot has gone through all of its generations.
Unaliased == ~wrapped => \A h \in issued : Resolves(h) => value[h.index] = h.object

\* Every slot the map has made is occupied or on the free list, never both, and
\* size() counts the occupied ones: what a restore has to put back together.
FreeExact ==
    /\ free = {i \in Index : i < size} \ Occupied
    /\ \A i \in Occupied : i < size
    /\ liveCount = Cardinality(Occupied)

\* The map implements HandleTable, restores included.
Handles == INSTANCE HandleTable WITH
    live   <- {Handle(i) : i \in Occupied},
    copies <- {{[index |-> i, generation |-> s.gen[i], object |-> s.value[i]] :
                    i \in {j \in Index : s.value[j] # None}} : s \in saved}
ImplementsHandles == Handles!Spec
=============================================================================
