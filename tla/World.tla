-------------------------------- MODULE World --------------------------------
(***************************************************************************)
(* The instance hierarchy of engine/scene: the tree, the index             *)
(* FindFirstChild answers from, the tags, the hierarchy events a listener  *)
(* is told, and the two steps an instance dies in: Destroy detaches it and *)
(* leaves a corpse scripts can still hold, the end of the drain retires it.*)
(*                                                                         *)
(* Instances are numbered in the order they are made and never again; that *)
(* no handle comes to name another is proved of the slot map (SlotMap).    *)
(* The sibling links are a sequence; the links of the name index are kept. *)
(***************************************************************************)
EXTENDS Sublists, SequencesExt

CONSTANTS MaxInstances,  \* bound: instances ever made
          Names, Tags,
          CorpseUse      \* what a script does to a destroyed instance

Nil == 0
Instances == 1..MaxInstances

ASSUME WorldAssumption ==
    /\ MaxInstances \in Nat
    /\ Names # {}
    /\ CorpseUse \subseteq {"adopt", "tag"}

VARIABLES
    made,       \* instances are 1..made
    destroyed,  \* the corpses: record->destroyed, and m_pendingRetire
    retired,    \* the slot is erased, and no handle resolves
    tree,       \* per instance: parent, kids, name, the name index, and what was told
    tags,       \* m_tags: what an instance carries
    tagged      \* m_tagged: who carries a tag

worldVars == <<made, destroyed, retired, tree, tags, tagged>>

\* first and next are the name index: m_nameIndices[p].firstByName[n], and the
\* nextSameName of a child.  heard counts, for an ancestor and a member,
\* DescendantAdded less DescendantRemoving.
WorldInit ==
    /\ made = 0 /\ destroyed = {} /\ retired = {}
    /\ tree = [parent |-> [x \in Instances |-> Nil],
               kids   |-> [x \in Instances |-> <<>>],
               name   |-> [x \in Instances |-> CHOOSE n \in Names : TRUE],
               first  |-> [x \in Instances |-> [n \in Names |-> Nil]],
               next   |-> [x \in Instances |-> Nil],
               heard  |-> [e \in Instances \X Instances |-> 0]]
    /\ tags = [x \in Instances |-> {}]
    /\ tagged = [g \in Tags |-> {}]

Alive == (1..made) \ retired
Named(t, n) == {y \in Instances : t.name[y] = n}

-----------------------------------------------------------------------------
(* Walks *)

\* collectDescendants, with the root first: each child followed by its subtree.
Subtree(t, x) ==
    LET below[y \in Instances] ==
            <<y>> \o Joined([i \in DOMAIN t.kids[y] |-> below[t.kids[y][i]]])
    IN below[x]

\* An instance and its ancestors; none of Nil.
Chain(t, x) ==
    LET up[y \in Instances \cup {Nil}] == IF y = Nil THEN {} ELSE {y} \cup up[t.parent[y]]
    IN up[x]

\* The siblings of one name, in the order the links have them.
SameName(t, x) ==
    LET from[y \in Instances \cup {Nil}] == IF y = Nil THEN <<>> ELSE <<y>> \o from[t.next[y]]
    IN from[x]

-----------------------------------------------------------------------------
(* Links *)

\* A child goes to the place it ends at.
LinkAt(t, p, x, place) ==
    [t EXCEPT !.parent[x] = p, !.kids[p] = InsertAt(@, place, x)]

\* Nothing is unlinked from a parent that has been retired.
UnlinkChild(t, x) ==
    IF t.parent[x] \in retired THEN t
    ELSE [t EXCEPT !.parent[x] = Nil, !.kids[t.parent[x]] = Only(@, Instances \ {x})]

\* A child that comes last in child order is appended to its chain.
IndexName(t, p, x) ==
    LET head == t.first[p][t.name[x]] IN
    IF head = Nil THEN [t EXCEPT !.first[p][t.name[x]] = x]
                  ELSE [t EXCEPT !.next[Last(SameName(t, head))] = x]

\* One that may not come last goes after the last of its name before it.
IndexNameInChildOrder(t, p, x) ==
    LET n == t.name[x]
        place == CHOOSE i \in DOMAIN t.kids[p] : t.kids[p][i] = x
        before == Only(SubSeq(t.kids[p], 1, place - 1), Named(t, n))
    IN IF before = <<>>
       THEN [t EXCEPT !.next[x] = t.first[p][n], !.first[p][n] = x]
       ELSE [t EXCEPT !.next[x] = t.next[Last(before)], !.next[Last(before)] = x]

\* Early returns leave the link of the child as it was.
UnindexName(t, p, x) ==
    LET n == t.name[x]
        head == t.first[p][n]
        before == {y \in ToSet(SameName(t, head)) : t.next[y] = x}
        out == CASE head = x    -> [t EXCEPT !.first[p][n] = t.next[x]]
                 [] before # {} -> [t EXCEPT !.next[CHOOSE y \in before : TRUE] = t.next[x]]
                 [] OTHER       -> t
    IN IF head = Nil THEN t ELSE [out EXCEPT !.next[x] = Nil]

\* Every ancestor in who is told of every member.
Tell(t, who, members, count) ==
    [t EXCEPT !.heard = [e \in DOMAIN @ |->
        IF e[1] \in who /\ e[2] \in members THEN @[e] + count ELSE @[e]]]

\* Mutant of Reparent: only the instance itself is announced, not its subtree.
ReparentTellsRoot(t, x, p) ==
    LET old == t.parent[x]
        out == IF old = Nil THEN t
               ELSE Tell(UnlinkChild(UnindexName(t, old, x), x), Chain(t, old), {x}, -1)
        in  == IF p = Nil THEN [out EXCEPT !.parent[x] = Nil]
               ELSE IndexName(LinkAt(out, p, x, Len(out.kids[p]) + 1), p, x)
    IN IF old = p THEN t ELSE Tell(in, Chain(in, p), {x}, 1)

\* setParent past its refusals: out of the old parent, in as the last child of
\* the new one, and the same members announced on both sides.
Reparent(t, x, p) ==
    LET old == t.parent[x]
        moved == ToSet(Subtree(t, x))
        out == IF old = Nil THEN t
               ELSE Tell(UnlinkChild(UnindexName(t, old, x), x), Chain(t, old), moved, -1)
        in  == IF p = Nil THEN [out EXCEPT !.parent[x] = Nil]
               ELSE IndexName(LinkAt(out, p, x, Len(out.kids[p]) + 1), p, x)
    IN IF old = p THEN t ELSE Tell(in, Chain(in, p), moved, 1)

DetachAll(t, members) ==
    LET left[i \in 0..Len(members)] ==
            IF i = 0 THEN t ELSE Reparent(left[i - 1], members[i], Nil)
    IN left[Len(members)]

-----------------------------------------------------------------------------
(* Operations *)

\* The name is the class's.
Create(n) ==
    /\ made < MaxInstances
    /\ made' = made + 1
    /\ tree' = [tree EXCEPT !.name[made + 1] = n]
    /\ UNCHANGED <<destroyed, retired, tags, tagged>>

\* Refused: a corpse's parent is locked at nil, and a cycle is none of a tree.
SetParent(x, p) ==
    /\ x \in Alive /\ p \in Alive \cup {Nil}
    /\ p # Nil => x \notin destroyed
    /\ x \notin Chain(tree, p)
    /\ p \in destroyed => "adopt" \in CorpseUse
    /\ tree' = Reparent(tree, x, p)
    /\ UNCHANGED <<made, destroyed, retired, tags, tagged>>

\* Mutant of SetName: the child is appended to the chain of its new name.
SetNameAppends(x, n) ==
    /\ x \in Alive /\ n # tree.name[x]
    /\ LET p == tree.parent[x] IN
       tree' = IF p = Nil THEN [tree EXCEPT !.name[x] = n]
               ELSE IndexName([UnindexName(tree, p, x) EXCEPT !.name[x] = n], p, x)
    /\ UNCHANGED <<made, destroyed, retired, tags, tagged>>

SetName(x, n) ==
    /\ x \in Alive /\ n # tree.name[x]
    /\ LET p == tree.parent[x] IN
       tree' = IF p = Nil THEN [tree EXCEPT !.name[x] = n]
               ELSE IndexNameInChildOrder([UnindexName(tree, p, x) EXCEPT !.name[x] = n], p, x)
    /\ UNCHANGED <<made, destroyed, retired, tags, tagged>>

\* The place is where the child ends, in the list without it.
MoveChild(p, x, place) ==
    /\ p \in Alive /\ x \in Alive /\ tree.parent[x] = p
    /\ place <= Len(tree.kids[p]) /\ tree.kids[p][place] # x
    /\ LET out == UnlinkChild(UnindexName(tree, p, x), x) IN
       tree' = IndexNameInChildOrder(LinkAt(out, p, x, place), p, x)
    /\ UNCHANGED <<made, destroyed, retired, tags, tagged>>

\* Mutant of Destroy: the descendants keep their tags until they are retired.
DestroyKeepsTags(x) ==
    /\ x \in Alive \ destroyed
    /\ LET members == Subtree(tree, x) IN
       /\ tree' = DetachAll(tree, members)
       /\ destroyed' = destroyed \cup ToSet(members)
       /\ tags' = [tags EXCEPT ![x] = {}]
       /\ tagged' = [g \in Tags |-> tagged[g] \ {x}]
    /\ UNCHANGED <<made, retired>>

\* Every member of the subtree, parent before child, is untagged, detached and
\* marked.
Destroy(x) ==
    /\ x \in Alive \ destroyed
    /\ LET members == Subtree(tree, x) IN
       /\ tree' = DetachAll(tree, members)
       /\ destroyed' = destroyed \cup ToSet(members)
       /\ tags' = [y \in Instances |-> IF y \in ToSet(members) THEN {} ELSE tags[y]]
       /\ tagged' = [g \in Tags |-> tagged[g] \ ToSet(members)]
    /\ UNCHANGED <<made, retired>>

\* The end of the drain erases what a corpse still has of its own; nothing of
\* the others is touched.
RetireDestroyed ==
    /\ retired' = retired \cup destroyed /\ destroyed' = {}
    /\ tree' = [tree EXCEPT
         !.parent = [x \in Instances |-> IF x \in destroyed THEN Nil ELSE @[x]],
         !.kids   = [x \in Instances |-> IF x \in destroyed THEN <<>> ELSE @[x]],
         !.name   = [x \in Instances |-> IF x \in destroyed THEN CHOOSE n \in Names : TRUE ELSE @[x]],
         !.first  = [x \in Instances |-> IF x \in destroyed THEN [n \in Names |-> Nil] ELSE @[x]],
         !.next   = [x \in Instances |-> IF x \in destroyed THEN Nil ELSE @[x]]]
    /\ tags' = [x \in Instances |-> IF x \in destroyed THEN {} ELSE tags[x]]
    /\ UNCHANGED <<made, tagged>>

Copies(members) == made + 1..made + Len(members)
CopyOf(members, y) == made + CHOOSE i \in DOMAIN members : members[i] = y
Born(members) ==
    [tree EXCEPT !.name = [y \in Instances |->
        IF y \in Copies(members) THEN @[members[y - made]] ELSE @[y]]]

\* Mutant of Built: every copy is put under the copy of the root.
BuiltFlat(members) ==
    LET built[i \in DOMAIN members] ==
            IF i = 1 THEN Born(members) ELSE Reparent(built[i - 1], made + i, made + 1)
    IN built[Len(members)]

Built(members) ==
    LET built[i \in DOMAIN members] ==
            IF i = 1 THEN Born(members)
            ELSE Reparent(built[i - 1], made + i, CopyOf(members, tree.parent[members[i]]))
    IN built[Len(members)]

\* The subtree again, unparented: the copies are made first, in document order,
\* then each is put under the copy of its parent.
Clone(x) ==
    /\ x \in Alive \ destroyed
    /\ LET members == Subtree(tree, x)
           copies == Copies(members) IN
       /\ made + Len(members) <= MaxInstances
       /\ made' = made + Len(members)
       /\ tree' = Built(members)
       /\ tags' = [y \in Instances |-> IF y \in copies THEN tags[members[y - made]] ELSE tags[y]]
       /\ tagged' = [g \in Tags |-> tagged[g] \cup {y \in copies : g \in tags[members[y - made]]}]
    /\ UNCHANGED <<destroyed, retired>>

AddTag(x, g) ==
    /\ x \in Alive /\ g \notin tags[x]
    /\ x \in destroyed => "tag" \in CorpseUse
    /\ tags' = [tags EXCEPT ![x] = @ \cup {g}]
    /\ tagged' = [tagged EXCEPT ![g] = @ \cup {x}]
    /\ UNCHANGED <<made, destroyed, retired, tree>>

RemoveTag(x, g) ==
    /\ x \in Alive /\ g \in tags[x]
    /\ tags' = [tags EXCEPT ![x] = @ \ {g}]
    /\ tagged' = [tagged EXCEPT ![g] = @ \ {x}]
    /\ UNCHANGED <<made, destroyed, retired, tree>>

WorldNext ==
    \/ \E n \in Names : Create(n)
    \/ \E x \in Instances, p \in Instances \cup {Nil} : SetParent(x, p)
    \/ \E x \in Instances, n \in Names : SetName(x, n)
    \/ \E p, x, place \in Instances : MoveChild(p, x, place)
    \/ \E x \in Instances : Destroy(x) \/ Clone(x)
    \/ RetireDestroyed
    \/ \E x \in Instances, g \in Tags : AddTag(x, g) \/ RemoveTag(x, g)

WorldSpec == WorldInit /\ [][WorldNext]_worldVars

-----------------------------------------------------------------------------
(* Properties *)

WorldTypeOK ==
    /\ made \in 0..MaxInstances
    /\ destroyed \subseteq 1..made /\ retired \subseteq 1..made
    /\ destroyed \cap retired = {}
    /\ tree.parent \in [Instances -> Instances \cup {Nil}]
    /\ tree.kids \in [Instances -> Seq(Instances)]
    /\ tree.name \in [Instances -> Names]
    /\ tree.first \in [Instances -> [Names -> Instances \cup {Nil}]]
    /\ tree.next \in [Instances -> Instances \cup {Nil}]
    /\ tree.heard \in [Instances \X Instances -> Nat]
    /\ tags \in [Instances -> SUBSET Tags]
    /\ tagged \in [Tags -> SUBSET Instances]

\* Parents and children agree, whatever was moved, destroyed or cloned: "a child
\* that names a parent is in that parent's list", once, the parent still
\* resolves, and there is no cycle.
ParentListsChild ==
    /\ \A x \in Alive : tree.parent[x] # Nil =>
           tree.parent[x] \in Alive /\ x \in ToSet(tree.kids[tree.parent[x]])
    /\ \A p \in Instances : /\ IsInjective(tree.kids[p])
                            /\ \A x \in ToSet(tree.kids[p]) : tree.parent[x] = p
    /\ \A S \in (SUBSET Alive) \ {{}} : \E x \in S : tree.parent[x] \notin S

\* The links of the name index are the children of that name, in child order, so
\* that FindFirstChild answers with the first (ADR 0026); and a link of an
\* instance that is in no chain leads nowhere.
NamesInChildOrder ==
    /\ \A p \in Instances, n \in Names :
           SameName(tree, tree.first[p][n]) = Only(tree.kids[p], Named(tree, n))
    /\ \A x \in Instances : tree.parent[x] = Nil => tree.next[x] = Nil

\* Who followed DescendantAdded and DescendantRemoving knows the descendants, each
\* once, however the tree was rearranged above and below.
HeardIsTrue ==
    \A a, d \in Instances :
        tree.heard[<<a, d>>] = IF a \in Chain(tree, d) \ {d} THEN 1 ELSE 0

\* The two sides of the tag index agree: GetTagged and GetAllTags mean "currently
\* carried", by instances that still resolve.
TaggedAreCarried ==
    \A g \in Tags : tagged[g] = {x \in Alive : g \in tags[x]}

\* The tree and the index of tags are well formed, each from both of its sides.
TreeExact == WorldTypeOK /\ ParentListsChild /\ TaggedAreCarried

\* Destroy takes the whole subtree with it, and every member ends unparented,
\* childless and untagged.
DestroyTakesAll ==
    [][\A x \in destroyed' \ destroyed :
           /\ ToSet(Subtree(tree, x)) \subseteq destroyed'
           /\ tree'.parent[x] = Nil /\ tree'.kids[x] = <<>> /\ tags'[x] = {}]_worldVars

\* A clone is the subtree again, in the same order, unparented, and what it was
\* made from is as it was.
CloneIsCopy ==
    [][\A x \in Instances : Clone(x) =>
         LET members == Subtree(tree, x)
             copies == Subtree(tree', made + 1) IN
         /\ Len(copies) = Len(members)
         /\ tree'.parent[made + 1] = Nil
         /\ \A i \in DOMAIN members :
              /\ tree'.name[copies[i]] = tree.name[members[i]]
              /\ tags'[copies[i]] = tags[members[i]]
              /\ Len(tree'.kids[copies[i]]) = Len(tree.kids[members[i]])
         /\ \A y \in 1..made : tree'.kids[y] = tree.kids[y] /\ tree'.parent[y] = tree.parent[y]]_worldVars

\* The operations on a whole subtree reach all of it, and nothing else.
WholeSubtrees == DestroyTakesAll /\ CloneIsCopy
=============================================================================
