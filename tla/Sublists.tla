------------------------------ MODULE Sublists ------------------------------
(***************************************************************************)
(* The elements of a list at some of its places, in the order of the list: *)
(* what a loop that keeps or collects some of a vector leaves; and what a  *)
(* loop over a queue takes from its head.  They are functions of sets or   *)
(* recursive functions, so that what they return can be proved             *)
(* (SublistProofs).                                                        *)
(***************************************************************************)
EXTENDS Integers, Sequences, FiniteSets

\* How many of the places in I are before i.
Rank(I, i) == Cardinality({j \in I : j < i})

\* The n-th of them.
Place(I, n) == CHOOSE i \in I : Rank(I, i) = n - 1

Sublist(s, I) == [n \in 1..Cardinality(I) |-> s[Place(I, n)]]

\* Lists one behind the other.
Joined(q) ==
    LET f[n \in 0..Len(q)] == IF n = 0 THEN <<>> ELSE f[n - 1] \o q[n]
    IN  f[Len(q)]

\* The elements of s that are in S.
Only(s, S) ==
    LET f[n \in 0..Len(s)] == IF n = 0 THEN <<>>
                              ELSE IF s[n] \in S THEN Append(f[n - 1], s[n]) ELSE f[n - 1]
    IN  f[Len(s)]

\* The longest beginning of s all of whose places are in S.
Lead(s, S) == CHOOSE k \in 0..Len(s) : 1..k \subseteq S /\ (k < Len(s) => k + 1 \notin S)
Leading(s, S)   == SubSeq(s, 1, Lead(s, S))
After(s, first) == SubSeq(s, Len(first) + 1, Len(s))
=============================================================================
