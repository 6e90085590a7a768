---------------------------- MODULE StreamingOrder ----------------------------
(***************************************************************************)
(* The two orders of streaming: that in which asset::StreamingManager asks *)
(* for chunks, nearest first, and that in which a host goes through the    *)
(* reads it has out.  Chunks lie on a line, a chunk's id is its place, and *)
(* its size is one.                                                        *)
(***************************************************************************)
EXTENDS Sublists

Distance(c, f)   == IF c < f THEN f - c ELSE c - f
Within(c, foci, r) == \E f \in foci : Distance(c, f) <= r

\* The first k of S by squared distance, ties by id.
Score(c, foci) == IF foci = {} THEN 0
                  ELSE CHOOSE d \in {Distance(c, f) : f \in foci} :
                           \A f \in foci : d <= Distance(c, f)
Before(c, d, foci) == \/ Score(c, foci) < Score(d, foci)
                      \/ Score(c, foci) = Score(d, foci) /\ c < d
Nearest(S, k, foci) == {c \in S : Cardinality({d \in S : Before(d, c, foci)}) < k}

\* The chunks of S in the order tick asks for them.
InOrder(S, foci) ==
    [n \in 1..Cardinality(S) |->
        CHOOSE c \in S : Cardinality({d \in S : Before(d, c, foci)}) = n - 1]

-----------------------------------------------------------------------------
(* The reads both hosts keep in m_reads: each with its chunk and how far   *)
(* its IO is.                                                              *)

\* The loop a frame runs over the first k of them: those that have ended leave
\* the list, and the last outcome of a chunk is the one it keeps.
Ended(reads, k)  == {i \in DOMAIN reads : i <= k /\ reads[i].io # "Pending"}
LastOf(reads, k) == {i \in Ended(reads, k) :
                        \A j \in Ended(reads, k) : j > i => reads[j].chunk # reads[i].chunk}
StillOut(reads, k) == Sublist(reads, DOMAIN reads \ Ended(reads, k))

==============================================================================
