----------------------------- MODULE StableCommit -----------------------------
(***************************************************************************)
(* The one sanctioned way for parallel work to answer the simulation: a    *)
(* bucket per range of a parallelFor, filled by whichever worker runs the  *)
(* range, and a walk over the buckets in index order after the barrier.    *)
(***************************************************************************)
EXTENDS ParallelFor, SequencesExt

Buckets(bucketCount) == [i \in 0..(bucketCount - 1) |-> <<>>]

PushTo(buckets, index, value) == [buckets EXCEPT ![index] = Append(@, value)]

Merged(buckets) ==
    FlattenSeq([k \in 1..Cardinality(DOMAIN buckets) |-> buckets[k - 1]])

Clear(buckets) == [i \in DOMAIN buckets |-> <<>>]

\* The ranges of a parallelFor each push what they visit, interleaved as in order,
\* a permutation of all the elements.
RangeOf(begin, end, grain, e) ==
    CHOOSE i \in 0..(RangeCount(begin, end, grain) - 1) : e \in Elements(begin, end, grain, i)
Filled(begin, end, grain, order) ==
    FoldLeft(LAMBDA buckets, e : PushTo(buckets, RangeOf(begin, end, grain, e), e),
             Buckets(RangeCount(begin, end, grain)), order)

\* What the pool can make of a span: any order that takes each range's own
\* elements from first to last.
Schedules(begin, end, grain) ==
    {order \in SetToSeqs(begin..(end - 1)) :
        \A i, j \in DOMAIN order : i < j =>
            \/ order[i] < order[j]
            \/ RangeOf(begin, end, grain, order[i]) # RangeOf(begin, end, grain, order[j])}

\* "The result is bit-identical whichever order the ranges completed in."
Deterministic(begin, end, grain) ==
    \A order \in Schedules(begin, end, grain) :
        Merged(Filled(begin, end, grain, order)) = [k \in 1..(end - begin) |-> begin + k - 1]
=============================================================================
