----------------------------- MODULE ParallelFor -----------------------------
(***************************************************************************)
(* The partition of engine/jobs' parallelFor: [begin, end) cut into ranges *)
(* of grain elements, whose indices are the buckets of a StableCommit, and *)
(* scheduled in waves of a size the pool has slots for.  Each range is one *)
(* job of JobPool; a wave is scheduled once every job of the last has run. *)
(* Arithmetic is modulo the widths of usize and u32.                       *)
(***************************************************************************)
EXTENDS Integers

CONSTANTS SizeLimit,         \* 2^64: usize
          IndexLimit,        \* 2^32: u32
          MaxRangesPerWave

ASSUME WidthAssumption ==
    /\ SizeLimit \in Nat \ {0} /\ IndexLimit \in Nat \ {0}
    /\ MaxRangesPerWave \in Nat \ {0}

Least(a, b) == IF a < b THEN a ELSE b

RangeCount(begin, end, grain) ==
    IF end <= begin \/ grain = 0 THEN 0
    ELSE ((((end - begin) + grain - 1) % SizeLimit) \div grain) % IndexLimit

RangeBegin(begin, grain, index) == (begin + index * grain) % SizeLimit
RangeEnd(begin, end, grain, index) ==
    Least((RangeBegin(begin, grain, index) + grain) % SizeLimit, end)

\* The elements a range visits, in ascending order.
Elements(begin, end, grain, index) ==
    RangeBegin(begin, grain, index)..(RangeEnd(begin, end, grain, index) - 1)

\* The ranges of the wave that starts at one, and where the next starts.
NextWave(waveStart) == (waveStart + MaxRangesPerWave) % IndexLimit
Wave(ranges, waveStart) == waveStart..(Least(NextWave(waveStart), ranges) - 1)

-----------------------------------------------------------------------------
(* What the arithmetic is good for: no sum wraps.                            *)

Fits(begin, end, grain) ==
    /\ end + grain <= SizeLimit
    /\ end - begin < grain * IndexLimit - grain

\* Every element is visited, by one range.
EachOnce(begin, end, grain) ==
    \A e \in begin..(end - 1) :
        \E i \in 0..(RangeCount(begin, end, grain) - 1) :
            /\ e \in Elements(begin, end, grain, i)
            /\ \A j \in 0..(RangeCount(begin, end, grain) - 1) :
                   e \in Elements(begin, end, grain, j) => i = j

\* A range visits something, and nothing outside of [begin, end).
RangesAreInside(begin, end, grain) ==
    \A i \in 0..(RangeCount(begin, end, grain) - 1) :
        /\ Elements(begin, end, grain, i) # {}
        /\ Elements(begin, end, grain, i) \subseteq begin..(end - 1)

\* The order of the ranges is the order of the elements, which is what makes the
\* walk of a StableCommit in bucket order the sequential result.
InOrder(begin, end, grain) ==
    \A i, j \in 0..(RangeCount(begin, end, grain) - 1) : i < j =>
        \A d \in Elements(begin, end, grain, i), e \in Elements(begin, end, grain, j) : d < e

\* A wave is never empty and never larger than the pool was promised, and the
\* next begins where it ends: no range is left out or scheduled twice.
WavesMeet(ranges) ==
    \A start \in 0..(ranges - 1) :
        /\ \A i \in Wave(ranges, start) : i < start + MaxRangesPerWave /\ i < ranges
        /\ start \in Wave(ranges, start)
        /\ \A i \in start..(ranges - 1) : i \in Wave(ranges, start) \/ i >= NextWave(start)
        /\ NextWave(start) > start
=============================================================================
