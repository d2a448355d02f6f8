-------------------------- MODULE MCSegmentStream --------------------------
(* Instances of SegmentStream for TLC: one primary and one backup provider; *)
(* and RangePlanner, which says what a stream fetches, on small layouts.    *)
EXTENDS SegmentStream, TLC
LOCAL INSTANCE PoolSlots
LOCAL INSTANCE SequencesExt
Planner == INSTANCE RangePlanner

CONSTANTS p1, b1, Connections

Readers == Permutations(Reader)
PoolOwner == SlotsOf(<<p1, b1>>, [p \in {p1, b1} |-> Connections], N)

-----------------------------------------------------------------------------
\* Layouts of up to three segments of up to three bytes, whose articles begin
\* with up to one byte of something else.
Layouts ==
  UNION {{[i \in 1..n |-> LET start == FoldLeft(+, 0, SubSeq(bytes, 1, i - 1))
                          IN [start |-> start, end |-> start + bytes[i] - 1, source |-> source[i]]] :
            bytes \in [1..n -> 1..3], source \in [1..n -> 0..1]} : n \in 1..3}

Total(seg) == seg[Len(seg)].end + 1
BytesOf(seg, i, offset, length) == [k \in 1..length |-> Planner!ByteAt(seg[i], offset + k - 1)]
Interval(lo, hi) == [k \in 1..(hi - lo + 1) |-> lo + k - 1]

\* The slices of a plan, one after the other, are the bytes of the range.
ASSUME PlanGivesRange ==
  \A seg \in Layouts : \A lo \in 0..(Total(seg) - 1) : \A hi \in lo..(Total(seg) - 1) :
    LET picked == SetToSortSeq(Planner!Overlapping(seg, Len(seg), lo, hi), <)
        slice(i) == Planner!Slice(seg[i], lo, hi)
    IN FlattenSeq([j \in DOMAIN picked |->
                     BytesOf(seg, picked[j], slice(picked[j]).segmentOffset, slice(picked[j]).length)])
         = Interval(lo, hi)

\* A window is the bytes it asks for that the file has.
ASSUME WindowGivesBytes ==
  \A seg \in Layouts : \A start \in 0..Total(seg), length \in 0..(Total(seg) + 1) :
    LET rounds == Planner!WindowRounds(seg, Len(seg), Total(seg), start, length)
    IN FlattenSeq([j \in DOMAIN rounds |->
                     BytesOf(seg, rounds[j].at, rounds[j].segmentOffset, rounds[j].length)])
         = Interval(start, Planner!Lower(start + length, Total(seg)) - 1)
=============================================================================
