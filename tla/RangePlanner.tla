---------------------------- MODULE RangePlanner ----------------------------
(***************************************************************************)
(* Which parts of which articles make up a range of a mounted file         *)
(* (rangePlanner.service.ts, yencManifest.service.ts and the volumes of    *)
(* rarStoredIndex.ts).  Bytes are their positions: a layout gives for      *)
(* every segment the first and the last byte of the file it holds, and     *)
(* where in the decoded article they begin (sourceOffset).                 *)
(***************************************************************************)
EXTENDS Integers, Sequences

Lower(a, b) == IF a <= b THEN a ELSE b
Higher(a, b) == IF a >= b THEN a ELSE b

-----------------------------------------------------------------------------
\* normalizeRange, of a header that is absent, "-<last>", "<first>-" or
\* "<first>-<last>".

NoRange == [start |-> 0, end |-> -1]     \* an exception
Header == {[kind |-> "none"]} \union [kind : {"suffix", "from"}, at : Nat]
          \union [kind : {"between"}, at : Nat, to : Nat]

NormalizeRange(header, size) ==
  CASE size <= 0 -> [start |-> 0, end |-> 0]
    [] size > 0 /\ header.kind = "none" -> [start |-> 0, end |-> size - 1]
    [] size > 0 /\ header.kind = "suffix" ->
         IF header.at = 0 THEN NoRange
         ELSE [start |-> Higher(0, size - header.at), end |-> size - 1]
    [] size > 0 /\ header.kind = "from" ->
         IF header.at >= size THEN NoRange ELSE [start |-> header.at, end |-> size - 1]
    [] size > 0 /\ header.kind = "between" ->
         IF header.at >= size \/ header.to < header.at THEN NoRange
         ELSE [start |-> header.at, end |-> Lower(header.to, size - 1)]

-----------------------------------------------------------------------------
\* Layouts: functions from 1..n to segments.

ManifestSegment == [start : Nat, end : Nat, source : Nat]

\* Without gap or overlap, from first to last.
Contiguous(seg, n, first, last) ==
  /\ n > 0 /\ seg[1].start = first /\ seg[n].end = last
  /\ \A i \in 1..n : seg[i].start <= seg[i].end
  /\ \A i \in 1..(n - 1) : seg[i + 1].start = seg[i].end + 1

\* buildDecodedYencSegments from the first article alone: every part has its
\* size, the last one what is left.
Part(p, size, i) ==
  [start |-> (i - 1) * p, end |-> (i - 1) * p + Lower(p, size - (i - 1) * p) - 1, source |-> 0]

\* A part that would begin at the end is not made.
PartCount(articles, p, size) == Lower(articles, (size + p - 1) \div p)
PartLayout(articles, p, size) == [i \in 1..PartCount(articles, p, size) |-> Part(p, size, i)]

-----------------------------------------------------------------------------
\* The loop that collects what overlaps first..last: segments before it are
\* passed over, the first one after it ends the loop.

Overlapping(seg, n, first, last) ==
  {i \in 1..n : seg[i].end >= first /\ \A j \in 1..i : seg[j].end < first \/ seg[j].start <= last}

From(segment, first) == Higher(first, segment.start)
To(segment, last) == Lower(last, segment.end)

\* planMountedFileRange, for a segment it picks.
Slice(segment, first, last) ==
  [readOffset |-> From(segment, first),
   segmentOffset |-> segment.source + (From(segment, first) - segment.start),
   length |-> To(segment, last) - From(segment, first) + 1]

\* buildVirtualSegments: the part of a stored archive entry that one volume
\* holds at dataStart, byteCount bytes long, as segments of the entry.
Virtual(segment, dataStart, byteCount, entryStart) ==
  LET start == From(segment, dataStart)
      end == To(segment, dataStart + byteCount - 1)
  IN [start |-> entryStart + (start - dataStart),
      end |-> entryStart + (start - dataStart) + (end - start),
      source |-> start - segment.start]

-----------------------------------------------------------------------------
\* A round of the binary search of findSegmentIndex, with what is left to search.

Probe(seg, offset, low, high) ==
  LET mid == (low + high) \div 2 IN
  CASE offset < seg[mid].start -> [low |-> low, high |-> mid - 1, found |-> 0]
    [] offset >= seg[mid].start /\ offset > seg[mid].end -> [low |-> mid + 1, high |-> high, found |-> 0]
    [] OTHER -> [low |-> low, high |-> high, found |-> mid]

\* An offset that no segment holds gives a neighbour.
FindSegmentIndex(seg, n, offset) ==
  LET search[low \in 1..(n + 1), high \in 0..n] ==
        IF low > high THEN Higher(1, Lower(low, n))
        ELSE LET p == Probe(seg, offset, low, high)
             IN IF p.found > 0 THEN p.found ELSE search[p.low, p.high]
  IN search[1, n]

\* A round of readManifestWindow takes from the article of a segment what the
\* window still lacks.
Taken(segment, cursor, missing) ==
  [segmentOffset |-> segment.source + Higher(0, cursor - segment.start),
   length |-> Lower(missing, segment.end - cursor + 1)]

\* The rounds, when every article is as long as its segment says.
WindowRounds(seg, n, size, start, length) ==
  LET rounds[i \in 1..(n + 1), cursor \in Nat, missing \in Nat] ==
        IF missing = 0 \/ i > n THEN << >>
        ELSE IF cursor > seg[i].end THEN rounds[i + 1, cursor, missing]
        ELSE LET t == Taken(seg[i], cursor, missing)
             IN <<[at |-> i, segmentOffset |-> t.segmentOffset, length |-> t.length]>>
                  \o rounds[i + 1, cursor + t.length, missing - t.length]
  IN IF length <= 0 \/ start >= size THEN << >>
     ELSE rounds[FindSegmentIndex(seg, n, start), start, Lower(length, size - start)]

\* shrinkManifestSegment: an article turned out to hold fewer bytes than the
\* layout says; its segment is cut, and what follows moves towards the start.
Cut(segment, actual) ==
  [start |-> segment.start, end |-> segment.start + actual - 1, source |-> segment.source]
Moved(segment, delta) ==
  [start |-> segment.start - delta, end |-> segment.end - delta, source |-> segment.source]
Shrunk(seg, n, i, bytes, actual) ==
  IF actual <= 0 \/ actual >= bytes THEN seg
  ELSE [j \in 1..n |-> CASE j < i -> seg[j]
                         [] j = i -> Cut(seg[j], actual)
                         [] j > i -> Moved(seg[j], bytes - actual)]

-----------------------------------------------------------------------------
\* The byte of the file that byte k of an article is, when the article is that
\* of a segment.
ByteAt(segment, k) == segment.start + (k - segment.source)
=============================================================================
