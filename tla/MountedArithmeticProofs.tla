---------------------- MODULE MountedArithmeticProofs ----------------------
(***************************************************************************)
(* What the arithmetic of mounted streaming promises, for files, layouts,  *)
(* ranges and policies of any size: RangePlanner and Bandwidth.            *)
(***************************************************************************)
EXTENDS RangePlanner, Bandwidth, WellFoundedInduction, TLAPS

\* A set of numbers has a least one.
LEMMA LeastNumber ==
  ASSUME NEW S \in SUBSET Nat, S # {}
  PROVE  \E m \in S : \A k \in S : m <= k
<1> DEFINE R == {ss \in Nat \X Nat : ss[1] < ss[2]}
<1>1. IsWellFoundedOn(R, Nat)
  BY NatLessThanWellFounded DEF OpToRel
<1>2. PICK m \in S : \A k \in S : ~(<<k, m>> \in R)
  BY <1>1, WFMin
<1>3. ASSUME NEW k \in S, k < m PROVE FALSE
  <2>1. <<k, m>> \in Nat \X Nat
    OBVIOUS
  <2>2. <<k, m>> \in R
    BY <1>3, <2>1
  <2> QED BY <1>2, <2>2
<1> QED BY <1>3

-----------------------------------------------------------------------------
\* Ranges of a file (normalizeRange).

\* A header that is accepted names bytes of the file.
THEOREM RangeWithinFile ==
  ASSUME NEW size \in Nat \ {0}, NEW header \in Header, NormalizeRange(header, size) # NoRange
  PROVE  LET r == NormalizeRange(header, size)
         IN  0 <= r.start /\ r.start <= r.end /\ r.end <= size - 1
<1>1. CASE header = [kind |-> "none"]
  BY <1>1 DEF NormalizeRange
<1>2. CASE header \in [kind : {"suffix", "from"}, at : Nat]
  BY <1>2 DEF NormalizeRange, Higher
<1>3. CASE header \in [kind : {"between"}, at : Nat, to : Nat]
  BY <1>3 DEF NormalizeRange, Lower
<1> QED BY <1>1, <1>2, <1>3 DEF Header

-----------------------------------------------------------------------------
\* Layouts.

\* Segments of a contiguous layout follow one another, however far apart.
LEMMA Ascending ==
  ASSUME NEW n \in Nat, NEW seg \in [1..n -> ManifestSegment], NEW first \in Nat, NEW last \in Nat,
         Contiguous(seg, n, first, last), NEW i \in 1..n, NEW j \in 1..n, i < j
  PROVE  seg[i].end < seg[j].start
<1> DEFINE Bad == {m \in 1..n : i < m /\ ~(seg[i].end < seg[m].start)}
<1>0. \A m \in 1..n : seg[m].start \in Nat /\ seg[m].end \in Nat
  BY DEF ManifestSegment
<1> SUFFICES ASSUME Bad # {} PROVE FALSE
  OBVIOUS
<1>1. PICK m \in Bad : \A k \in Bad : m <= k
  <2>1. Bad \in SUBSET Nat
    OBVIOUS
  <2> HIDE DEF Bad
  <2> QED BY <2>1, LeastNumber
<1>2. m \in 2..n /\ seg[m].start = seg[m - 1].end + 1 /\ seg[m - 1].start <= seg[m - 1].end
  <2>1. m \in 2..n /\ m - 1 \in 1..(n - 1)
    OBVIOUS
  <2> QED BY <2>1 DEF Contiguous
<1>3. CASE m - 1 = i
  BY <1>0, <1>2, <1>3
<1>4. CASE m - 1 # i
  <2>1. m - 1 \in 1..n /\ i < m - 1 /\ m - 1 \notin Bad
    BY <1>1, <1>2, <1>4
  <2>2. seg[i].end < seg[m - 1].start
    BY <2>1
  <2> QED BY <1>0, <1>2, <2>1, <2>2
<1> QED BY <1>3, <1>4

\* Every byte of a contiguous layout is in a segment.
LEMMA Covered ==
  ASSUME NEW n \in Nat, NEW seg \in [1..n -> ManifestSegment], NEW first \in Nat, NEW last \in Nat,
         Contiguous(seg, n, first, last), NEW b \in first..last
  PROVE  \E i \in 1..n : seg[i].start <= b /\ b <= seg[i].end
<1> DEFINE Reach == {i \in 1..n : b <= seg[i].end}
<1>0. \A m \in 1..n : seg[m].start \in Nat /\ seg[m].end \in Nat
  BY DEF ManifestSegment
<1>1. n \in Reach
  BY DEF Contiguous
<1>2. PICK m \in Reach : \A k \in Reach : m <= k
  <2>1. Reach \in SUBSET Nat /\ Reach # {}
    BY <1>1
  <2> HIDE DEF Reach
  <2> QED BY <2>1, LeastNumber
<1>3. CASE m = 1
  BY <1>3 DEF Contiguous
<1>4. CASE m # 1
  <2>1. m - 1 \in 1..(n - 1) /\ m - 1 \in 1..n /\ m - 1 \notin Reach
    BY <1>2, <1>4
  <2>2. seg[m].start = seg[m - 1].end + 1
    BY <2>1 DEF Contiguous
  <2> QED BY <1>0, <2>1, <2>2
<1> QED BY <1>3, <1>4

\* The parts of a regular post: a contiguous layout of the whole file when
\* there is an article for every part.
THEOREM PartsContiguous ==
  ASSUME NEW articles \in Nat, NEW p \in Nat \ {0}, NEW size \in Nat \ {0}, articles * p >= size
  PROVE  Contiguous(PartLayout(articles, p, size), PartCount(articles, p, size), 0, size - 1)
<1> DEFINE c == (size + p - 1) \div p
           n == PartCount(articles, p, size)
           seg == PartLayout(articles, p, size)
<1>1. c \in Nat /\ c * p >= size /\ (c - 1) * p < size
  <2>1. c \in Int /\ c * p <= size + p - 1 /\ size + p - 1 < c * p + p
    OBVIOUS
  <2>2. (c - 1) * p = c * p - p
    BY <2>1
  <2>3. c > 0
    BY <2>1
  <2> QED BY <2>1, <2>2, <2>3
<1> HIDE DEF c
<1>2. c <= articles
  <2> SUFFICES ASSUME c > articles PROVE FALSE
    BY <1>1
  <2>1. articles <= c - 1
    BY <1>1
  <2>2. articles * p <= (c - 1) * p
    BY <1>1, <2>1
  <2> QED BY <1>1, <2>2
<1>3. n = c /\ c > 0
  BY <1>1, <1>2 DEF PartCount, Lower, c
<1>4. ASSUME NEW i \in 1..n
      PROVE  /\ seg[i].start = (i - 1) * p /\ (i - 1) * p \in Nat
             /\ seg[i].end \in Nat /\ seg[i].start <= seg[i].end
             /\ i * p \in Nat
             /\ (i < n => seg[i].end = i * p - 1)
             /\ (i = n => seg[i].end = size - 1)
  <2> DEFINE s == (i - 1) * p
  <2>1. seg[i] = [start |-> s, end |-> s + Lower(p, size - s) - 1, source |-> 0]
    BY DEF PartLayout, Part
  <2>2. s \in Nat /\ i * p = s + p
    OBVIOUS
  <2>3. s <= (c - 1) * p
    BY <1>1, <1>3
  <2>4. i < n => i * p <= (c - 1) * p
    BY <1>1, <1>3
  <2>5. i = n => i * p >= size
    BY <1>1, <1>3
  <2>6. (c - 1) * p \in Int /\ c * p \in Int
    BY <1>1
  <2>7. s < size /\ (i < n => s + p < size) /\ (i = n => s + p >= size)
    BY <1>1, <2>2, <2>3, <2>4, <2>5, <2>6
  <2> HIDE DEF s, seg
  <2>8. seg[i].start = s /\ seg[i].end = s + Lower(p, size - s) - 1
    BY <2>1
  <2>9. /\ seg[i].start = s /\ s \in Nat /\ seg[i].end \in Nat /\ seg[i].start <= seg[i].end
        /\ i * p \in Nat
        /\ (i < n => seg[i].end = i * p - 1)
        /\ (i = n => seg[i].end = size - 1)
    BY <2>2, <2>7, <2>8 DEF Lower
  <2> QED BY <2>9 DEF s
<1>5. n \in Nat /\ n > 0
  BY <1>1, <1>3
<1> HIDE DEF n, seg
<1>6. seg[1].start = 0 /\ seg[n].end = size - 1
  BY <1>4, <1>5
<1>7. \A i \in 1..n : seg[i].start <= seg[i].end
  BY <1>4
<1>8. ASSUME NEW i \in 1..(n - 1) PROVE seg[i + 1].start = seg[i].end + 1
  <2>1. i \in 1..n /\ i + 1 \in 1..n /\ i < n /\ (i + 1) - 1 = i
    BY <1>5
  <2>2. seg[i].end = i * p - 1 /\ i * p \in Nat
    BY <1>4, <2>1
  <2>3. seg[i + 1].start = ((i + 1) - 1) * p
    BY <1>4, <2>1
  <2> QED BY <2>1, <2>2, <2>3
<1>9. Contiguous(seg, n, 0, size - 1)
  BY <1>5, <1>6, <1>7, <1>8 DEF Contiguous
<1> QED BY <1>9 DEF n, seg

-----------------------------------------------------------------------------
\* The plan of a range (planMountedFileRange).

\* The loop picks the segments that share a byte with the range, and no other.
LEMMA Picked ==
  ASSUME NEW n \in Nat, NEW seg \in [1..n -> ManifestSegment], NEW first \in Nat, NEW last \in Nat,
         Contiguous(seg, n, first, last), NEW lo \in Nat, NEW hi \in Nat, NEW i \in 1..n
  PROVE  i \in Overlapping(seg, n, lo, hi) <=> seg[i].end >= lo /\ seg[i].start <= hi
<1>0. \A m \in 1..n : seg[m].start \in Nat /\ seg[m].end \in Nat /\ seg[m].start <= seg[m].end
  BY DEF ManifestSegment, Contiguous
<1>1. ASSUME seg[i].end >= lo, seg[i].start <= hi, NEW j \in 1..i PROVE seg[j].start <= hi
  <2>1. j \in 1..n
    OBVIOUS
  <2>2. j = i \/ seg[j].end < seg[i].start
    BY <2>1, Ascending
  <2> QED BY <1>0, <1>1, <2>1, <2>2
<1>2. ASSUME i \in Overlapping(seg, n, lo, hi) PROVE seg[i].start <= hi
  BY <1>0, <1>2 DEF Overlapping
<1> QED BY <1>1, <1>2 DEF Overlapping

\* For every range of every contiguous file the slices of the plan are the
\* bytes of the range: each byte is in one, a later segment's slice begins
\* after an earlier one's end, none is empty or leaves the range, and each
\* stays within the bytes of its article that belong to the file and begins
\* with the byte it says.
THEOREM PlannedExactly ==
  ASSUME NEW n \in Nat, NEW seg \in [1..n -> ManifestSegment], NEW first \in Nat, NEW last \in Nat,
         Contiguous(seg, n, first, last),
         NEW lo \in first..last, NEW hi \in lo..last
  PROVE  LET picked == Overlapping(seg, n, lo, hi)
             slice(i) == Slice(seg[i], lo, hi)
         IN  /\ \A b \in lo..hi : \E i \in picked :
                  slice(i).readOffset <= b /\ b < slice(i).readOffset + slice(i).length
             /\ \A i, j \in picked : i < j => slice(i).readOffset + slice(i).length <= slice(j).readOffset
             /\ \A i \in picked :
                  /\ slice(i).length > 0
                  /\ lo <= slice(i).readOffset /\ slice(i).readOffset + slice(i).length <= hi + 1
                  /\ seg[i].source <= slice(i).segmentOffset
                  /\ slice(i).segmentOffset + slice(i).length <= seg[i].source + (seg[i].end - seg[i].start) + 1
                  /\ ByteAt(seg[i], slice(i).segmentOffset) = slice(i).readOffset
<1> DEFINE picked == Overlapping(seg, n, lo, hi)
           slice(i) == Slice(seg[i], lo, hi)
<1>0. /\ lo \in Nat /\ hi \in Nat /\ lo <= hi /\ first <= lo /\ hi <= last
      /\ \A m \in 1..n : /\ seg[m].start \in Nat /\ seg[m].end \in Nat /\ seg[m].source \in Nat
                         /\ seg[m].start <= seg[m].end
  BY DEF ManifestSegment, Contiguous
<1>1. \A i \in 1..n : i \in picked <=> seg[i].end >= lo /\ seg[i].start <= hi
  BY <1>0, Picked
<1>2. picked \subseteq 1..n
  BY DEF Overlapping
<1>3. \A i \in 1..n :
        /\ slice(i).readOffset = Higher(lo, seg[i].start)
        /\ slice(i).segmentOffset = seg[i].source + (Higher(lo, seg[i].start) - seg[i].start)
        /\ slice(i).length = Lower(hi, seg[i].end) - Higher(lo, seg[i].start) + 1
  BY DEF Slice, From, To
<1> HIDE DEF picked, slice
<1>4. ASSUME NEW b \in lo..hi
      PROVE  \E i \in picked : slice(i).readOffset <= b /\ b < slice(i).readOffset + slice(i).length
  <2>1. b \in first..last
    BY <1>0
  <2>2. PICK i \in 1..n : seg[i].start <= b /\ b <= seg[i].end
    BY <2>1, Covered
  <2>3. i \in picked
    BY <1>0, <1>1, <2>2
  <2>4. seg[i].start \in Nat /\ seg[i].end \in Nat
    BY <1>0
  <2>5. /\ slice(i).readOffset = Higher(lo, seg[i].start)
        /\ slice(i).length = Lower(hi, seg[i].end) - Higher(lo, seg[i].start) + 1
    BY <1>3
  <2>6. Higher(lo, seg[i].start) \in lo..b /\ Lower(hi, seg[i].end) \in b..hi
    BY <1>0, <2>2, <2>4 DEF Higher, Lower
  <2>7. slice(i).readOffset <= b /\ b < slice(i).readOffset + slice(i).length
    BY <1>0, <2>5, <2>6
  <2> QED BY <2>3, <2>7
<1>5. ASSUME NEW i \in picked, NEW j \in picked, i < j
      PROVE  slice(i).readOffset + slice(i).length <= slice(j).readOffset
  <2>1. i \in 1..n /\ j \in 1..n
    BY <1>2
  <2>2. seg[i].end < seg[j].start
    BY <1>5, <2>1, Ascending
  <2>3. /\ slice(i).readOffset = Higher(lo, seg[i].start)
        /\ slice(i).length = Lower(hi, seg[i].end) - Higher(lo, seg[i].start) + 1
        /\ slice(j).readOffset = Higher(lo, seg[j].start)
    BY <1>3, <2>1
  <2> DEFINE si == seg[i].start
             ei == seg[i].end
             sj == seg[j].start
  <2>4. si \in Nat /\ ei \in Nat /\ sj \in Nat /\ ei < sj
    BY <1>0, <2>1, <2>2
  <2> HIDE DEF si, ei, sj
  <2>5. Higher(lo, si) + (Lower(hi, ei) - Higher(lo, si) + 1) <= Higher(lo, sj)
    BY <1>0, <2>4 DEF Higher, Lower
  <2> QED BY <2>3, <2>5 DEF si, ei, sj
<1>6. ASSUME NEW i \in picked
      PROVE  /\ slice(i).length > 0
             /\ lo <= slice(i).readOffset /\ slice(i).readOffset + slice(i).length <= hi + 1
             /\ seg[i].source <= slice(i).segmentOffset
             /\ slice(i).segmentOffset + slice(i).length <= seg[i].source + (seg[i].end - seg[i].start) + 1
             /\ ByteAt(seg[i], slice(i).segmentOffset) = slice(i).readOffset
  <2>1. i \in 1..n
    BY <1>2
  <2>2. seg[i].end >= lo /\ seg[i].start <= hi
    BY <1>1, <2>1
  <2>3. ByteAt(seg[i], slice(i).segmentOffset) = seg[i].start + (slice(i).segmentOffset - seg[i].source)
    BY DEF ByteAt
  <2>4. seg[i].start \in Nat /\ seg[i].end \in Nat /\ seg[i].source \in Nat /\ seg[i].start <= seg[i].end
    BY <1>0, <2>1
  <2>5. /\ slice(i).readOffset = Higher(lo, seg[i].start)
        /\ slice(i).segmentOffset = seg[i].source + (Higher(lo, seg[i].start) - seg[i].start)
        /\ slice(i).length = Lower(hi, seg[i].end) - Higher(lo, seg[i].start) + 1
    BY <1>3, <2>1
  <2>6. /\ Higher(lo, seg[i].start) \in Nat /\ Lower(hi, seg[i].end) \in Nat
        /\ lo <= Higher(lo, seg[i].start) /\ seg[i].start <= Higher(lo, seg[i].start)
        /\ Lower(hi, seg[i].end) <= hi /\ Lower(hi, seg[i].end) <= seg[i].end
        /\ Higher(lo, seg[i].start) <= Lower(hi, seg[i].end)
    BY <1>0, <2>2, <2>4 DEF Higher, Lower
  <2> DEFINE s == seg[i].start
             e == seg[i].end
             src == seg[i].source
             from == Higher(lo, seg[i].start)
             to == Lower(hi, seg[i].end)
             read == slice(i).readOffset
             off == slice(i).segmentOffset
             len == slice(i).length
             byte == ByteAt(seg[i], slice(i).segmentOffset)
  <2>7. s \in Nat /\ e \in Nat /\ src \in Nat /\ from \in Nat /\ to \in Nat
    BY <2>4, <2>6
  <2>8. lo <= from /\ s <= from /\ to <= hi /\ to <= e /\ from <= to
    BY <2>6
  <2>9. read = from /\ off = src + (from - s) /\ len = to - from + 1 /\ byte = s + (off - src)
    BY <2>3, <2>5
  <2> HIDE DEF s, e, src, from, to, read, off, len, byte
  <2>10. len > 0 /\ lo <= read /\ read + len <= hi + 1
    BY <1>0, <2>7, <2>8, <2>9
  <2>11. src <= off /\ off + len <= src + (e - s) + 1 /\ byte = read
    BY <2>7, <2>8, <2>9
  <2> QED BY <2>10, <2>11 DEF s, e, src, read, off, len, byte
<1> QED BY <1>4, <1>5, <1>6 DEF picked, slice

\* A volume of a stored archive (buildVirtualSegments): a byte of the entry
\* that is read through a virtual segment is the byte of the volume that lies
\* as far behind dataStart as the entry's byte lies behind entryStart, and the
\* virtual segments of the volume have no gap or overlap.
THEOREM VolumeMapped ==
  ASSUME NEW n \in Nat, NEW seg \in [1..n -> ManifestSegment], NEW first \in Nat, NEW last \in Nat,
         Contiguous(seg, n, first, last), \A i \in 1..n : seg[i].source = 0,
         NEW dataStart \in first..last, NEW byteCount \in Nat \ {0}, dataStart + byteCount - 1 <= last,
         NEW entryStart \in Nat
  PROVE  LET picked == Overlapping(seg, n, dataStart, dataStart + byteCount - 1)
             virtual(i) == Virtual(seg[i], dataStart, byteCount, entryStart)
         IN  /\ \A i \in picked, lo \in Nat, k \in Nat :
                  lo <= virtual(i).end /\ k < Slice(virtual(i), lo, virtual(i).end).length =>
                    ByteAt(seg[i], Slice(virtual(i), lo, virtual(i).end).segmentOffset + k)
                      = dataStart + (Slice(virtual(i), lo, virtual(i).end).readOffset + k - entryStart)
             /\ \A e \in entryStart..(entryStart + byteCount - 1) : \E i \in picked :
                  virtual(i).start <= e /\ e <= virtual(i).end
             /\ \A i, j \in picked : i < j => virtual(i).end < virtual(j).start
<1> DEFINE sourceEnd == dataStart + byteCount - 1
           picked == Overlapping(seg, n, dataStart, sourceEnd)
           virtual(i) == Virtual(seg[i], dataStart, byteCount, entryStart)
<1>0. /\ dataStart \in Nat /\ first <= dataStart /\ sourceEnd \in Nat /\ dataStart <= sourceEnd /\ sourceEnd <= last
      /\ \A m \in 1..n : /\ seg[m].start \in Nat /\ seg[m].end \in Nat /\ seg[m].source = 0
                         /\ seg[m].start <= seg[m].end
  BY DEF ManifestSegment, Contiguous
<1>1. \A i \in 1..n : i \in picked <=> seg[i].end >= dataStart /\ seg[i].start <= sourceEnd
  BY <1>0, Picked
<1>2. picked \subseteq 1..n
  BY DEF Overlapping
<1>3. \A i \in 1..n :
        /\ virtual(i).start = entryStart + (Higher(dataStart, seg[i].start) - dataStart)
        /\ virtual(i).end = entryStart + (Lower(sourceEnd, seg[i].end) - dataStart)
        /\ virtual(i).source = Higher(dataStart, seg[i].start) - seg[i].start
  <2>1. ASSUME NEW i \in 1..n
        PROVE  /\ virtual(i).start = entryStart + (Higher(dataStart, seg[i].start) - dataStart)
               /\ virtual(i).end = entryStart + (Higher(dataStart, seg[i].start) - dataStart)
                                     + (Lower(sourceEnd, seg[i].end) - Higher(dataStart, seg[i].start))
               /\ virtual(i).source = Higher(dataStart, seg[i].start) - seg[i].start
    BY DEF Virtual, From, To
  <2> QED BY <1>0, <2>1 DEF Higher, Lower
<1> HIDE DEF virtual
<1>4. ASSUME NEW i \in picked, NEW lo \in Nat, NEW k \in Nat, lo <= virtual(i).end,
             k < Slice(virtual(i), lo, virtual(i).end).length
      PROVE  ByteAt(seg[i], Slice(virtual(i), lo, virtual(i).end).segmentOffset + k)
               = dataStart + (Slice(virtual(i), lo, virtual(i).end).readOffset + k - entryStart)
  <2>1. i \in 1..n /\ seg[i].end >= dataStart /\ seg[i].start <= sourceEnd
    BY <1>1, <1>2
  <2>2. /\ Slice(virtual(i), lo, virtual(i).end).readOffset = Higher(lo, virtual(i).start)
        /\ Slice(virtual(i), lo, virtual(i).end).segmentOffset
             = virtual(i).source + (Higher(lo, virtual(i).start) - virtual(i).start)
    BY DEF Slice, From
  <2> DEFINE offset == Slice(virtual(i), lo, virtual(i).end).segmentOffset
  <2> HIDE DEF offset
  <2>3. seg[i].start \in Nat /\ seg[i].source = 0
    BY <1>0, <2>1
  <2>4. ByteAt(seg[i], offset + k) = seg[i].start + ((offset + k) - seg[i].source)
    BY DEF ByteAt
  <2>5. Higher(dataStart, seg[i].start) \in Nat
    BY <1>0, <2>3 DEF Higher
  <2>6. /\ virtual(i).start = entryStart + (Higher(dataStart, seg[i].start) - dataStart)
        /\ virtual(i).source = Higher(dataStart, seg[i].start) - seg[i].start
    BY <1>3, <2>1
  <2>7. Higher(lo, virtual(i).start) \in Int
    BY <1>0, <2>5, <2>6 DEF Higher
  <2>8. offset = virtual(i).source + (Higher(lo, virtual(i).start) - virtual(i).start)
    BY <2>2 DEF offset
  <2>9. virtual(i).start \in Int /\ virtual(i).source \in Int /\ offset \in Int /\ dataStart \in Nat
    <3>1. virtual(i).start \in Int /\ dataStart \in Nat
      BY <1>0, <2>5, <2>6
    <3>2. virtual(i).source \in Int
      BY <2>3, <2>5, <2>6
    <3> QED BY <2>7, <2>8, <3>1, <3>2
  <2>10. virtual(i).source + seg[i].start = dataStart + virtual(i).start - entryStart
    <3> DEFINE v == virtual(i).start
               src == virtual(i).source
               g == seg[i].start
               from == Higher(dataStart, seg[i].start)
    <3>1. v = entryStart + (from - dataStart) /\ src = from - g /\ from \in Nat /\ g \in Nat
      BY <2>3, <2>5, <2>6
    <3> HIDE DEF v, src, g, from
    <3>2. src + g = dataStart + v - entryStart
      BY <1>0, <3>1
    <3> QED BY <3>2 DEF v, src, g
  <2>11. ByteAt(seg[i], offset + k) = dataStart + (Higher(lo, virtual(i).start) + k - entryStart)
    <3> DEFINE h == Higher(lo, virtual(i).start)
               v == virtual(i).start
               src == virtual(i).source
               g == seg[i].start
    <3>1. h \in Int /\ v \in Int /\ src \in Int /\ g \in Int /\ offset \in Int
      BY <2>3, <2>7, <2>9
    <3>2. offset = src + (h - v) /\ src + g = dataStart + v - entryStart
      BY <2>8, <2>10
    <3>3. ByteAt(seg[i], offset + k) = g + ((offset + k) - 0)
      BY <2>3, <2>4
    <3> HIDE DEF h, v, src, g
    <3>4. g + ((offset + k) - 0) = dataStart + (h + k - entryStart)
      BY <1>0, <3>1, <3>2
    <3>5. ByteAt(seg[i], offset + k) = dataStart + (h + k - entryStart)
      BY <3>3, <3>4
    <3> QED BY <3>5 DEF h
  <2> QED BY <2>2, <2>11 DEF offset
<1>5. ASSUME NEW e \in entryStart..(entryStart + byteCount - 1)
      PROVE  \E i \in picked : virtual(i).start <= e /\ e <= virtual(i).end
  <2> DEFINE b == dataStart + (e - entryStart)
  <2>1. b \in first..last /\ dataStart <= b /\ b <= sourceEnd
    BY <1>0
  <2>2. PICK i \in 1..n : seg[i].start <= b /\ b <= seg[i].end
    BY <2>1, Covered
  <2>3. i \in picked
    BY <1>0, <1>1, <2>1, <2>2
  <2>4. virtual(i).start <= e /\ e <= virtual(i).end
    <3> DEFINE si == seg[i].start
               ei == seg[i].end
    <3>1. /\ virtual(i).start = entryStart + (Higher(dataStart, si) - dataStart)
          /\ virtual(i).end = entryStart + (Lower(sourceEnd, ei) - dataStart)
      BY <1>3
    <3>2. /\ si \in Nat /\ ei \in Nat /\ b \in Nat /\ e \in Nat
          /\ si <= b /\ b <= ei /\ e = entryStart + (b - dataStart)
      BY <1>0, <2>1, <2>2
    <3> HIDE DEF si, ei, b, sourceEnd
    <3>3. Higher(dataStart, si) \in dataStart..b /\ Lower(sourceEnd, ei) \in b..sourceEnd
      BY <1>0, <2>1, <3>2 DEF Higher, Lower
    <3> QED BY <1>0, <3>1, <3>2, <3>3
  <2> QED BY <2>3, <2>4
<1>6. ASSUME NEW i \in picked, NEW j \in picked, i < j PROVE virtual(i).end < virtual(j).start
  <2>1. i \in 1..n /\ j \in 1..n /\ seg[i].start <= sourceEnd /\ seg[j].start <= sourceEnd
    BY <1>1, <1>2
  <2>2. seg[i].end < seg[j].start
    BY <1>6, <2>1, Ascending
  <2> DEFINE ei == seg[i].end
             sj == seg[j].start
  <2>3. /\ virtual(i).end = entryStart + (Lower(sourceEnd, ei) - dataStart)
        /\ virtual(j).start = entryStart + (Higher(dataStart, sj) - dataStart)
    BY <1>3, <2>1
  <2>4. ei \in Nat /\ sj \in Nat /\ ei < sj /\ sj <= sourceEnd
    BY <1>0, <2>1, <2>2
  <2> HIDE DEF ei, sj, sourceEnd
  <2>5. Lower(sourceEnd, ei) \in Nat /\ Higher(dataStart, sj) \in Nat /\ Lower(sourceEnd, ei) < Higher(dataStart, sj)
    BY <1>0, <2>4 DEF Higher, Lower
  <2> QED BY <1>0, <2>3, <2>5
<1> QED BY <1>4, <1>5, <1>6 DEF virtual

-----------------------------------------------------------------------------
\* Reading by position (findSegmentIndex, readManifestWindow).

\* A round of the binary search either finds the segment of the offset or
\* keeps it among fewer segments: the search ends, and with that segment.
THEOREM ProbeKeeps ==
  ASSUME NEW n \in Nat, NEW seg \in [1..n -> ManifestSegment], NEW first \in Nat, NEW last \in Nat,
         Contiguous(seg, n, first, last),
         NEW low \in 1..n, NEW high \in low..n, NEW t \in low..high,
         NEW offset \in seg[t].start..seg[t].end
  PROVE  LET p == Probe(seg, offset, low, high)
         IN  \/ p.found = t
             \/ p.found = 0 /\ t \in p.low..p.high /\ p.high - p.low < high - low
<1> DEFINE mid == (low + high) \div 2
<1>0. \A m \in 1..n : seg[m].start \in Nat /\ seg[m].end \in Nat /\ seg[m].start <= seg[m].end
  BY DEF ManifestSegment, Contiguous
<1>1. mid \in low..high /\ mid \in 1..n /\ t \in 1..n
  OBVIOUS
<1>2. t < mid => seg[t].end < seg[mid].start
  BY <1>1, Ascending
<1>3. mid < t => seg[mid].end < seg[t].start
  BY <1>1, Ascending
<1>4. /\ seg[mid].start \in Nat /\ seg[mid].end \in Nat /\ seg[mid].start <= seg[mid].end
      /\ seg[t].start \in Nat /\ seg[t].end \in Nat
  BY <1>0, <1>1
<1>5. Probe(seg, offset, low, high) =
        CASE offset < seg[mid].start -> [low |-> low, high |-> mid - 1, found |-> 0]
          [] offset >= seg[mid].start /\ offset > seg[mid].end -> [low |-> mid + 1, high |-> high, found |-> 0]
          [] OTHER -> [low |-> low, high |-> high, found |-> mid]
  BY DEF Probe
<1> HIDE DEF mid
<1>6. CASE offset < seg[mid].start
  <2>1. Probe(seg, offset, low, high) = [low |-> low, high |-> mid - 1, found |-> 0]
    BY <1>4, <1>5, <1>6
  <2>2. t < mid
    BY <1>1, <1>3, <1>4, <1>6
  <2> QED BY <1>1, <2>1, <2>2
<1>7. CASE offset >= seg[mid].start /\ offset > seg[mid].end
  <2>1. Probe(seg, offset, low, high) = [low |-> mid + 1, high |-> high, found |-> 0]
    BY <1>4, <1>5, <1>7
  <2>2. mid < t
    BY <1>1, <1>2, <1>4, <1>7
  <2> QED BY <1>1, <2>1, <2>2
<1>8. CASE offset >= seg[mid].start /\ offset <= seg[mid].end
  <2>1. Probe(seg, offset, low, high) = [low |-> low, high |-> high, found |-> mid]
    BY <1>4, <1>5, <1>8
  <2>2. t = mid
    BY <1>1, <1>2, <1>3, <1>4, <1>8
  <2> QED BY <2>1, <2>2
<1> QED BY <1>4, <1>6, <1>7, <1>8

\* A round of the window begins with the byte at the cursor, stays within the
\* bytes of the article that belong to the file, and either fills the window or
\* leaves the cursor at the byte after the segment.
THEOREM WindowRound ==
  ASSUME NEW segment \in ManifestSegment, NEW cursor \in segment.start..segment.end,
         NEW missing \in Nat \ {0}
  PROVE  LET t == Taken(segment, cursor, missing)
         IN  /\ ByteAt(segment, t.segmentOffset) = cursor
             /\ 0 < t.length /\ t.length <= missing
             /\ t.segmentOffset + t.length <= segment.source + (segment.end - segment.start) + 1
             /\ t.length = missing \/ cursor + t.length = segment.end + 1
<1>1. segment.start \in Nat /\ segment.end \in Nat /\ segment.source \in Nat
  BY DEF ManifestSegment
<1> QED BY <1>1 DEF Taken, ByteAt, Higher, Lower

\* A layout stays contiguous when an article turns out shorter than its
\* segment, provided the segment is the whole article: what follows moves up by
\* what is missing.
THEOREM ShrunkContiguous ==
  ASSUME NEW n \in Nat, NEW seg \in [1..n -> ManifestSegment], NEW first \in Nat, NEW last \in Nat,
         Contiguous(seg, n, first, last), NEW i \in 1..n, NEW bytes \in Nat,
         bytes = seg[i].end - seg[i].start + 1, NEW actual \in 1..(bytes - 1)
  PROVE  /\ Shrunk(seg, n, i, bytes, actual) \in [1..n -> ManifestSegment]
         /\ Contiguous(Shrunk(seg, n, i, bytes, actual), n, first, last - (bytes - actual))
<1> DEFINE d == bytes - actual
           new == Shrunk(seg, n, i, bytes, actual)
<1>0. \A m \in 1..n : /\ seg[m].start \in Nat /\ seg[m].end \in Nat /\ seg[m].source \in Nat
                      /\ seg[m].start <= seg[m].end
  BY DEF ManifestSegment, Contiguous
<1>1. \A m \in 1..n : i < m => seg[i].end < seg[m].start
  BY Ascending
<1>2. /\ d \in Nat /\ d > 0 /\ d = bytes - actual /\ actual \in Nat /\ actual > 0 /\ actual < bytes
  OBVIOUS
<1>3. new = [j \in 1..n |-> CASE j < i -> seg[j] [] j = i -> Cut(seg[j], actual) [] j > i -> Moved(seg[j], d)]
  <2>1. ~(actual <= 0 \/ actual >= bytes)
    BY <1>2
  <2> QED BY <2>1, Zenon DEF Shrunk
<1> HIDE DEF d, new
<1>4. seg[i].start + actual - 1 = seg[i].end - d /\ d <= seg[i].end /\ seg[i].start <= seg[i].end - d
  <2>1. PICK s \in Nat, e \in Nat, missing \in Nat : s = seg[i].start /\ e = seg[i].end /\ missing = d
    BY <1>0, <1>2
  <2>2. bytes = e - s + 1 /\ missing = bytes - actual
    BY <1>2, <2>1
  <2>3. s + actual - 1 = e - missing /\ missing <= e /\ s <= e - missing
    BY <1>2, <2>2
  <2> QED BY <2>1, <2>3
<1>5. \A m \in 1..n : m < i => new[m] = seg[m]
  BY <1>3
<1>6. new[i].start = seg[i].start /\ new[i].end = seg[i].end - d /\ new[i] \in ManifestSegment
  <2>1. new[i] = [start |-> seg[i].start, end |-> seg[i].start + actual - 1, source |-> seg[i].source]
    BY <1>3 DEF Cut
  <2>2. seg[i].end - d \in Nat
    BY <1>0, <1>2, <1>4
  <2>3. seg[i].start + actual - 1 \in Nat
    BY <1>4, <2>2
  <2>4. new[i].start = seg[i].start /\ new[i].end = seg[i].start + actual - 1
    BY <2>1
  <2>5. new[i] \in ManifestSegment
    BY <1>0, <2>1, <2>3 DEF ManifestSegment
  <2> QED BY <1>4, <2>4, <2>5
<1>7. ASSUME NEW m \in 1..n, m > i
      PROVE  new[m].start = seg[m].start - d /\ new[m].end = seg[m].end - d /\ new[m] \in ManifestSegment
  <2>1. new[m] = [start |-> seg[m].start - d, end |-> seg[m].end - d, source |-> seg[m].source]
    BY <1>3, <1>7 DEF Moved
  <2>2. seg[i].end < seg[m].start /\ seg[m].start <= seg[m].end
    BY <1>0, <1>1, <1>7
  <2> DEFINE s == seg[m].start
             e == seg[m].end
             f == seg[i].end
  <2>3. s \in Nat /\ e \in Nat /\ f \in Nat /\ f < s /\ s <= e /\ d <= f
    BY <1>0, <1>4, <2>2
  <2> HIDE DEF s, e, f
  <2>4. s - d \in Nat /\ e - d \in Nat
    BY <1>2, <2>3
  <2>5. new[m].start = seg[m].start - d /\ new[m].end = seg[m].end - d
    BY <2>1
  <2>6. new[m] \in ManifestSegment
    BY <1>0, <2>1, <2>4 DEF ManifestSegment, s, e
  <2> QED BY <2>5, <2>6
<1>8. \A m \in 1..n : new[m] \in ManifestSegment
  BY <1>5, <1>6, <1>7
<1>9. new \in [1..n -> ManifestSegment]
  BY <1>3, <1>8
<1>10. ASSUME NEW m \in 1..n PROVE new[m].start <= new[m].end
  <2>1. CASE m < i
    BY <1>0, <1>5, <2>1
  <2>2. CASE m = i
    BY <1>4, <1>6, <2>2
  <2>3. CASE m > i
    <3>1. new[m].start = seg[m].start - d /\ new[m].end = seg[m].end - d
      BY <1>7, <2>3
    <3> DEFINE s == seg[m].start
               e == seg[m].end
    <3>2. s \in Nat /\ e \in Nat /\ s <= e
      BY <1>0
    <3> HIDE DEF s, e
    <3>3. s - d <= e - d
      BY <1>2, <3>2
    <3> QED BY <3>1, <3>3 DEF s, e
  <2> QED BY <2>1, <2>2, <2>3
<1>11. ASSUME NEW m \in 1..(n - 1) PROVE new[m + 1].start = new[m].end + 1
  <2>1. m \in 1..n /\ m + 1 \in 1..n /\ seg[m + 1].start = seg[m].end + 1
    BY DEF Contiguous
  <2>2. seg[m].end \in Nat /\ seg[m + 1].start \in Nat
    BY <1>0, <2>1
  <2>3. CASE m + 1 < i
    BY <1>5, <2>1, <2>3
  <2>4. CASE m + 1 = i
    <3>1. new[m] = seg[m]
      BY <1>5, <2>1, <2>4
    <3> QED BY <1>6, <2>1, <2>4, <3>1
  <2>5. CASE m >= i
    <3>1. new[m].end = seg[m].end - d
      BY <1>6, <1>7, <2>1, <2>5
    <3>2. new[m + 1].start = seg[m + 1].start - d
      BY <1>7, <2>1, <2>5
    <3> QED BY <1>2, <2>1, <2>2, <3>1, <3>2
  <2> QED BY <2>1, <2>3, <2>4, <2>5
<1>12. n > 0 /\ seg[1].start = first /\ seg[n].end = last /\ 1 \in 1..n /\ n \in 1..n
  BY DEF Contiguous
<1>13. new[1].start = first
  <2>1. CASE i = 1
    BY <1>6, <1>12, <2>1
  <2>2. CASE i > 1
    BY <1>5, <1>12, <2>2
  <2> QED BY <2>1, <2>2
<1>14. new[n].end = last - d
  <2>1. CASE i = n
    BY <1>6, <1>12, <2>1
  <2>2. CASE i < n
    BY <1>7, <1>12, <2>2
  <2> QED BY <2>1, <2>2
<1>15. Contiguous(new, n, first, last - d)
  BY <1>10, <1>11, <1>12, <1>13, <1>14 DEF Contiguous
<1> QED BY <1>9, <1>15 DEF new, d

-----------------------------------------------------------------------------
\* Shares of the connections.

\* While somebody streams, and the policies leave streams a connection, the
\* pool of the streams gives what the allocation says, at least one connection
\* and never more than the policies promise; and with what the downloads may use
\* (two at most) it stays within the connections there are.
THEOREM StreamsAndDownloadsFit ==
  ASSUME NEW p \in Policies, NEW n \in Nat \ {0}, NEW share \in Shares(p), p.streaming > 0
  PROVE  /\ PoolAllowance(p, n, share) = Streaming(p, n, share)
         /\ 1 <= PoolAllowance(p, n, share) /\ PoolAllowance(p, n, share) <= p.streaming
         /\ Downloads(p, n, share) \in 0..2
         /\ PoolAllowance(p, n, share) + Downloads(p, n, share) <= p.total
<1>1. /\ p.total \in Nat /\ p.total > 0 /\ p.streaming \in Nat /\ p.downloads \in Nat
      /\ p.streaming <= p.total /\ p.downloads <= p.total /\ share \in Nat /\ share <= p.total
  BY DEF Policies, Shares
<1> DEFINE r == Reserved(n, share)
           s == Streaming(p, n, share)
<1>2. r \in Nat /\ r > 0 /\ r <= p.total
  BY <1>1 DEF Reserved, Greater
<1>3. s = Lesser(p.streaming, r)
  BY <1>1, <1>2 DEF Streaming, Clamp, Lesser, Greater
<1>4. PoolAllowance(p, n, share) = Lesser(p.streaming, r)
  BY <1>1, <1>2 DEF PoolAllowance, Clamp, Lesser, Greater
<1> HIDE DEF r
<1>5. s \in Nat /\ 1 <= s /\ s <= p.streaming
  BY <1>1, <1>2, <1>3 DEF Lesser
<1> DEFINE left == Remaining(p, n, share)
           cap == DownloadCap(p, n, share)
<1> HIDE DEF s
<1>6. left = p.total - s /\ left \in Nat
  BY <1>1, <1>5 DEF Remaining, Greater, s
<1>7. cap \in Nat
  BY <1>1, <1>5 DEF DownloadCap, Lesser, Greater, s
<1>8. Downloads(p, n, share) = Clamp(Lesser(2, Lesser(p.downloads, left)), 0, cap)
  BY DEF Downloads
<1> HIDE DEF left, cap
<1>9. Downloads(p, n, share) \in 0..2 /\ Downloads(p, n, share) <= left
  BY <1>1, <1>6, <1>7, <1>8 DEF Clamp, Lesser, Greater
<1>10. PoolAllowance(p, n, share) = s
  BY <1>3, <1>4 DEF s
<1> QED BY <1>1, <1>5, <1>6, <1>9, <1>10 DEF s

\* While nobody streams, the downloads stay within the connections there are
\* and lose none of those they are promised; while the policies allow downloads,
\* they have one.
THEOREM IdleStreamsLend ==
  ASSUME NEW p \in Policies, NEW share \in Shares(p)
  PROVE  /\ Downloads(p, 0, share) \in 0..p.total
         /\ p.downloads <= Downloads(p, 0, share)
<1>1. /\ p.total \in Nat /\ p.total > 0 /\ p.streaming \in Nat /\ p.downloads \in Nat
      /\ p.streaming <= p.total /\ p.downloads <= p.total
  BY DEF Policies
<1>2. Streaming(p, 0, share) = 0
  BY <1>1 DEF Streaming, Reserved, Clamp, Lesser, Greater
<1>3. Remaining(p, 0, share) = p.total
  BY <1>1 DEF Remaining, Greater
<1>4. DownloadCap(p, 0, share) = Lesser(p.total, p.downloads + p.streaming)
  BY <1>1, <1>2 DEF DownloadCap, Greater
<1>5. Maintenance(p) \in {0, 1}
  BY DEF Maintenance
<1> QED BY <1>1, <1>3, <1>4, <1>5 DEF Downloads, Clamp, Lesser, Greater
=============================================================================
