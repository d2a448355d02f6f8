------------------------ MODULE SegmentStreamProofs ------------------------
(***************************************************************************)
(* For every number of slots, readers, segments, chunks and attempts, and  *)
(* whatever consumers, sessions and providers do: the types of             *)
(* SegmentStream, the exclusive use of a slot, the absence of lost         *)
(* wake-ups, the fate of unread connections and the sharing of fetches.    *)
(***************************************************************************)
EXTENDS SegmentStream, FiniteSetTheorems, WellFoundedInduction, TLAPS

\* Where a reader has a slot, where its connection may have an unread rest,
\* and where it is not yet, or no longer, a fetch.
Holding == {"connect", "body", "yielded", "closing", "forgotten", "judge"}
Unread == {"body", "yielded", "closing", "forgotten"}
NoFetch == {"over", "look", "claim", "join"}

\* The invariants need each other and two facts more: a reader that should
\* have a slot has one, and the array of waiters has exactly those that wait,
\* so that a slot is never handed to a reader that was aborted in line.
Flight == \A r \in Reader : reader[r].pc \in Holding => reader[r].slot \in Slot
Line == \A r \in Reader : InLine(r) <=> Waiting(r)

Inv == TypeOK /\ Flight /\ Line /\ SlotExclusive /\ NoLostWakeup /\ NoUnreadReuse /\ SharesLiveFetch

InLineSet == {r \in Reader : InLine(r)}
PlaceOK ==
  /\ place \in [Reader -> 0..Cardinality(InLineSet)]
  /\ \A q, r \in Reader : q # r /\ InLine(q) => place[q] # place[r]
ReaderOK ==
  /\ reader \in [Reader -> ReaderState]
  /\ \A r \in Reader : reader[r].pc # "over" => reader[r].seg \in Segment
StoreOK ==
  /\ cache \in [Segment -> {"none", "whole", "repeated"}]
  /\ inflight \in [Segment -> Reader \union {Nobody}]
PoolOK == busy \in [Slot -> BOOLEAN] /\ client \in [Slot -> {"none", "fresh", "unread"}] /\ allowed \in Slot

LEMMA Types == TypeOK <=> PlaceOK /\ ReaderOK /\ StoreOK /\ PoolOK
BY DEF TypeOK, PlaceOK, ReaderOK, StoreOK, PoolOK, InLineSet

LEMMA TypesNext == PlaceOK' /\ ReaderOK' /\ StoreOK' /\ PoolOK' => TypeOK'
BY DEF TypeOK, PlaceOK, ReaderOK, StoreOK, PoolOK, InLineSet

LEMMA AttemptBound == MaxAttempts \in Nat \ {0}
<1>1. \A a \in Nat \ {0}, b \in Nat \ {0} : a * b \in Nat \ {0}
  OBVIOUS
<1> QED BY <1>1, PoolShape, Bounds DEF MaxAttempts

LEMMA NoReaderType == NoReader \in ReaderState /\ NoReader.pc = "over"
<1>1. 0 \in 0..Chunks /\ 0 \in 0..N /\ 0 \in 0..MaxAttempts
  BY AttemptBound, PoolShape, Bounds
<1> QED BY <1>1 DEF NoReader, ReaderState, Pc

LEMMA LineSize ==
  /\ IsFiniteSet(InLineSet) /\ Cardinality(InLineSet) \in Nat
  /\ IsFiniteSet(InLineSet') /\ Cardinality(InLineSet') \in Nat
<1>1. InLineSet \subseteq Reader /\ InLineSet' \subseteq Reader
  BY DEF InLineSet
<1> QED BY <1>1, Bounds, FS_Subset, FS_CardinalityType

-----------------------------------------------------------------------------
\* The array of waiters.

\* push: the new waiter stands last.
LEMMA LineJoin ==
  ASSUME PlaceOK, NEW r \in Reader, ~InLine(r),
         place' = [place EXCEPT ![r] = Cardinality(InLineSet) + 1]
  PROVE  PlaceOK' /\ \A p \in Reader : InLine(p)' <=> InLine(p) \/ p = r
<1> DEFINE n == Cardinality(InLineSet)
<1>0. n \in Nat /\ place \in [Reader -> 0..n] /\ \A q, p \in Reader : q # p /\ InLine(q) => place[q] # place[p]
  BY LineSize DEF PlaceOK
<1>1. /\ place'[r] = n + 1
      /\ \A p \in Reader \ {r} : place'[p] = place[p]
  BY <1>0
<1>2. \A p \in Reader : InLine(p)' <=> InLine(p) \/ p = r
  BY <1>0, <1>1 DEF InLine
<1>3. InLineSet' = InLineSet \union {r} /\ r \notin InLineSet
  BY <1>2 DEF InLineSet
<1>4. Cardinality(InLineSet') = n + 1
  BY <1>3, LineSize, FS_AddElement
<1> HIDE DEF n
<1>5. place' \in [Reader -> 0..(n + 1)]
  <2>1. \A p \in Reader : place'[p] \in 0..(n + 1)
    BY <1>0, <1>1
  <2>2. place' = [p \in Reader |-> place'[p]]
    BY <1>0 DEF PlaceOK
  <2> QED BY <2>1, <2>2
<1>6. ASSUME NEW q \in Reader, NEW p \in Reader, q # p, InLine(q)'
      PROVE  place'[q] # place'[p]
  BY <1>0, <1>1, <1>2, <1>6
<1> QED BY <1>2, <1>4, <1>5, <1>6 DEF PlaceOK

\* splice: the line is one shorter and has no gap.
LEMMA LineLeave ==
  ASSUME PlaceOK, NEW q \in Reader, InLine(q), MoveUp(q)
  PROVE  PlaceOK' /\ \A p \in Reader : InLine(p)' <=> InLine(p) /\ p # q
<1> DEFINE n == Cardinality(InLineSet)
<1>0. n \in Nat /\ place \in [Reader -> 0..n] /\ \A o, p \in Reader : o # p /\ InLine(o) => place[o] # place[p]
  BY LineSize DEF PlaceOK
<1>1. place[q] \in 1..n
  BY <1>0 DEF InLine
<1>2. /\ place'[q] = 0
      /\ \A p \in Reader \ {q} : place'[p] = IF place[p] > place[q] THEN place[p] - 1 ELSE place[p]
  BY DEF MoveUp
<1>3. \A p \in Reader : InLine(p)' <=> InLine(p) /\ p # q
  <2> SUFFICES ASSUME NEW p \in Reader PROVE InLine(p)' <=> InLine(p) /\ p # q
    OBVIOUS
  <2>1. place[p] \in 0..n
    BY <1>0
  <2> QED BY <1>1, <1>2, <2>1 DEF InLine
<1>4. InLineSet' = InLineSet \ {q} /\ q \in InLineSet
  BY <1>3 DEF InLineSet
<1>5. Cardinality(InLineSet') = n - 1
  BY <1>4, LineSize, FS_RemoveElement
<1> HIDE DEF n
<1>6. \A p \in Reader : place'[p] \in 0..(n - 1)
  <2> SUFFICES ASSUME NEW p \in Reader PROVE place'[p] \in 0..(n - 1)
    OBVIOUS
  <2>1. place[p] \in 0..n /\ (p # q => place[p] # place[q])
    BY <1>0
  <2> QED BY <1>0, <1>1, <1>2, <2>1
<1>7. place' \in [Reader -> 0..(n - 1)]
  <2>1. place' = [p \in Reader |-> place'[p]]
    BY DEF MoveUp
  <2> QED BY <1>6, <2>1
<1>8. ASSUME NEW o \in Reader, NEW p \in Reader, o # p, InLine(o)'
      PROVE  place'[o] # place'[p]
  <2>1. InLine(o) /\ o # q
    BY <1>3, <1>8
  <2>2. place[o] \in 1..n /\ place[p] \in 0..n /\ place[o] # place[p] /\ place[o] # place[q]
    BY <1>0, <1>8, <2>1 DEF InLine
  <2>3. PICK a \in 1..n, b \in 0..n, c \in 1..n : a = place[o] /\ b = place[p] /\ c = place[q]
    BY <1>1, <2>2
  <2>4. a \in Nat /\ b \in Nat /\ c \in Nat /\ a >= 1 /\ c >= 1 /\ a # b /\ a # c
    BY <1>0, <2>2, <2>3
  <2>5. place'[o] = IF a > c THEN a - 1 ELSE a
    BY <1>2, <2>1, <2>3
  <2>6. CASE p = q
    <3>1. place'[p] = 0
      BY <1>2, <2>6
    <3> QED BY <2>4, <2>5, <3>1
  <2>7. CASE p # q
    <3>1. place'[p] = IF b > c THEN b - 1 ELSE b
      BY <1>2, <2>3, <2>7
    <3>2. b # c
      BY <1>0, <1>1, <2>3, <2>7 DEF InLine
    <3> QED BY <2>4, <2>5, <3>1, <3>2
  <2> QED BY <2>6, <2>7
<1> QED BY <1>3, <1>5, <1>7, <1>8 DEF PlaceOK

\* In any set of readers one stands first in line.
LEMMA FirstInLine ==
  ASSUME PlaceOK, NEW S \in SUBSET Reader, S # {}
  PROVE  \E r \in S : \A q \in S : place[r] <= place[q]
<1> DEFINE T == {place[r] : r \in S}
<1>1. T \subseteq Nat /\ T # {}
  BY LineSize DEF PlaceOK
<1>2. \E m \in T : \A n \in T : ~(<<n, m>> \in OpToRel(<, Nat))
  BY <1>1, NatLessThanWellFounded, WFMin
<1>3. PICK m \in T : \A n \in T : ~(n < m)
  BY <1>1, <1>2 DEF OpToRel
<1>4. PICK r \in S : place[r] = m
  BY <1>3
<1>5. ASSUME NEW q \in S PROVE place[r] <= place[q]
  <2>1. place[q] \in T /\ place[q] \in Nat /\ m \in Nat
    BY <1>1
  <2> QED BY <1>3, <1>4, <2>1
<1> QED BY <1>5

\* A slot goes to nobody only if no waiter may use it.
LEMMA ChosenExists ==
  ASSUME PlaceOK, NEW s, NEW q \in Reader, InLine(q), Usable(q, s)
  PROVE  \E r \in Reader : Chosen(r, s)
<1> DEFINE S == {r \in Reader : InLine(r) /\ Usable(r, s)}
<1>1. PICK r \in S : \A p \in S : place[r] <= place[p]
  BY FirstInLine
<1> QED BY <1>1 DEF Chosen
-----------------------------------------------------------------------------
\* Steps of a reader that neither takes nor gives back a slot.

\* What is left of a read.
LEMMA RestType ==
  ASSUME ReaderOK, NEW r \in Reader, reader[r].pc # "over", NEW pc \in Pc
  PROVE  /\ Rest(r, pc) \in ReaderState /\ Rest(r, pc).pc = pc /\ Rest(r, pc).seg = reader[r].seg
         /\ Left(r, pc) \in ReaderState /\ Left(r, pc).pc = pc /\ Left(r, pc).seg = reader[r].seg
         /\ Left(r, pc).slot = reader[r].slot
<1>1. reader[r] \in ReaderState /\ reader[r].seg \in Segment
  BY DEF ReaderOK
<1>2. Rest(r, pc) = [NoReader EXCEPT !.pc = pc, !.seg = reader[r].seg]
  BY DEF Rest
<1>3. Rest(r, pc) \in ReaderState /\ Rest(r, pc).pc = pc /\ Rest(r, pc).seg = reader[r].seg
  BY <1>1, <1>2, NoReaderType DEF ReaderState
<1>4. Left(r, pc) = [Rest(r, pc) EXCEPT !.slot = reader[r].slot]
  BY DEF Left
<1>5. reader[r].slot \in 0..N
  BY <1>1 DEF ReaderState
<1> HIDE DEF Rest
<1> QED BY <1>3, <1>4, <1>5 DEF ReaderState

\* The slots and the line are what they were.
LEMMA SlotsKept ==
  ASSUME Inv, NEW r \in Reader, ~Waiting(r), NEW after \in ReaderState,
         after.pc # "wait", after.pc # "over" => after.seg \in Segment,
         after.pc \in Holding <=> reader[r].pc \in Holding,
         after.pc \in Holding => after.slot = reader[r].slot,
         reader' = [reader EXCEPT ![r] = after], UNCHANGED <<busy, place>>
  PROVE  ReaderOK' /\ PlaceOK' /\ Flight' /\ Line' /\ SlotExclusive' /\ NoLostWakeup'
<1>1. ReaderOK /\ PlaceOK
  BY Types DEF Inv
<1>2. /\ reader' \in [Reader -> ReaderState] /\ reader'[r] = after
      /\ \A p \in Reader \ {r} : reader'[p] = reader[p]
  BY <1>1 DEF ReaderOK
<1>3. ReaderOK'
  BY <1>1, <1>2 DEF ReaderOK
<1>4. PlaceOK'
  BY <1>1 DEF PlaceOK, InLineSet, InLine
<1>5. Flight'
  BY <1>2 DEF Flight, Inv
<1>6. Line'
  BY <1>2 DEF Line, Inv, InLine, Waiting, At
<1>7. SlotExclusive'
  <2>1. \A p \in Reader, s \in Slot : Holds(p, s)' <=> Holds(p, s)
    BY <1>2 DEF Holds, Holding
  <2> QED BY <2>1 DEF SlotExclusive, Inv
<1>8. NoLostWakeup'
  BY <1>2 DEF NoLostWakeup, Inv, Waiting, At, Usable
<1> QED BY <1>3, <1>4, <1>5, <1>6, <1>7, <1>8

\* A fetch goes on, or a reader that is no fetch begins to share one.
LEMMA SharingKept ==
  ASSUME Inv, NEW r \in Reader, NEW after \in ReaderState,
         reader[r].pc \notin NoFetch => after.pc \notin NoFetch /\ after.seg = reader[r].seg,
         after.pc = "join" /\ after.from # Nobody => after.from # r /\ Fetching(after.from, after.seg),
         reader' = [reader EXCEPT ![r] = after], UNCHANGED inflight
  PROVE  SharesLiveFetch'
<1>1. /\ reader'[r] = after
      /\ \A p \in Reader \ {r} : reader'[p] = reader[p]
  BY DEF Inv, TypeOK
<1>2. ASSUME NEW p \in Reader, NEW g, Fetching(p, g) PROVE Fetching(p, g)'
  BY <1>1, <1>2 DEF Fetching, NoFetch
<1>3. inflight \in [Segment -> Reader \union {Nobody}] /\ SharesLiveFetch
  BY DEF Inv, TypeOK
<1>4. ASSUME NEW g \in Segment, inflight'[g] # Nobody PROVE Fetching(inflight[g], g)'
  BY <1>2, <1>3, <1>4 DEF SharesLiveFetch
<1>5. ASSUME NEW p \in Reader, At(p, "join")', reader'[p].from # Nobody
      PROVE  Fetching(reader[p].from, reader[p].seg)'
  <2>1. reader' \in [Reader -> ReaderState]
    BY DEF Inv, TypeOK
  <2>2. reader'[p].from \in Reader
    BY <1>5, <2>1 DEF ReaderState
  <2>3. Fetching(reader'[p].from, reader'[p].seg)
    <3>1. CASE p = r
      BY <1>1, <1>5, <3>1 DEF At
    <3>2. CASE p # r
      BY <1>1, <1>3, <1>5, <3>2 DEF At, SharesLiveFetch
    <3> QED BY <3>1, <3>2
  <2>4. \A q \in Reader : \A g : Fetching(q, g) => Fetching(q, g)'
    BY <1>2
  <2>5. PICK q \in Reader : q = reader'[p].from
    BY <2>2
  <2>6. Fetching(q, reader'[p].seg) => reader'[q].seg = reader'[p].seg /\ reader'[q].pc \notin NoFetch
    BY <2>4 DEF Fetching, NoFetch
  <2> QED BY <2>3, <2>5, <2>6 DEF Fetching, NoFetch
<1>6. inflight' = inflight
  OBVIOUS
<1> QED BY <1>4, <1>5, <1>6 DEF SharesLiveFetch

\* A reader with an unread connection keeps it.
LEMMA UnreadKept ==
  ASSUME Inv, NEW r \in Reader, NEW after \in ReaderState,
         reader[r].pc \in Unread => after.pc \in Unread /\ after.slot = reader[r].slot,
         reader' = [reader EXCEPT ![r] = after], UNCHANGED client
  PROVE  NoUnreadReuse'
<1>1. /\ reader'[r] = after
      /\ \A p \in Reader \ {r} : reader'[p] = reader[p]
  BY DEF Inv, TypeOK
<1> QED BY <1>1 DEF NoUnreadReuse, Inv, Unread

\* What the store and the pool keep when a step leaves them alone.
LEMMA StoreKept == Inv /\ UNCHANGED <<cache, inflight>> => StoreOK'
BY DEF Inv, TypeOK, StoreOK

LEMMA PoolKept == Inv /\ UNCHANGED <<busy, client, allowed>> => PoolOK'
BY DEF Inv, TypeOK, PoolOK

LEMMA InitInv == Init => Inv
<1> SUFFICES ASSUME Init PROVE Inv
  OBVIOUS
<1>1. \A r \in Reader : reader[r] = NoReader /\ reader[r].pc = "over" /\ place[r] = 0
  BY NoReaderType DEF Init
<1>2. ReaderOK
  BY <1>1, NoReaderType DEF Init, ReaderOK
<1>3. PlaceOK
  <2>1. 0 \in 0..Cardinality(InLineSet)
    BY LineSize
  <2> QED BY <1>1, <2>1 DEF Init, PlaceOK, InLine
<1>4. StoreOK /\ PoolOK
  BY PoolShape DEF Init, StoreOK, PoolOK, Slot
<1>5. Flight /\ Line /\ SlotExclusive /\ NoLostWakeup
  BY <1>1 DEF Init, Flight, Holding, Line, InLine, Waiting, At, SlotExclusive, NoLostWakeup, Holds
<1>6. NoUnreadReuse /\ SharesLiveFetch
  BY <1>1 DEF Init, NoUnreadReuse, SharesLiveFetch, At
<1> QED BY <1>2, <1>3, <1>4, <1>5, <1>6, Types DEF Inv

LEMMA BeginInv ==
  ASSUME Inv, NEW r \in Reader, NEW g \in Segment, NEW kind \in {"range", "kept", "whole"}, Begin(r, g, kind)
  PROVE  Inv'
<1> DEFINE after == [NoReader EXCEPT !.pc = "look", !.kind = kind, !.seg = g]
<1>1. reader[r].pc = "over" /\ reader' = [reader EXCEPT ![r] = after] /\ UNCHANGED <<cache, inflight>> /\ UNCHANGED Pool
  BY DEF Begin, At
<1>2. after \in ReaderState /\ after.pc = "look" /\ after.seg = g
  BY NoReaderType DEF ReaderState, Pc
<1> HIDE DEF after
<1>3. ReaderOK' /\ PlaceOK' /\ Flight' /\ Line' /\ SlotExclusive' /\ NoLostWakeup'
  BY <1>1, <1>2, SlotsKept DEF Pool, Holding, Waiting, At
<1>4. NoUnreadReuse'
  BY <1>1, <1>2, UnreadKept DEF Pool, Unread
<1>5. SharesLiveFetch'
  BY <1>1, <1>2, SharingKept DEF NoFetch
<1> QED BY <1>1, <1>3, <1>4, <1>5, StoreKept, PoolKept, TypesNext DEF Inv, Pool

LEMMA LookInv ==
  ASSUME Inv, NEW r \in Reader, Look(r)
  PROVE  Inv'
<1> DEFINE f == inflight[reader[r].seg]
           after == IF f = Nobody THEN [reader[r] EXCEPT !.pc = "claim"] ELSE [Rest(r, "join") EXCEPT !.from = f]
<1>1. reader[r].pc = "look" /\ UNCHANGED <<cache, inflight>> /\ UNCHANGED Pool
  BY DEF Look, At
<1>2. reader' = [reader EXCEPT ![r] = after]
  BY DEF Look, Inv, TypeOK
<1>3. ReaderOK /\ StoreOK /\ reader[r] \in ReaderState /\ reader[r].seg \in Segment /\ "join" \in Pc
  BY <1>1, Types DEF Inv, ReaderOK, Pc
<1>4. f \in Reader \union {Nobody} /\ (f # Nobody => Fetching(f, reader[r].seg))
  BY <1>3 DEF StoreOK, Inv, SharesLiveFetch
<1> HIDE DEF f
<1>5. /\ Rest(r, "join") \in ReaderState /\ Rest(r, "join").pc = "join" /\ Rest(r, "join").seg = reader[r].seg
  BY <1>1, <1>3, RestType
<1>6. /\ after \in ReaderState /\ after.pc \in {"claim", "join"} /\ after.seg = reader[r].seg
      /\ after.pc = "join" /\ after.from # Nobody => Fetching(after.from, after.seg)
  <2>1. CASE f = Nobody
    BY <1>3, <2>1 DEF ReaderState, Pc
  <2>2. CASE f # Nobody
    <3> HIDE DEF Rest
    <3>1. [Rest(r, "join") EXCEPT !.from = f] \in ReaderState
      BY <1>4, <1>5 DEF ReaderState
    <3>2. /\ [Rest(r, "join") EXCEPT !.from = f].pc = "join"
          /\ [Rest(r, "join") EXCEPT !.from = f].seg = reader[r].seg
          /\ [Rest(r, "join") EXCEPT !.from = f].from = f
      BY <1>5 DEF ReaderState
    <3> QED BY <1>4, <2>2, <3>1, <3>2
  <2> QED BY <2>1, <2>2
<1> HIDE DEF after
<1>7. ReaderOK' /\ PlaceOK' /\ Flight' /\ Line' /\ SlotExclusive' /\ NoLostWakeup'
  BY <1>1, <1>2, <1>3, <1>6, SlotsKept DEF Pool, Holding, Waiting, At
<1>8. NoUnreadReuse'
  BY <1>1, <1>2, <1>6, UnreadKept DEF Pool, Unread
<1>9. SharesLiveFetch'
  BY <1>1, <1>2, <1>6, SharingKept DEF NoFetch, Fetching
<1> QED BY <1>1, <1>7, <1>8, <1>9, StoreKept, PoolKept, TypesNext DEF Inv, Pool

\* The map names the new fetch, whoever it named before.
LEMMA ClaimInv ==
  ASSUME Inv, NEW r \in Reader, Claim(r)
  PROVE  Inv'
<1> DEFINE after == [reader[r] EXCEPT !.pc = "ask", !.attempt = 1, !.backups = (Primary = {})]
<1>1. /\ reader[r].pc = "claim" /\ UNCHANGED cache /\ UNCHANGED Pool
      /\ inflight' = [inflight EXCEPT ![reader[r].seg] = r]
  BY DEF Claim, At
<1>2. reader' = [reader EXCEPT ![r] = after]
  BY DEF Claim, Inv, TypeOK
<1>3. StoreOK /\ reader[r] \in ReaderState /\ reader[r].seg \in Segment
  BY <1>1, Types DEF Inv, ReaderOK
<1>4. after \in ReaderState /\ after.pc = "ask" /\ after.seg = reader[r].seg
  <2>1. 1 \in 0..MaxAttempts
    BY AttemptBound
  <2> QED BY <1>3, <2>1 DEF ReaderState, Pc
<1> HIDE DEF after
<1>5. ReaderOK' /\ PlaceOK' /\ Flight' /\ Line' /\ SlotExclusive' /\ NoLostWakeup'
  BY <1>1, <1>2, <1>3, <1>4, SlotsKept DEF Pool, Holding, Waiting, At
<1>6. NoUnreadReuse'
  BY <1>1, <1>2, <1>4, UnreadKept DEF Pool, Unread
<1>7. StoreOK'
  BY <1>1, <1>3 DEF StoreOK
<1>8. SharesLiveFetch'
  <2>1. /\ reader'[r] = after
        /\ \A p \in Reader \ {r} : reader'[p] = reader[p]
    BY <1>2 DEF Inv, TypeOK
  <2>2. \A p \in Reader, g \in Segment : Fetching(p, g) => Fetching(p, g)'
    BY <1>1, <2>1 DEF Fetching
  <2>3. ASSUME NEW g \in Segment, inflight'[g] # Nobody PROVE Fetching(inflight[g], g)'
    <3>1. CASE g = reader[r].seg
      <4>1. inflight'[g] = r
        BY <1>1, <1>3, <3>1 DEF StoreOK
      <4> QED BY <1>4, <2>1, <3>1, <4>1 DEF Fetching
    <3>2. CASE g # reader[r].seg
      <4>1. inflight'[g] = inflight[g] /\ inflight[g] \in Reader \union {Nobody}
        BY <1>1, <1>3, <3>2 DEF StoreOK
      <4>2. inflight[g] \in Reader /\ Fetching(inflight[g], g)
        BY <2>3, <4>1 DEF Inv, SharesLiveFetch
      <4> QED BY <2>2, <4>1, <4>2 DEF Fetching
    <3> QED BY <3>1, <3>2
  <2>4. ASSUME NEW p \in Reader, At(p, "join")', reader'[p].from # Nobody
        PROVE  Fetching(reader[p].from, reader[p].seg)'
    <3>1. p # r /\ reader'[p] = reader[p]
      BY <1>4, <2>1, <2>4 DEF At
    <3>2. Fetching(reader[p].from, reader[p].seg) /\ reader[p].from \in Reader /\ reader[p].seg \in Segment
      BY <2>4, <3>1 DEF At, Inv, SharesLiveFetch, TypeOK, ReaderState
    <3> QED BY <2>2, <3>1, <3>2 DEF Fetching
  <2> QED BY <2>3, <2>4 DEF SharesLiveFetch
<1> QED BY <1>1, <1>5, <1>6, <1>7, <1>8, PoolKept, TypesNext DEF Inv, Pool

\* A fetch takes a step of its own between taking its slot and giving it back.
LEMMA FetchStep ==
  ASSUME Inv, NEW r \in Reader, ~Waiting(r), reader[r].pc \notin NoFetch, NEW after \in ReaderState,
         after.pc \notin NoFetch \union {"wait"}, after.seg = reader[r].seg,
         after.pc \in Holding <=> reader[r].pc \in Holding,
         reader[r].pc \in Unread => after.pc \in Unread,
         after.slot = reader[r].slot \/ reader[r].pc \notin Holding,
         reader' = [reader EXCEPT ![r] = after], UNCHANGED <<cache, inflight>>, UNCHANGED Pool
  PROVE  Inv'
<1>1. reader[r].seg \in Segment
  BY DEF Inv, TypeOK, NoFetch
<1>2. ReaderOK' /\ PlaceOK' /\ Flight' /\ Line' /\ SlotExclusive' /\ NoLostWakeup'
  BY <1>1, SlotsKept DEF Pool
<1>3. NoUnreadReuse'
  BY UnreadKept DEF Pool, Unread, Holding
<1>4. SharesLiveFetch'
  BY SharingKept DEF NoFetch
<1> QED BY <1>2, <1>3, <1>4, StoreKept, PoolKept, TypesNext DEF Inv, Pool

LEMMA AskInv ==
  ASSUME Inv, NEW r \in Reader, Ask(r)
  PROVE  Inv'
<1> DEFINE after == IF reader[r].aborted THEN Rest(r, "settle") ELSE [reader[r] EXCEPT !.pc = "pick", !.lim = allowed]
<1>1. reader[r].pc = "ask" /\ UNCHANGED <<cache, inflight>> /\ UNCHANGED Pool
  BY DEF Ask, At
<1>2. reader' = [reader EXCEPT ![r] = after]
  BY DEF Ask, Inv, TypeOK
<1>3. ReaderOK /\ reader[r] \in ReaderState /\ "settle" \in Pc
  BY Types DEF Inv, ReaderOK, Pc
<1>4. allowed \in 0..N
  BY DEF Inv, TypeOK, Slot
<1>5. Rest(r, "settle") \in ReaderState /\ Rest(r, "settle").pc = "settle" /\ Rest(r, "settle").seg = reader[r].seg
  BY <1>1, <1>3, RestType
<1>6. LET go == [reader[r] EXCEPT !.pc = "pick", !.lim = allowed]
      IN go \in ReaderState /\ go.pc = "pick" /\ go.seg = reader[r].seg
  BY <1>3, <1>4 DEF ReaderState, Pc
<1>7. after \in ReaderState /\ after.pc \in {"settle", "pick"} /\ after.seg = reader[r].seg
  BY <1>5, <1>6
<1> HIDE DEF after
<1> QED BY <1>1, <1>2, <1>7, FetchStep DEF Waiting, At, NoFetch, Holding, Unread

LEMMA ChunkInv ==
  ASSUME Inv, NEW r \in Reader, Chunk(r)
  PROVE  Inv'
<1> DEFINE after == [reader[r] EXCEPT !.at = @ + 1, !.pc = "yielded"]
<1>1. reader[r].pc = "body" /\ reader[r].at < Chunks /\ UNCHANGED <<cache, inflight>> /\ UNCHANGED Pool
  BY DEF Chunk, At
<1>2. reader[r] \in ReaderState /\ reader' = [reader EXCEPT ![r] = after]
  BY DEF Chunk, Inv, TypeOK
<1>3. reader[r].at + 1 \in 0..Chunks
  <2>1. reader[r].at \in 0..Chunks
    BY <1>2 DEF ReaderState
  <2> QED BY <1>1, <2>1, Bounds
<1>4. after \in ReaderState /\ after.pc = "yielded" /\ after.seg = reader[r].seg /\ after.slot = reader[r].slot
  BY <1>2, <1>3 DEF ReaderState, Pc
<1> HIDE DEF after
<1> QED BY <1>1, <1>2, <1>4, FetchStep DEF Waiting, At, NoFetch, Holding, Unread

LEMMA ResumeInv ==
  ASSUME Inv, NEW r \in Reader, Resume(r)
  PROVE  Inv'
<1> DEFINE after == [reader[r] EXCEPT !.pc = "body"]
<1>1. reader[r].pc = "yielded" /\ UNCHANGED <<cache, inflight>> /\ UNCHANGED Pool
  BY DEF Resume, At
<1>2. reader[r] \in ReaderState /\ reader' = [reader EXCEPT ![r] = after]
  BY DEF Resume, Inv, TypeOK
<1>3. after \in ReaderState /\ after.pc = "body" /\ after.seg = reader[r].seg /\ after.slot = reader[r].slot
  BY <1>2 DEF ReaderState, Pc
<1> HIDE DEF after
<1> QED BY <1>1, <1>2, <1>3, FetchStep DEF Waiting, At, NoFetch, Holding, Unread

\* The consumer returns, or forgets the generator: the slot stays taken.
LEMMA LeaveInv ==
  ASSUME Inv, NEW r \in Reader, Return(r) \/ Forget(r)
  PROVE  Inv'
<1>1. reader[r].pc = "yielded" /\ UNCHANGED <<cache, inflight>> /\ UNCHANGED Pool
  BY DEF Return, Forget, At
<1>2. PICK pc \in {"closing", "forgotten"} : reader' = [reader EXCEPT ![r] = Left(r, pc)]
  BY DEF Return, Forget
<1>3. ReaderOK /\ pc \in Pc
  BY Types DEF Inv, Pc
<1>4. Left(r, pc) \in ReaderState /\ Left(r, pc).pc = pc /\ Left(r, pc).seg = reader[r].seg /\ Left(r, pc).slot = reader[r].slot
  BY <1>1, <1>3, RestType
<1> HIDE DEF Left
<1> QED BY <1>1, <1>2, <1>4, FetchStep DEF Waiting, At, NoFetch, Holding, Unread

\* An aborted fetch that does not wait goes on as it did.
LEMMA AbortInv ==
  ASSUME Inv, NEW r \in Reader, Abort(r), ~Waiting(r)
  PROVE  Inv'
<1> DEFINE after == [reader[r] EXCEPT !.aborted = TRUE]
<1>1. reader[r].pc \notin {"over", "join"} /\ UNCHANGED <<cache, inflight>> /\ UNCHANGED Pool
  BY DEF Abort, HasSignal, Pool
<1>2. reader[r] \in ReaderState /\ reader' = [reader EXCEPT ![r] = after]
  BY DEF Abort, Inv, TypeOK
<1>3. after \in ReaderState /\ after.pc = reader[r].pc /\ after.seg = reader[r].seg /\ after.slot = reader[r].slot
  BY <1>2 DEF ReaderState
<1>4. reader[r].seg \in Segment
  BY <1>1 DEF Inv, TypeOK
<1> HIDE DEF after
<1>5. ReaderOK' /\ PlaceOK' /\ Flight' /\ Line' /\ SlotExclusive' /\ NoLostWakeup'
  BY <1>1, <1>2, <1>3, <1>4, SlotsKept DEF Pool, Waiting, At
<1>6. NoUnreadReuse'
  BY <1>1, <1>2, <1>3, UnreadKept DEF Pool
<1>7. SharesLiveFetch'
  BY <1>1, <1>2, <1>3, SharingKept
<1> QED BY <1>1, <1>5, <1>6, <1>7, StoreKept, PoolKept, TypesNext DEF Inv, Pool

\* A fetch connects or breaks: only the connection of its slot changes.
LEMMA ConnectionStep ==
  ASSUME Inv, NEW r \in Reader, reader[r].pc \in Holding, NEW after \in ReaderState, NEW conn \in {"none", "unread"},
         after.pc \in Holding, after.seg = reader[r].seg, after.slot = reader[r].slot,
         conn = "unread" => after.pc = "body",
         reader' = [reader EXCEPT ![r] = after], client' = [client EXCEPT ![reader[r].slot] = conn],
         UNCHANGED <<cache, inflight, busy, place, allowed>>
  PROVE  Inv'
<1>1. reader[r].seg \in Segment /\ reader[r].slot \in Slot
  BY DEF Inv, TypeOK, Holding, Flight
<1>2. ReaderOK' /\ PlaceOK' /\ Flight' /\ Line' /\ SlotExclusive' /\ NoLostWakeup'
  BY <1>1, SlotsKept DEF Holding, Waiting, At
<1>3. SharesLiveFetch'
  BY SharingKept DEF NoFetch, Holding
<1>4. PoolOK'
  BY <1>1 DEF PoolOK, Inv, TypeOK
<1>5. NoUnreadReuse'
  <2>1. /\ reader'[r] = after
        /\ \A p \in Reader \ {r} : reader'[p] = reader[p]
    BY DEF Inv, TypeOK
  <2>2. /\ client'[reader[r].slot] = conn
        /\ \A s \in Slot \ {reader[r].slot} : client'[s] = client[s]
    BY <1>1 DEF Inv, TypeOK
  <2>3. ASSUME NEW s \in Slot, client'[s] = "unread"
        PROVE  \E p \in Reader : reader'[p].slot = s /\ reader'[p].pc \in Unread
    <3>1. CASE s = reader[r].slot
      BY <2>1, <2>2, <2>3, <3>1 DEF Unread
    <3>2. CASE s # reader[r].slot
      <4>1. PICK p \in Reader : reader[p].slot = s /\ reader[p].pc \in Unread
        BY <2>2, <2>3, <3>2 DEF Inv, NoUnreadReuse, Unread
      <4> QED BY <2>1, <3>2, <4>1
    <3> QED BY <3>1, <3>2
  <2> QED BY <2>3 DEF NoUnreadReuse, Unread
<1> QED BY <1>2, <1>3, <1>4, <1>5, StoreKept, TypesNext DEF Inv

LEMMA ConnectInv ==
  ASSUME Inv, NEW r \in Reader, Connect(r)
  PROVE  Inv'
<1> DEFINE after == [reader[r] EXCEPT !.pc = "body", !.at = 0]
<1>1. /\ reader[r].pc = "connect" /\ UNCHANGED <<cache, inflight, busy, place, allowed>>
      /\ client' = [client EXCEPT ![reader[r].slot] = "unread"]
  BY DEF Connect, At
<1>2. reader[r] \in ReaderState /\ reader' = [reader EXCEPT ![r] = after]
  BY DEF Connect, Inv, TypeOK
<1>3. after \in ReaderState /\ after.pc = "body" /\ after.seg = reader[r].seg /\ after.slot = reader[r].slot
  <2>1. 0 \in 0..Chunks
    BY Bounds
  <2> QED BY <1>2, <2>1 DEF ReaderState, Pc
<1> HIDE DEF after
<1> QED BY <1>1, <1>2, <1>3, ConnectionStep DEF Holding

LEMMA FailInv ==
  ASSUME Inv, NEW r \in Reader, Fail(r)
  PROVE  Inv'
<1> DEFINE after(failed) == [reader[r] EXCEPT !.pc = "judge", !.failed = failed, !.backups = @ \/ Primary \subseteq failed,
                                              !.torn = @ \/ reader[r].at > 0, !.at = 0]
<1>1. /\ reader[r].pc \in {"connect", "body"} /\ UNCHANGED <<cache, inflight, busy, place, allowed>>
      /\ client' = [client EXCEPT ![reader[r].slot] = "none"]
  BY DEF Fail
<1>2. reader[r] \in ReaderState /\ reader[r].slot \in Slot
  BY <1>1 DEF Inv, TypeOK, Flight, Holding
<1>3. PICK failed \in {reader[r].failed, reader[r].failed \union {Owner[reader[r].slot]}} :
        reader' = [reader EXCEPT ![r] = after(failed)]
  BY DEF Fail
<1>4. failed \in SUBSET Provider
  BY <1>2, PoolShape DEF ReaderState
<1>5. LET a == after(failed) IN
      a \in ReaderState /\ a.pc = "judge" /\ a.seg = reader[r].seg /\ a.slot = reader[r].slot
  <2>1. 0 \in 0..Chunks /\ (reader[r].backups \/ Primary \subseteq failed) \in BOOLEAN /\ (reader[r].torn \/ reader[r].at > 0) \in BOOLEAN
    BY Bounds
  <2> QED BY <1>2, <1>4, <2>1 DEF ReaderState, Pc
<1> HIDE DEF after
<1> QED BY <1>1, <1>3, <1>5, ConnectionStep DEF Holding

\* The fetch leaves the map, and those who share it follow it or wait for nobody.
LEMMA EndInv ==
  ASSUME Inv, NEW r \in Reader, End(r)
  PROVE  Inv'
<1>1. /\ reader[r].pc \in {"settle", "leave"} /\ UNCHANGED cache /\ UNCHANGED Pool
      /\ inflight' = [inflight EXCEPT ![reader[r].seg] = Nobody]
  BY DEF End
<1>2. /\ reader \in [Reader -> ReaderState] /\ StoreOK /\ PlaceOK
      /\ \A p \in Reader : reader[p].pc # "over" => reader[p].seg \in Segment
  BY Types DEF Inv, ReaderOK
<1> DEFINE loose(p) == [reader[p] EXCEPT !.from = Nobody]
<1>3. \A p \in Reader :
        \/ (p = r \/ At(p, "join")) /\ reader'[p] = NoReader
        \/ p # r /\ At(p, "join") /\ reader[p].from = r /\ reader'[p] = loose(p)
        \/ p # r /\ (At(p, "join") => reader[p].from # r) /\ reader'[p] = reader[p]
  BY DEF End
<1>4. ASSUME NEW p \in Reader
      PROVE  /\ loose(p) \in ReaderState /\ loose(p).pc = reader[p].pc /\ loose(p).seg = reader[p].seg
             /\ loose(p).from = Nobody
  BY <1>2 DEF ReaderState
<1> HIDE DEF loose
<1>5. ReaderOK'
  <2>1. \A p \in Reader : reader'[p] \in ReaderState /\ (reader'[p].pc # "over" => reader'[p].seg \in Segment)
    BY <1>2, <1>3, <1>4, NoReaderType
  <2>2. reader' = [p \in Reader |-> reader'[p]]
    BY DEF End
  <2> QED BY <2>1, <2>2 DEF ReaderOK
<1>6. \A p \in Reader : \/ reader'[p] = reader[p] /\ p # r
                        \/ reader[p].pc \in {"settle", "leave", "join"} /\ reader'[p].pc \in {"over", "join"}
  BY <1>1, <1>3, <1>4, NoReaderType DEF At
<1>7. PlaceOK'
  BY <1>1, <1>2 DEF PlaceOK, InLineSet, InLine, Pool
<1>8. Flight' /\ Line' /\ NoLostWakeup'
  BY <1>1, <1>6 DEF Flight, Holding, Line, InLine, Waiting, At, NoLostWakeup, Usable, Inv, Pool
<1>9. SlotExclusive'
  <2>1. \A p \in Reader, s \in Slot : Holds(p, s)' <=> Holds(p, s)
    BY <1>6 DEF Holds
  <2> QED BY <1>1, <2>1 DEF SlotExclusive, Inv, Pool
<1>10. NoUnreadReuse'
  BY <1>1, <1>6 DEF NoUnreadReuse, Inv, Pool
<1>11. StoreOK'
  BY <1>1, <1>2 DEF StoreOK
<1>12. SharesLiveFetch'
  <2>1. ASSUME NEW p \in Reader \ {r}, NEW g \in Segment, Fetching(p, g) PROVE Fetching(p, g)'
    BY <1>3, <2>1 DEF Fetching, At
  <2>2. ASSUME NEW g \in Segment, inflight'[g] # Nobody PROVE Fetching(inflight[g], g)'
    <3>1. g # reader[r].seg /\ inflight'[g] = inflight[g] /\ inflight[g] \in Reader
      BY <1>1, <1>2, <2>2 DEF StoreOK
    <3>2. Fetching(inflight[g], g) /\ inflight[g] # r
      BY <2>2, <3>1 DEF Inv, SharesLiveFetch, Fetching
    <3> QED BY <2>1, <3>1, <3>2 DEF Fetching
  <2>3. ASSUME NEW p \in Reader, At(p, "join")', reader'[p].from # Nobody
        PROVE  Fetching(reader[p].from, reader[p].seg)'
    <3>1. At(p, "join") /\ reader[p].from # r /\ reader'[p] = reader[p]
      BY <1>3, <1>4, <2>3, NoReaderType DEF At
    <3>2. reader[p].from \in Reader /\ reader[p].seg \in Segment /\ Fetching(reader[p].from, reader[p].seg)
      BY <1>2, <2>3, <3>1 DEF At, Inv, SharesLiveFetch, ReaderState
    <3> QED BY <2>1, <3>1, <3>2 DEF Fetching
  <2> QED BY <2>2, <2>3 DEF SharesLiveFetch
<1> QED BY <1>1, <1>5, <1>7, <1>8, <1>9, <1>10, <1>11, <1>12, PoolKept, TypesNext DEF Inv, Pool

\* The settings and the cache are nobody's slot and nobody's place.
LEMMA ElsewhereInv ==
  ASSUME Inv, Resize \/ (\E g \in Segment : Evict(g))
  PROVE  Inv'
<1>1. UNCHANGED <<inflight, busy, client, reader, place>>
  BY DEF Resize, Evict, Pool
<1>2. StoreOK' /\ PoolOK'
  BY DEF Resize, Evict, Pool, StoreOK, PoolOK, Inv, TypeOK
<1>3. ReaderOK /\ PlaceOK
  BY Types DEF Inv
<1>4. ReaderOK' /\ PlaceOK'
  BY <1>1, <1>3 DEF ReaderOK, PlaceOK, InLineSet, InLine
<1>5. Flight' /\ Line' /\ SlotExclusive' /\ NoLostWakeup' /\ NoUnreadReuse' /\ SharesLiveFetch'
  BY <1>1 DEF Inv, Flight, Line, InLine, Waiting, At, SlotExclusive, Holds, NoLostWakeup, Usable, NoUnreadReuse,
              SharesLiveFetch, Fetching
<1> QED BY <1>2, <1>4, <1>5, TypesNext DEF Inv

-----------------------------------------------------------------------------
\* Slots given back, taken and waited for.

\* Whoever goes on fetching the same segment, the map stays right.
LEMMA FetchesGoOn ==
  ASSUME Inv, reader' \in [Reader -> ReaderState], UNCHANGED inflight,
         \A p \in Reader : \/ reader'[p] = reader[p]
                           \/ /\ reader[p].pc \notin NoFetch /\ reader'[p].pc \notin NoFetch
                              /\ reader'[p].seg = reader[p].seg
  PROVE  SharesLiveFetch'
<1>1. \A p \in Reader, g \in Segment : Fetching(p, g) => Fetching(p, g)'
  BY DEF Fetching, NoFetch
<1>2. ASSUME NEW g \in Segment, inflight'[g] # Nobody PROVE Fetching(inflight[g], g)'
  <2>1. inflight[g] \in Reader /\ Fetching(inflight[g], g) /\ inflight'[g] = inflight[g]
    BY <1>2 DEF Inv, TypeOK, SharesLiveFetch
  <2> QED BY <1>1, <2>1 DEF Fetching
<1>3. ASSUME NEW p \in Reader, At(p, "join")', reader'[p].from # Nobody
      PROVE  Fetching(reader[p].from, reader[p].seg)'
  <2>1. reader'[p] = reader[p] /\ At(p, "join")
    BY <1>3 DEF At, NoFetch
  <2>2. reader[p].from \in Reader /\ reader[p].seg \in Segment /\ Fetching(reader[p].from, reader[p].seg)
    BY <1>3, <2>1 DEF Inv, TypeOK, ReaderState, SharesLiveFetch, At
  <2> QED BY <1>1, <2>1, <2>2 DEF Fetching
<1> QED BY <1>2, <1>3 DEF SharesLiveFetch

\* What releasing a slot does, whatever its holder goes on with: the slot goes
\* to one waiter that may use it, or to nobody because none may.
LEMMA ReleaseInv ==
  ASSUME Inv, NEW r \in Reader, reader[r].pc \in Holding,
         NEW after \in ReaderState, after.pc \in {"leave", "settle", "ask"}, after.seg = reader[r].seg,
         NEW conn \in {"none", "fresh"}, Release(r, after, conn), UNCHANGED <<inflight, allowed>>
  PROVE  /\ ReaderOK' /\ PlaceOK' /\ PoolOK'
         /\ Flight' /\ Line' /\ SlotExclusive' /\ NoLostWakeup' /\ NoUnreadReuse' /\ SharesLiveFetch'
<1>s. PICK s \in Slot : s = reader[r].slot
  BY DEF Inv, Flight
<1>t. /\ reader \in [Reader -> ReaderState] /\ busy \in [Slot -> BOOLEAN] /\ client \in [Slot -> {"none", "fresh", "unread"}]
      /\ \A p \in Reader : reader[p].pc # "over" => reader[p].seg \in Segment
      /\ ReaderOK /\ PlaceOK /\ allowed \in Slot /\ s \in 0..N
  BY <1>s, Types DEF Inv, TypeOK, Slot
<1>0. busy[s] /\ Holds(r, s) /\ \A p \in Reader : Holds(p, s) => p = r
  BY <1>s, <1>t DEF Inv, SlotExclusive, Holds, Holding
<1>u. ASSUME NEW t \in Slot \ {s}, client[t] = "unread"
      PROVE  \E p \in Reader \ {r} : reader[p].slot = t /\ reader[p].pc \in Unread
  BY <1>s, <1>u DEF Inv, NoUnreadReuse, Unread
<1>1. ASSUME NEW q \in Reader, Chosen(q, s), HandOver(r, after, q, s), MoveUp(q),
             client' = [client EXCEPT ![s] = conn], UNCHANGED busy
      PROVE  /\ ReaderOK' /\ PlaceOK' /\ PoolOK'
             /\ Flight' /\ Line' /\ SlotExclusive' /\ NoLostWakeup' /\ NoUnreadReuse' /\ SharesLiveFetch'
  <2> DEFINE served == [reader[q] EXCEPT !.pc = "connect", !.slot = s, !.lim = 0]
  <2>1. InLine(q) /\ Usable(q, s) /\ reader[q].pc = "wait" /\ q # r
    BY <1>1 DEF Chosen, Inv, Line, Waiting, At, Holding
  <2>2. /\ reader'[r] = after /\ reader'[q] = served
        /\ \A p \in Reader \ {q, r} : reader'[p] = reader[p]
    BY <1>1, <1>t, <2>1 DEF HandOver, Waiting, At
  <2>3. served \in ReaderState /\ served.pc = "connect" /\ served.slot = s /\ served.seg = reader[q].seg
    <3>1. 0 \in 0..N
      BY PoolShape
    <3> QED BY <1>t, <3>1 DEF ReaderState, Pc
  <2> HIDE DEF served
  <2>4. ReaderOK'
    <3>1. reader' \in [Reader -> ReaderState]
      BY <1>1, <1>t, <2>2, <2>3 DEF HandOver
    <3>2. \A p \in Reader : reader'[p].pc # "over" => reader'[p].seg \in Segment
      BY <1>t, <2>1, <2>2, <2>3 DEF Holding
    <3> QED BY <3>1, <3>2 DEF ReaderOK
  <2>5. PlaceOK' /\ \A p \in Reader : InLine(p)' <=> InLine(p) /\ p # q
    BY <1>1, <1>t, <2>1, LineLeave
  <2>6. PoolOK'
    BY <1>1, <1>t DEF PoolOK
  <2>7. Flight'
    BY <2>2, <2>3 DEF Flight, Inv, Holding
  <2>8. Line'
    <3>1. ASSUME NEW p \in Reader PROVE InLine(p)' <=> Waiting(p)'
      <4>1. CASE p = q
        BY <2>2, <2>3, <2>5, <4>1 DEF Waiting, At
      <4>2. CASE p = r
        BY <2>1, <2>2, <2>5, <4>2 DEF Inv, Line, Waiting, At, Holding
      <4>3. CASE p \notin {q, r}
        BY <2>2, <2>5, <4>3 DEF Inv, Line, Waiting, At
      <4> QED BY <4>1, <4>2, <4>3
    <3> QED BY <3>1 DEF Line
  <2>9. SlotExclusive'
    <3>1. Holds(q, s)' /\ \A p \in Reader : Holds(p, s)' => p = q
      <4>1. Holds(q, s)' /\ ~Holds(r, s)'
        BY <2>2, <2>3 DEF Holds
      <4>2. ASSUME NEW p \in Reader \ {q, r} PROVE ~Holds(p, s)'
        BY <4>2, <2>2, <1>0 DEF Holds
      <4> QED BY <4>1, <4>2
    <3>2. ASSUME NEW t \in Slot, t # s
          PROVE  \A p \in Reader : Holds(p, t)' <=> Holds(p, t)
      <4>1. ~Holds(q, t) /\ ~Holds(q, t)' /\ ~Holds(r, t) /\ ~Holds(r, t)'
        BY <3>2, <1>s, <2>1, <2>2, <2>3 DEF Holds
      <4>2. ASSUME NEW p \in Reader \ {q, r} PROVE Holds(p, t)' <=> Holds(p, t)
        BY <4>2, <2>2 DEF Holds
      <4> QED BY <4>1, <4>2 DEF Holds
    <3>3. ASSUME NEW t \in Slot, t # s
          PROVE  /\ busy'[t] <=> \E p \in Reader : Holds(p, t)'
                 /\ \A o, p \in Reader : Holds(o, t)' /\ Holds(p, t)' => o = p
      BY <3>2, <3>3, <1>1 DEF SlotExclusive, Inv
    <3>4. /\ busy'[s] <=> \E p \in Reader : Holds(p, s)'
          /\ \A o, p \in Reader : Holds(o, s)' /\ Holds(p, s)' => o = p
      BY <3>1, <1>0, <1>1
    <3> QED BY <3>3, <3>4 DEF SlotExclusive
  <2>10. NoLostWakeup'
    BY <1>1, <2>2, <2>3 DEF NoLostWakeup, Inv, Waiting, At, Usable
  <2>11. NoUnreadReuse'
    <3>1. ASSUME NEW t \in Slot, client'[t] = "unread"
          PROVE  \E p \in Reader : reader'[p].slot = t /\ reader'[p].pc \in Unread
      <4>1. t # s /\ client[t] = "unread"
        BY <1>1, <1>t, <3>1
      <4>2. PICK p \in Reader \ {r} : reader[p].slot = t /\ reader[p].pc \in Unread
        BY <1>u, <4>1
      <4> QED BY <2>1, <2>2, <4>2 DEF Unread
    <3> QED BY <3>1 DEF NoUnreadReuse, Unread
  <2>12. SharesLiveFetch'
    <3>1. reader' \in [Reader -> ReaderState]
      BY <2>4 DEF ReaderOK
    <3> QED BY <2>1, <2>2, <2>3, <3>1, FetchesGoOn DEF Holding, NoFetch
  <2> QED BY <2>4, <2>5, <2>6, <2>7, <2>8, <2>9, <2>10, <2>11, <2>12
<1>2. ASSUME \A q \in Reader : ~Chosen(q, s), reader' = [reader EXCEPT ![r] = after],
             busy' = [busy EXCEPT ![s] = FALSE], NEW left \in {"none", "fresh"}, client' = [client EXCEPT ![s] = left],
             UNCHANGED place
      PROVE  /\ ReaderOK' /\ PlaceOK' /\ PoolOK'
             /\ Flight' /\ Line' /\ SlotExclusive' /\ NoLostWakeup' /\ NoUnreadReuse' /\ SharesLiveFetch'
  <2>1. /\ reader'[r] = after
        /\ \A p \in Reader \ {r} : reader'[p] = reader[p]
        /\ ~busy'[s] /\ \A t \in Slot \ {s} : busy'[t] = busy[t]
    BY <1>2, <1>t
  <2>2. ReaderOK'
    <3>1. reader' \in [Reader -> ReaderState]
      BY <1>2, <1>t
    <3>2. \A p \in Reader : reader'[p].pc # "over" => reader'[p].seg \in Segment
      BY <1>t, <2>1 DEF Holding
    <3> QED BY <3>1, <3>2 DEF ReaderOK
  <2>3. PlaceOK'
    BY <1>2, <1>t DEF PlaceOK, InLineSet, InLine
  <2>4. PoolOK'
    BY <1>2, <1>t DEF PoolOK
  <2>5. Flight'
    BY <2>1 DEF Flight, Inv, Holding
  <2>6. Line'
    BY <1>2, <2>1 DEF Line, Inv, InLine, Waiting, At, Holding
  <2>7. SlotExclusive'
    <3>1. \A p \in Reader : ~Holds(p, s)'
      BY <1>0, <2>1 DEF Holds
    <3>2. \A p \in Reader, t \in Slot \ {s} : Holds(p, t)' <=> Holds(p, t)
      BY <1>s, <2>1 DEF Holds
    <3>3. ASSUME NEW t \in Slot \ {s}
          PROVE  /\ busy'[t] <=> \E p \in Reader : Holds(p, t)'
                 /\ \A o, p \in Reader : Holds(o, t)' /\ Holds(p, t)' => o = p
      BY <2>1, <3>2 DEF SlotExclusive, Inv
    <3>4. ~busy'[s]
      BY <2>1
    <3> QED BY <3>1, <3>3, <3>4 DEF SlotExclusive
  <2>8. NoLostWakeup'
    <3>1. \A q \in Reader : ~(Waiting(q) /\ Usable(q, s))
      BY <1>2, <1>t, ChosenExists DEF Inv, Line
    <3> QED BY <2>1, <3>1 DEF NoLostWakeup, Inv, Waiting, At, Usable
  <2>9. NoUnreadReuse'
    <3>1. ASSUME NEW t \in Slot, client'[t] = "unread"
          PROVE  \E p \in Reader : reader'[p].slot = t /\ reader'[p].pc \in Unread
      <4>1. t # s /\ client[t] = "unread"
        BY <1>2, <1>t, <3>1
      <4>2. PICK p \in Reader \ {r} : reader[p].slot = t /\ reader[p].pc \in Unread
        BY <1>u, <4>1
      <4> QED BY <2>1, <4>2
    <3> QED BY <3>1 DEF NoUnreadReuse, Unread
  <2>10. SharesLiveFetch'
    <3>1. reader' \in [Reader -> ReaderState]
      BY <2>2 DEF ReaderOK
    <3> QED BY <2>1, <3>1, FetchesGoOn DEF Holding, NoFetch
  <2> QED BY <2>2, <2>3, <2>4, <2>5, <2>6, <2>7, <2>8, <2>9, <2>10
<1> QED BY <1>s, <1>1, <1>2 DEF Release

LEMMA ReturnedInv ==
  ASSUME Inv, NEW r \in Reader, Returned(r)
  PROVE  Inv'
<1>1. reader[r].pc = "closing" /\ Release(r, Rest(r, "leave"), "none") /\ UNCHANGED <<cache, inflight, allowed>>
  BY DEF Returned, At
<1>2. ReaderOK /\ "leave" \in Pc
  BY Types DEF Inv, Pc
<1>3. Rest(r, "leave") \in ReaderState /\ Rest(r, "leave").pc = "leave" /\ Rest(r, "leave").seg = reader[r].seg
  BY <1>1, <1>2, RestType
<1>4. PICK after \in ReaderState : after = Rest(r, "leave")
  BY <1>3
<1>5. after.pc = "leave" /\ after.seg = reader[r].seg /\ Release(r, after, "none")
  BY <1>1, <1>3, <1>4
<1>6. /\ ReaderOK' /\ PlaceOK' /\ PoolOK'
      /\ Flight' /\ Line' /\ SlotExclusive' /\ NoLostWakeup' /\ NoUnreadReuse' /\ SharesLiveFetch'
  BY <1>1, <1>5, ReleaseInv DEF Holding
<1> QED BY <1>1, <1>6, StoreKept, TypesNext DEF Inv

LEMMA CompleteInv ==
  ASSUME Inv, NEW r \in Reader, Complete(r)
  PROVE  Inv'
<1>1. /\ reader[r].pc = "body" /\ Release(r, Rest(r, "settle"), "fresh") /\ UNCHANGED <<inflight, allowed>>
      /\ cache' = [cache EXCEPT ![reader[r].seg] = IF reader[r].torn THEN "repeated" ELSE "whole"]
  BY DEF Complete, AtEnd, At
<1>2. ReaderOK /\ "settle" \in Pc
  BY Types DEF Inv, Pc
<1>3. Rest(r, "settle") \in ReaderState /\ Rest(r, "settle").pc = "settle" /\ Rest(r, "settle").seg = reader[r].seg
  BY <1>1, <1>2, RestType
<1>4. PICK after \in ReaderState : after = Rest(r, "settle")
  BY <1>3
<1>5. after.pc = "settle" /\ after.seg = reader[r].seg /\ Release(r, after, "fresh")
  BY <1>1, <1>3, <1>4
<1>6. /\ ReaderOK' /\ PlaceOK' /\ PoolOK'
      /\ Flight' /\ Line' /\ SlotExclusive' /\ NoLostWakeup' /\ NoUnreadReuse' /\ SharesLiveFetch'
  BY <1>1, <1>5, ReleaseInv DEF Holding
<1>7. StoreOK'
  BY <1>1 DEF StoreOK, Inv, TypeOK
<1> QED BY <1>6, <1>7, TypesNext DEF Inv

LEMMA JudgeInv ==
  ASSUME Inv, NEW r \in Reader, Judge(r)
  PROVE  Inv'
<1> DEFINE again == [reader[r] EXCEPT !.pc = "ask", !.slot = 0, !.attempt = @ + 1]
           over == reader[r].attempt = MaxAttempts \/ Cardinality(reader[r].failed) >= Cardinality(Owners)
<1>1. /\ reader[r].pc = "judge" /\ UNCHANGED <<cache, inflight, allowed>>
      /\ Release(r, IF over THEN Rest(r, "settle") ELSE again, "none")
  BY DEF Judge, At
<1>2. ReaderOK /\ reader[r] \in ReaderState /\ "settle" \in Pc
  BY Types DEF Inv, ReaderOK, Pc
<1>3. Rest(r, "settle") \in ReaderState /\ Rest(r, "settle").pc = "settle" /\ Rest(r, "settle").seg = reader[r].seg
  BY <1>1, <1>2, RestType
<1>4. ASSUME ~over PROVE again \in ReaderState /\ again.pc = "ask" /\ again.seg = reader[r].seg
  <2>1. reader[r].attempt \in 0..MaxAttempts /\ reader[r].attempt # MaxAttempts
    BY <1>2, <1>4 DEF ReaderState
  <2>2. reader[r].attempt + 1 \in 0..MaxAttempts /\ 0 \in 0..N
    BY <2>1, AttemptBound, PoolShape
  <2> QED BY <1>2, <2>2 DEF ReaderState, Pc
<1> HIDE DEF again, over
<1>5. PICK after \in ReaderState : after.pc \in {"settle", "ask"} /\ after.seg = reader[r].seg /\ Release(r, after, "none")
  <2>1. CASE over
    BY <1>1, <1>3, <2>1
  <2>2. CASE ~over
    BY <1>1, <1>4, <2>2
  <2> QED BY <2>1, <2>2
<1>6. /\ ReaderOK' /\ PlaceOK' /\ PoolOK'
      /\ Flight' /\ Line' /\ SlotExclusive' /\ NoLostWakeup' /\ NoUnreadReuse' /\ SharesLiveFetch'
  BY <1>1, <1>5, ReleaseInv DEF Holding
<1> QED BY <1>1, <1>6, StoreKept, TypesNext DEF Inv

\* A waiter whose session is aborted leaves the line.
LEMMA AbortInLineInv ==
  ASSUME Inv, NEW r \in Reader, Abort(r), Waiting(r)
  PROVE  Inv'
<1>1. /\ reader[r].pc = "wait" /\ reader' = [reader EXCEPT ![r] = Rest(r, "settle")] /\ MoveUp(r)
      /\ UNCHANGED <<cache, inflight, busy, client, allowed>>
  BY DEF Abort, Waiting, At
<1>2. /\ ReaderOK /\ PlaceOK /\ "settle" \in Pc /\ reader \in [Reader -> ReaderState]
      /\ \A p \in Reader : reader[p].pc # "over" => reader[p].seg \in Segment
  BY Types DEF Inv, Pc, ReaderOK
<1>3. Rest(r, "settle") \in ReaderState /\ Rest(r, "settle").pc = "settle" /\ Rest(r, "settle").seg = reader[r].seg
  BY <1>1, <1>2, RestType
<1> HIDE DEF Rest
<1>4. /\ reader' \in [Reader -> ReaderState] /\ reader'[r] = Rest(r, "settle")
      /\ \A p \in Reader \ {r} : reader'[p] = reader[p]
  BY <1>1, <1>2, <1>3
<1>5. ReaderOK'
  BY <1>1, <1>2, <1>3, <1>4 DEF ReaderOK
<1>6. PlaceOK' /\ \A p \in Reader : InLine(p)' <=> InLine(p) /\ p # r
  BY <1>1, <1>2, LineLeave DEF Inv, Line, Waiting, At
<1>7. Flight'
  BY <1>3, <1>4 DEF Flight, Inv, Holding
<1>8. Line'
  BY <1>3, <1>4, <1>6 DEF Line, Inv, Waiting, At
<1>9. SlotExclusive'
  <2>1. \A p \in Reader, s \in Slot : Holds(p, s)' <=> Holds(p, s)
    BY <1>1, <1>3, <1>4 DEF Holds
  <2> QED BY <1>1, <2>1 DEF SlotExclusive, Inv
<1>10. NoLostWakeup'
  BY <1>1, <1>3, <1>4 DEF NoLostWakeup, Inv, Waiting, At, Usable
<1>11. NoUnreadReuse'
  BY <1>1, <1>4 DEF NoUnreadReuse, Inv
<1>12. SharesLiveFetch'
  BY <1>1, <1>3, <1>4, FetchesGoOn DEF NoFetch
<1> QED BY <1>1, <1>5, <1>6, <1>7, <1>8, <1>9, <1>10, <1>11, <1>12, StoreKept, PoolKept, TypesNext DEF Inv

\* A fetch takes a free slot, or waits because none is free for it.
LEMMA PickInv ==
  ASSUME Inv, NEW r \in Reader, Pick(r)
  PROVE  Inv'
<1>1. /\ reader[r].pc = "pick" /\ UNCHANGED <<cache, inflight, client, allowed>>
      /\ reader \in [Reader -> ReaderState] /\ busy \in [Slot -> BOOLEAN] /\ reader[r] \in ReaderState
      /\ \A p \in Reader : reader[p].pc # "over" => reader[p].seg \in Segment
      /\ ReaderOK /\ PlaceOK /\ ~InLine(r)
  BY Types DEF Pick, At, Inv, TypeOK, Line, Waiting
<1>2. ASSUME NEW s \in Slot, Free(r, s), busy' = [busy EXCEPT ![s] = TRUE],
             reader' = [reader EXCEPT ![r].pc = "connect", ![r].slot = s, ![r].lim = 0], UNCHANGED place
      PROVE  Inv'
  <2> DEFINE after == [reader[r] EXCEPT !.pc = "connect", !.slot = s, !.lim = 0]
  <2>0. s \in 0..N /\ 0 \in 0..N
    BY PoolShape DEF Slot
  <2>1. after \in ReaderState /\ after.pc = "connect" /\ after.slot = s /\ after.seg = reader[r].seg
    BY <1>1, <2>0 DEF ReaderState, Pc
  <2>2. /\ reader'[r] = after /\ reader' \in [Reader -> ReaderState]
        /\ \A p \in Reader \ {r} : reader'[p] = reader[p]
    BY <1>1, <1>2, <2>1
  <2> HIDE DEF after
  <2>3. busy' \in [Slot -> BOOLEAN] /\ busy'[s] /\ \A t \in Slot \ {s} : busy'[t] = busy[t]
    BY <1>1, <1>2
  <2>4. ReaderOK'
    BY <1>1, <2>1, <2>2 DEF ReaderOK
  <2>5. PlaceOK'
    BY <1>1, <1>2 DEF PlaceOK, InLineSet, InLine
  <2>6. Flight'
    BY <2>1, <2>2 DEF Flight, Inv
  <2>7. Line'
    BY <1>1, <1>2, <2>1, <2>2 DEF Line, Inv, InLine, Waiting, At
  <2>8. SlotExclusive'
    <3>1. \A p \in Reader : ~Holds(p, s)
      BY <1>2 DEF Free, Inv, SlotExclusive
    <3>2. Holds(r, s)' /\ \A p \in Reader \ {r} : ~Holds(p, s)'
      BY <2>1, <2>2, <3>1 DEF Holds
    <3>3. \A p \in Reader, t \in Slot \ {s} : Holds(p, t)' <=> Holds(p, t)
      BY <1>1, <2>1, <2>2 DEF Holds
    <3>4. ASSUME NEW t \in Slot \ {s}
          PROVE  /\ busy'[t] <=> \E p \in Reader : Holds(p, t)'
                 /\ \A o, p \in Reader : Holds(o, t)' /\ Holds(p, t)' => o = p
      BY <2>3, <3>3 DEF SlotExclusive, Inv
    <3>5. /\ busy'[s] <=> \E p \in Reader : Holds(p, s)'
          /\ \A o, p \in Reader : Holds(o, s)' /\ Holds(p, s)' => o = p
      BY <2>3, <3>2
    <3> QED BY <3>4, <3>5 DEF SlotExclusive
  <2>9. NoLostWakeup'
    BY <2>1, <2>2, <2>3 DEF NoLostWakeup, Inv, Waiting, At, Usable
  <2>10. NoUnreadReuse'
    BY <1>1, <2>2 DEF NoUnreadReuse, Inv
  <2>11. SharesLiveFetch'
    BY <1>1, <2>1, <2>2, FetchesGoOn DEF NoFetch
  <2>12. PoolOK'
    BY <1>1, <2>3 DEF PoolOK, Inv, TypeOK
  <2> QED BY <1>1, <2>4, <2>5, <2>6, <2>7, <2>8, <2>9, <2>10, <2>11, <2>12, StoreKept, TypesNext DEF Inv
<1>3. CASE (\A s \in Slot : ~Free(r, s)) /\ reader[r].aborted /\ UNCHANGED <<busy, place>>
           /\ reader' = [reader EXCEPT ![r] = Rest(r, "settle")]
  <2>1. Rest(r, "settle") \in ReaderState /\ Rest(r, "settle").pc = "settle" /\ Rest(r, "settle").seg = reader[r].seg
    BY <1>1, RestType DEF Pc
  <2>2. UNCHANGED Pool
    BY <1>1, <1>3 DEF Pool
  <2> HIDE DEF Rest
  <2> QED BY <1>1, <1>3, <2>1, <2>2, FetchStep DEF Waiting, At, NoFetch, Holding, Unread
<1>4. CASE (\A s \in Slot : ~Free(r, s)) /\ ~reader[r].aborted /\ UNCHANGED busy
           /\ reader' = [reader EXCEPT ![r].pc = "wait"]
           /\ place' = [place EXCEPT ![r] = Cardinality(InLineSet) + 1]
  <2> DEFINE after == [reader[r] EXCEPT !.pc = "wait"]
  <2>1. /\ after \in ReaderState /\ after.pc = "wait" /\ after.seg = reader[r].seg /\ after.lim = reader[r].lim
        /\ after.failed = reader[r].failed /\ after.backups = reader[r].backups
    BY <1>1 DEF ReaderState, Pc
  <2>2. /\ reader'[r] = after /\ reader' \in [Reader -> ReaderState]
        /\ \A p \in Reader \ {r} : reader'[p] = reader[p]
    BY <1>1, <1>4, <2>1
  <2> HIDE DEF after
  <2>3. ReaderOK'
    BY <1>1, <2>1, <2>2 DEF ReaderOK
  <2>4. PlaceOK' /\ \A p \in Reader : InLine(p)' <=> InLine(p) \/ p = r
    BY <1>1, <1>4, LineJoin
  <2>5. Flight'
    BY <2>1, <2>2 DEF Flight, Inv, Holding
  <2>6. Line'
    BY <2>1, <2>2, <2>4 DEF Line, Inv, Waiting, At
  <2>7. SlotExclusive'
    <3>1. \A p \in Reader, s \in Slot : Holds(p, s)' <=> Holds(p, s)
      BY <1>1, <2>1, <2>2 DEF Holds
    <3> QED BY <1>4, <3>1 DEF SlotExclusive, Inv
  <2>8. NoLostWakeup'
    <3>1. \A s \in Slot : s <= reader[r].lim /\ Usable(r, s) => busy[s]
      BY <1>4 DEF Free
    <3> QED BY <1>4, <2>1, <2>2, <3>1 DEF NoLostWakeup, Inv, Waiting, At, Usable
  <2>9. NoUnreadReuse'
    BY <1>1, <2>2 DEF NoUnreadReuse, Inv
  <2>10. SharesLiveFetch'
    BY <1>1, <2>1, <2>2, FetchesGoOn DEF NoFetch
  <2>11. PoolOK'
    BY <1>1, <1>4 DEF PoolOK, Inv, TypeOK
  <2> QED BY <1>1, <2>3, <2>4, <2>5, <2>6, <2>7, <2>8, <2>9, <2>10, <2>11, StoreKept, TypesNext DEF Inv
<1>5. \/ \E s \in Slot : /\ Free(r, s) /\ busy' = [busy EXCEPT ![s] = TRUE] /\ UNCHANGED place
                         /\ reader' = [reader EXCEPT ![r].pc = "connect", ![r].slot = s, ![r].lim = 0]
      \/ /\ (\A s \in Slot : ~Free(r, s)) /\ reader[r].aborted /\ UNCHANGED <<busy, place>>
         /\ reader' = [reader EXCEPT ![r] = Rest(r, "settle")]
      \/ /\ (\A s \in Slot : ~Free(r, s)) /\ ~reader[r].aborted /\ UNCHANGED busy
         /\ reader' = [reader EXCEPT ![r].pc = "wait"]
         /\ place' = [place EXCEPT ![r] = Cardinality(InLineSet) + 1]
  BY <1>1 DEF Pick, InLineSet
<1> QED BY <1>2, <1>3, <1>4, <1>5

-----------------------------------------------------------------------------
LEMMA NextInv == Inv /\ [Next]_vars => Inv'
<1> SUFFICES ASSUME Inv, [Next]_vars PROVE Inv'
  OBVIOUS
<1>1. ASSUME NEW r \in Reader, Fetch(r) \/ Consume(r) \/ Forget(r) PROVE Inv'
  BY <1>1, LookInv, ClaimInv, AskInv, PickInv, ConnectInv, ChunkInv, ReturnedInv, CompleteInv, FailInv, JudgeInv,
     EndInv, ResumeInv, LeaveInv DEF Fetch, Consume
<1>2. ASSUME NEW r \in Reader, Abort(r) PROVE Inv'
  BY <1>2, AbortInv, AbortInLineInv
<1>3. ASSUME NEW r \in Reader, NEW g \in Segment, NEW kind \in {"range", "kept", "whole"}, Begin(r, g, kind) PROVE Inv'
  BY <1>3, BeginInv
<1>4. CASE UNCHANGED vars
  <2>1. ReaderOK /\ PlaceOK /\ StoreOK /\ PoolOK
    BY Types DEF Inv
  <2>2. ReaderOK' /\ PlaceOK' /\ StoreOK' /\ PoolOK'
    BY <1>4, <2>1 DEF vars, ReaderOK, PlaceOK, InLineSet, InLine, StoreOK, PoolOK
  <2>3. Flight' /\ Line' /\ SlotExclusive' /\ NoLostWakeup' /\ NoUnreadReuse' /\ SharesLiveFetch'
    BY <1>4 DEF vars, Inv, Flight, Line, InLine, Waiting, At, SlotExclusive, Holds, NoLostWakeup, Usable, NoUnreadReuse,
                SharesLiveFetch, Fetching
  <2> QED BY <2>2, <2>3, TypesNext DEF Inv
<1> QED BY <1>1, <1>2, <1>3, <1>4, ElsewhereInv DEF Next

LEMMA Safety == Spec => []Inv
BY InitInv, NextInv, PTL DEF Spec

\* Every variable keeps its type, attempts included, and the places of the
\* waiters are those of an array without gaps, however they come and go.
THEOREM TypeCorrect == Spec => []TypeOK
<1>1. Inv => TypeOK
  BY DEF Inv
<1> QED BY <1>1, Safety, PTL

\* acquire and release of MountedNntpPool: a slot is marked busy exactly while
\* one reader holds it, whoever aborts, returns or fails meanwhile.
THEOREM SlotExclusiveHolds == Spec => []SlotExclusive
<1>1. Inv => SlotExclusive
  BY DEF Inv
<1> QED BY <1>1, Safety, PTL

\* release hands a slot to whoever may use it: no waiter waits beside an idle
\* slot it was ready to take, also after waiters before it were aborted.
THEOREM NoLostWakeupHolds == Spec => []NoLostWakeup
<1>1. Inv => NoLostWakeup
  BY DEF Inv
<1> QED BY <1>1, Safety, PTL

\* A connection with an unread rest belongs to the reader that left the rest:
\* it never goes back to the pool or to another reader.
THEOREM NoUnreadReuseHolds == Spec => []NoUnreadReuse
<1>1. Inv => NoUnreadReuse
  BY DEF Inv
<1> QED BY <1>1, Safety, PTL

\* inFlightSegmentFetches only names fetches in progress, and a reader that
\* shares a fetch shares one of its own segment that has not ended, although
\* two readers can claim one segment and either deletes the entry.
THEOREM SharesLiveFetchHolds == Spec => []SharesLiveFetch
<1>1. Inv => SharesLiveFetch
  BY DEF Inv
<1> QED BY <1>1, Safety, PTL

=============================================================================
