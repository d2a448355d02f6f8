-------------------------- MODULE NntpPoolProofs --------------------------
(***************************************************************************)
(* For every number of slots, readers, providers and articles, and         *)
(* whatever providers and streams do: the types of NntpPool, the exclusive *)
(* use of a slot, the absence of lost wake-ups and the use of backups as a *)
(* last resort; and, while providers only miss articles, that no request   *)
(* fails before every provider was asked.                                  *)
(***************************************************************************)
EXTENDS NntpPool, FiniteSetTheorems, WellFoundedInduction, TLAPS

\* The three invariants need each other, and two facts about a request that is
\* under way: the slot it holds is one it may use, and backups are open to it
\* only after every primary failed it.
Flight ==
  \A r \in Reader :
    /\ reader[r].pc \in {"use", "judge"} => reader[r].slot \in Slot /\ Usable(r, reader[r].slot)
    /\ reader[r].pc \notin {"over", "next"} => reader[r].art \in Article /\ reader[r].attempt \in 1..MaxAttempts
    /\ reader[r].backups => Primary \subseteq reader[r].failed

Inv == TypeOK /\ Flight /\ SlotExclusive /\ NoLostWakeup

LEMMA AttemptBound == MaxAttempts \in Nat \ {0}
<1>1. Owners \subseteq Provider
  BY PoolShape DEF Owners
<1>2. Cardinality(Owners) \in Nat
  BY <1>1, PoolShape, FS_Subset, FS_CardinalityType
<1> QED BY <1>2, PoolShape DEF MaxAttempts

\* In any set of readers one stands first in line.
LEMMA FirstInLine ==
  ASSUME NEW S \in SUBSET Reader, S # {}, place \in [Reader -> Nat]
  PROVE  \E r \in S : \A q \in S : place[r] <= place[q]
<1> DEFINE T == {place[r] : r \in S}
<1>1. T \subseteq Nat /\ T # {}
  OBVIOUS
<1>2. \E m \in T : \A n \in T : ~(<<n, m>> \in OpToRel(<, Nat))
  BY <1>1, NatLessThanWellFounded, WFMin
<1>3. PICK m \in T : \A n \in T : ~(n < m)
  BY <1>1, <1>2 DEF OpToRel
<1> QED BY <1>3

LEMMA ChosenExists ==
  ASSUME place \in [Reader -> Nat], NEW s, NEW q \in Reader, Waiting(q), Usable(q, s)
  PROVE  \E r \in Reader : Chosen(r, s)
<1> DEFINE S == {r \in Reader : Waiting(r) /\ Usable(r, s)}
<1>1. PICK r \in S : \A p \in S : place[r] <= place[p]
  BY FirstInLine
<1> QED BY <1>1 DEF Chosen

LEMMA NoReaderType == NoReader \in ReaderState
<1>1. 0 \in 0..Articles /\ 0 \in 0..N /\ 0 \in 0..(MaxAttempts + 1)
  BY AttemptBound, PoolShape, Bounds
<1>2. "over" \in Pc
  BY DEF Pc
<1> QED BY <1>1, <1>2 DEF NoReader, ReaderState

LEMMA InitInv == Init => Inv
<1> SUFFICES ASSUME Init PROVE Inv
  OBVIOUS
<1> USE DEF Init
<1>1. TypeOK
  <2>1. reader \in [Reader -> ReaderState] /\ place \in [Reader -> Nat]
    BY NoReaderType
  <2>2. allowed \in 0..N /\ next \in 1..(Articles + 1) /\ runs \in 0..MaxRuns
    BY PoolShape, Bounds
  <2>3. busy \in [Slot -> BOOLEAN] /\ client \in [Slot -> BOOLEAN]
    OBVIOUS
  <2>4. cached \subseteq Article /\ changed \in BOOLEAN /\ prep \in {"idle", "verify", "sample", "prepared", "failed"}
    OBVIOUS
  <2> QED BY <2>1, <2>2, <2>3, <2>4 DEF TypeOK
<1>2. Flight
  BY DEF Flight, NoReader
<1>3. SlotExclusive /\ NoLostWakeup
  BY DEF SlotExclusive, NoLostWakeup, Holds, Waiting, At, NoReader
<1> QED BY <1>1, <1>2, <1>3 DEF Inv

\* What releasing a slot does, whatever its holder goes on with: the slot goes
\* to one waiter that may use it, or to nobody because none may.
LEMMA ReleaseInv ==
  ASSUME Inv, NEW r \in Reader, reader[r].pc \in {"use", "judge"},
         NEW after \in ReaderState, after.pc \in {"over", "next", "ask"},
         after.pc = "ask" => after.art \in Article /\ after.attempt \in 1..MaxAttempts,
         after.backups => Primary \subseteq after.failed,
         Release(r, after)
  PROVE  /\ reader' \in [Reader -> ReaderState] /\ busy' \in [Slot -> BOOLEAN] /\ place' \in [Reader -> Nat]
         /\ Flight' /\ SlotExclusive' /\ NoLostWakeup'
<1>s. PICK s \in Slot : s = reader[r].slot
  BY DEF Inv, Flight
<1>t. /\ reader \in [Reader -> ReaderState] /\ busy \in [Slot -> BOOLEAN] /\ place \in [Reader -> Nat]
      /\ s \in Slot /\ s \in 0..N
  BY <1>s DEF Inv, TypeOK, Slot
<1>0. busy[s] /\ Holds(r, s) /\ \A p \in Reader : Holds(p, s) => p = r
  BY <1>s, <1>t DEF Inv, SlotExclusive, Holds
<1>1. ASSUME NEW q \in Reader, Chosen(q, s),
             reader' = [reader EXCEPT ![r] = after, ![q].pc = "use", ![q].slot = s],
             MoveUp(q), busy' = [busy EXCEPT ![s] = TRUE]
      PROVE  /\ reader' \in [Reader -> ReaderState] /\ busy' \in [Slot -> BOOLEAN] /\ place' \in [Reader -> Nat]
             /\ Flight' /\ SlotExclusive' /\ NoLostWakeup'
  <2>1. q # r /\ reader[q].pc = "wait" /\ Usable(q, s)
    BY <1>1 DEF Chosen, Waiting, At
  <2>2. /\ reader'[r] = after
        /\ reader'[q] = [reader[q] EXCEPT !.pc = "use", !.slot = s]
        /\ \A p \in Reader \ {q, r} : reader'[p] = reader[p]
    BY <1>1, <1>t, <2>1
  <2>3. [reader[q] EXCEPT !.pc = "use", !.slot = s] \in ReaderState
    <3>1. reader[q] \in ReaderState /\ "use" \in Pc
      BY <1>t DEF Pc
    <3> QED BY <1>t, <3>1 DEF ReaderState
  <2>4. reader' \in [Reader -> ReaderState]
    <3>1. [reader EXCEPT ![r] = after] \in [Reader -> ReaderState]
      BY <1>t
    <3>2. \A p \in Reader : reader'[p] \in ReaderState
      BY <1>t, <2>2, <2>3
    <3>3. DOMAIN reader' = Reader /\ reader' = [p \in Reader |-> reader'[p]]
      BY <1>1, <1>t
    <3> HIDE DEF ReaderState
    <3> QED BY <3>2, <3>3
  <2>5. busy' = busy
    BY <1>1, <1>0, <1>t
  <2>6. place' \in [Reader -> Nat]
    BY <1>1, <1>t DEF MoveUp
  <2>7. reader'[q].pc = "use" /\ reader'[q].slot = s /\ reader'[q].failed = reader[q].failed
        /\ reader'[q].backups = reader[q].backups /\ reader'[q].art = reader[q].art
        /\ reader'[q].attempt = reader[q].attempt
    BY <2>2, <1>t DEF ReaderState
  <2>8. Flight'
    <3> SUFFICES ASSUME NEW p \in Reader
                 PROVE  /\ reader'[p].pc \in {"use", "judge"} => reader'[p].slot \in Slot /\ Usable(p, reader[p].slot)'
                        /\ reader'[p].pc \notin {"over", "next"} =>
                             reader'[p].art \in Article /\ reader'[p].attempt \in 1..MaxAttempts
                        /\ reader'[p].backups => Primary \subseteq reader'[p].failed
      BY DEF Flight
    <3>1. CASE p = q
      BY <3>1, <2>1, <2>7, <1>t DEF Flight, Inv, Usable
    <3>2. CASE p = r
      BY <3>2, <2>1, <2>2
    <3>3. CASE p \notin {q, r}
      BY <3>3, <2>2 DEF Flight, Inv, Usable
    <3> QED BY <3>1, <3>2, <3>3
  <2>9. SlotExclusive'
    <3>1. reader'[r].pc \notin {"use", "judge"}
      BY <2>2
    <3>2. Holds(q, s)' /\ \A p \in Reader : Holds(p, s)' => p = q
      <4>1. Holds(q, s)' /\ ~Holds(r, s)'
        BY <2>7, <3>1 DEF Holds
      <4>2. ASSUME NEW p \in Reader \ {q, r} PROVE ~Holds(p, s)'
        BY <4>2, <2>2, <1>0 DEF Holds
      <4> QED BY <4>1, <4>2
    <3>3. ASSUME NEW t \in Slot, t # s
          PROVE  \A p \in Reader : Holds(p, t)' <=> Holds(p, t)
      <4>1. ~Holds(q, t) /\ ~Holds(q, t)' /\ ~Holds(r, t) /\ ~Holds(r, t)'
        BY <3>3, <1>s, <2>1, <2>7, <3>1 DEF Holds
      <4>2. ASSUME NEW p \in Reader \ {q, r} PROVE Holds(p, t)' <=> Holds(p, t)
        BY <4>2, <2>2 DEF Holds
      <4> QED BY <4>1, <4>2 DEF Holds
    <3>4. ASSUME NEW t \in Slot, t # s
          PROVE  /\ busy'[t] <=> \E p \in Reader : Holds(p, t)'
                 /\ \A o, p \in Reader : Holds(o, t)' /\ Holds(p, t)' => o = p
      BY <3>3, <3>4, <2>5 DEF SlotExclusive, Inv
    <3>5. /\ busy'[s] <=> \E p \in Reader : Holds(p, s)'
          /\ \A o, p \in Reader : Holds(o, s)' /\ Holds(p, s)' => o = p
      BY <3>2, <2>5, <1>0
    <3> QED BY <3>4, <3>5 DEF SlotExclusive
  <2>10. NoLostWakeup'
    BY <2>1, <2>2, <2>5, <2>7 DEF NoLostWakeup, Inv, Waiting, At, Usable
  <2> QED BY <2>4, <2>5, <2>6, <2>8, <2>9, <2>10, <1>t
<1>2. ASSUME \A q \in Reader : ~Chosen(q, s),
             reader' = [reader EXCEPT ![r] = after], busy' = [busy EXCEPT ![s] = FALSE], UNCHANGED place
      PROVE  /\ reader' \in [Reader -> ReaderState] /\ busy' \in [Slot -> BOOLEAN] /\ place' \in [Reader -> Nat]
             /\ Flight' /\ SlotExclusive' /\ NoLostWakeup'
  <2>1. /\ reader'[r] = after
        /\ \A p \in Reader \ {r} : reader'[p] = reader[p]
        /\ ~busy'[s] /\ \A t \in Slot \ {s} : busy'[t] = busy[t]
    BY <1>2, <1>t
  <2>2. \A q \in Reader : ~(Waiting(q) /\ Usable(q, s))
    BY <1>2, <1>t, ChosenExists
  <2>3. Flight'
    BY <2>1 DEF Flight, Inv, Usable
  <2>4. SlotExclusive'
    BY <2>1, <1>0, <1>t DEF SlotExclusive, Inv, Holds
  <2>5. NoLostWakeup'
    BY <2>1, <2>2, <1>t DEF NoLostWakeup, Inv, Waiting, At, Usable
  <2> QED BY <1>2, <1>t, <2>3, <2>4, <2>5
<1> QED BY <1>s, <1>1, <1>2 DEF Release

\* A reader that holds no slot moves on without asking for one.
LEMMA MoveInv ==
  ASSUME Inv, NEW r \in Reader, reader[r].pc \notin {"use", "judge"},
         NEW after \in ReaderState, after.pc \in {"over", "next", "ask", "count", "pick"},
         after.pc \notin {"over", "next"} => after.art \in Article /\ after.attempt \in 1..MaxAttempts,
         after.backups => Primary \subseteq after.failed,
         reader' = [reader EXCEPT ![r] = after], busy' = busy
  PROVE  reader' \in [Reader -> ReaderState] /\ Flight' /\ SlotExclusive' /\ NoLostWakeup'
<1>1. /\ reader' \in [Reader -> ReaderState] /\ reader'[r] = after
      /\ \A p \in Reader \ {r} : reader'[p] = reader[p]
  BY DEF Inv, TypeOK
<1>2. Flight'
  BY <1>1 DEF Flight, Inv, Usable
<1>3. SlotExclusive'
  <2>1. \A p \in Reader, t \in Slot : Holds(p, t)' <=> Holds(p, t)
    BY <1>1 DEF Holds
  <2> QED BY <2>1 DEF SlotExclusive, Inv
<1>4. NoLostWakeup'
  BY <1>1 DEF NoLostWakeup, Inv, Waiting, At, Usable
<1> QED BY <1>1, <1>2, <1>3, <1>4

\* The head of an attempt.
LEMMA BeginInv ==
  ASSUME Inv, NEW r \in Reader, At(r, "next"), NEW a \in Article, Begin(r, a), busy' = busy
  PROVE  /\ reader' \in [Reader -> ReaderState] /\ Flight' /\ SlotExclusive' /\ NoLostWakeup'
         /\ prep' \in {"idle", "verify", "sample", "prepared", "failed"}
<1>1. prep' \in {"idle", "verify", "sample", "prepared", "failed"}
  BY DEF Begin, PrepFails, Inv, TypeOK
<1>2. CASE changed
  <2>1. [NoReader EXCEPT !.thrown = "changed"] \in ReaderState
    BY NoReaderType DEF ReaderState
  <2>2. reader' = [reader EXCEPT ![r] = [NoReader EXCEPT !.thrown = "changed"]]
    BY <1>2 DEF Begin
  <2> QED BY <1>1, <2>1, <2>2, MoveInv DEF At, NoReader
<1>3. CASE ~changed
  <2> DEFINE after == [NoReader EXCEPT !.pc = "ask", !.art = a, !.attempt = 1, !.backups = (Primary = {})]
  <2>1. 1 \in 1..MaxAttempts /\ 1 \in 0..(MaxAttempts + 1) /\ a \in 0..Articles
    BY AttemptBound, Bounds DEF Article
  <2>2. after \in ReaderState
    BY <2>1, NoReaderType DEF ReaderState, Pc
  <2>3. reader' = [reader EXCEPT ![r] = after]
    BY <1>3 DEF Begin
  <2>4. after.pc = "ask" /\ after.art = a /\ after.attempt = 1 /\ (after.backups => Primary \subseteq after.failed)
    BY DEF NoReader
  <2> HIDE DEF after
  <2> QED BY <1>1, <2>1, <2>2, <2>3, <2>4, MoveInv DEF At
<1> QED BY <1>2, <1>3

LEMMA NextArticleInv ==
  ASSUME Inv, NEW r \in Reader, NextArticle(r)
  PROVE  Inv'
<1> USE DEF NextArticle
<1>1. /\ At(r, "next") /\ UNCHANGED <<busy, client, place, allowed, cached, changed, runs>>
      /\ next \in 1..(Articles + 1) /\ prep \in {"idle", "verify", "sample", "prepared", "failed"}
  BY DEF Inv, TypeOK
<1>2. CASE next > Articles
  <2>1. reader' = [reader EXCEPT ![r] = NoReader] /\ UNCHANGED <<next, prep>>
    BY <1>2
  <2>2. reader' \in [Reader -> ReaderState] /\ Flight' /\ SlotExclusive' /\ NoLostWakeup'
    BY <2>1, <1>1, NoReaderType, MoveInv DEF At, NoReader
  <2> QED BY <2>1, <2>2, <1>1 DEF Inv, TypeOK
<1>3. CASE ~(next > Articles)
  <2>1. next \in Article /\ next' \in 1..(Articles + 1) /\ Begin(r, next)
    BY <1>3, <1>1, Bounds DEF Article
  <2>2. /\ reader' \in [Reader -> ReaderState] /\ Flight' /\ SlotExclusive' /\ NoLostWakeup'
        /\ prep' \in {"idle", "verify", "sample", "prepared", "failed"}
    BY <2>1, <1>1, BeginInv
  <2> QED BY <2>1, <2>2, <1>1 DEF Inv, TypeOK
<1> QED BY <1>2, <1>3

LEMMA NextSampleInv == Inv /\ NextSample => Inv'
<1> SUFFICES ASSUME Inv, NextSample PROVE Inv'
  OBVIOUS
<1>1. Main \in Reader /\ At(Main, "next") /\ UNCHANGED <<busy, client, place, allowed, cached, next, changed, runs>>
  BY DEF NextSample, Reader
<1>2. reader[Main].art \in 0..Articles
  BY <1>1 DEF Inv, TypeOK, ReaderState
<1>3. reader[Main].art + 1 \in Article
  BY <1>2, Bounds DEF NextSample, Article
<1>4. Begin(Main, reader[Main].art + 1)
  BY DEF NextSample
<1>5. /\ reader' \in [Reader -> ReaderState] /\ Flight' /\ SlotExclusive' /\ NoLostWakeup'
      /\ prep' \in {"idle", "verify", "sample", "prepared", "failed"}
  BY <1>1, <1>3, <1>4, BeginInv
<1> QED BY <1>1, <1>5 DEF Inv, TypeOK

LEMMA AskInv ==
  ASSUME Inv, NEW r \in Reader, Ask(r)
  PROVE  Inv'
<1> DEFINE after == [reader[r] EXCEPT !.pc = "count"]
<1>1. At(r, "ask") /\ UNCHANGED <<busy, client, place, allowed, cached, next, changed, prep, runs>>
  BY DEF Ask
<1>2. reader[r] \in ReaderState /\ after \in ReaderState
  BY DEF Inv, TypeOK, ReaderState, Pc
<1>3. reader' = [reader EXCEPT ![r] = after]
  BY <1>2 DEF Ask
<1>4. /\ after.pc = "count" /\ after.art \in Article /\ after.attempt \in 1..MaxAttempts
      /\ (after.backups => Primary \subseteq after.failed)
  BY <1>1, <1>2 DEF Inv, Flight, At, ReaderState
<1> HIDE DEF after
<1>5. reader' \in [Reader -> ReaderState] /\ Flight' /\ SlotExclusive' /\ NoLostWakeup'
  BY <1>1, <1>2, <1>3, <1>4, MoveInv DEF At
<1> QED BY <1>1, <1>5 DEF Inv, TypeOK

LEMMA CountInv ==
  ASSUME Inv, NEW r \in Reader, Count(r)
  PROVE  Inv'
<1> DEFINE lim == IF allowed > 1 THEN allowed ELSE 1
           after == [reader[r] EXCEPT !.pc = "pick", !.lim = lim]
<1>1. At(r, "count") /\ UNCHANGED <<busy, client, place, allowed, cached, next, changed, prep, runs>>
  BY DEF Count
<1>2. reader[r] \in ReaderState /\ lim \in 0..N
  BY PoolShape DEF Inv, TypeOK
<1>3. reader' = [reader EXCEPT ![r] = after]
  BY <1>2 DEF Count
<1> HIDE DEF lim
<1>4. after \in ReaderState
  BY <1>2 DEF ReaderState, Pc
<1>5. /\ after.pc = "pick" /\ after.art \in Article /\ after.attempt \in 1..MaxAttempts
      /\ (after.backups => Primary \subseteq after.failed)
  BY <1>1, <1>2 DEF Inv, Flight, At, ReaderState
<1> HIDE DEF after
<1>6. reader' \in [Reader -> ReaderState] /\ Flight' /\ SlotExclusive' /\ NoLostWakeup'
  BY <1>1, <1>3, <1>4, <1>5, MoveInv DEF At
<1> QED BY <1>1, <1>6 DEF Inv, TypeOK

\* A reader takes a free slot, or waits because none is free for it.
LEMMA PickInv ==
  ASSUME Inv, NEW r \in Reader, Pick(r)
  PROVE  Inv'
<1>1. /\ reader[r].pc = "pick" /\ UNCHANGED <<client, allowed, cached, next, changed, prep, runs>>
      /\ reader \in [Reader -> ReaderState] /\ busy \in [Slot -> BOOLEAN] /\ place \in [Reader -> Nat]
      /\ reader[r] \in ReaderState
  BY DEF Pick, At, Inv, TypeOK
<1>2. ASSUME NEW s \in Slot, Free(r, s), busy' = [busy EXCEPT ![s] = TRUE],
             reader' = [reader EXCEPT ![r].pc = "use", ![r].slot = s], UNCHANGED place
      PROVE  Inv'
  <2> DEFINE after == [reader[r] EXCEPT !.pc = "use", !.slot = s]
  <2>0. s \in 0..N
    BY DEF Slot
  <2>1. after \in ReaderState
    BY <1>1, <2>0 DEF ReaderState, Pc
  <2>2. /\ reader'[r] = after /\ reader' \in [Reader -> ReaderState]
        /\ \A p \in Reader \ {r} : reader'[p] = reader[p]
    BY <1>1, <1>2, <2>1
  <2>3. /\ after.pc = "use" /\ after.slot = s /\ after.failed = reader[r].failed
        /\ after.backups = reader[r].backups /\ after.art = reader[r].art /\ after.attempt = reader[r].attempt
    BY <1>1 DEF ReaderState
  <2> HIDE DEF after
  <2>4. busy' \in [Slot -> BOOLEAN] /\ busy'[s] /\ \A t \in Slot \ {s} : busy'[t] = busy[t]
    BY <1>1, <1>2
  <2>5. Flight'
    BY <1>1, <1>2, <2>2, <2>3 DEF Flight, Inv, Usable, Free
  <2>6. \A p \in Reader : ~Holds(p, s)
    BY <1>2 DEF Free, Inv, SlotExclusive
  <2>7. SlotExclusive'
    <3>1. Holds(r, s)' /\ \A p \in Reader \ {r} : ~Holds(p, s)'
      BY <2>2, <2>3, <2>6 DEF Holds
    <3>2. \A p \in Reader, t \in Slot \ {s} : Holds(p, t)' <=> Holds(p, t)
      BY <1>1, <2>2, <2>3 DEF Holds
    <3>3. ASSUME NEW t \in Slot \ {s}
          PROVE  /\ busy'[t] <=> \E p \in Reader : Holds(p, t)'
                 /\ \A o, p \in Reader : Holds(o, t)' /\ Holds(p, t)' => o = p
      BY <3>2, <2>4 DEF SlotExclusive, Inv
    <3>4. /\ busy'[s] <=> \E p \in Reader : Holds(p, s)'
          /\ \A o, p \in Reader : Holds(o, s)' /\ Holds(p, s)' => o = p
      BY <3>1, <2>4 DEF Holds
    <3> QED BY <3>3, <3>4 DEF SlotExclusive
  <2>8. NoLostWakeup'
    BY <2>2, <2>3, <2>4 DEF NoLostWakeup, Inv, Waiting, At, Usable
  <2> QED BY <1>1, <1>2, <2>2, <2>4, <2>5, <2>7, <2>8 DEF Inv, TypeOK
<1>3. ASSUME \A s \in Slot : ~Free(r, s), reader' = [reader EXCEPT ![r].pc = "wait"],
             place' = [place EXCEPT ![r] = Cardinality({q \in Reader : Waiting(q)})], UNCHANGED busy
      PROVE  Inv'
  <2> DEFINE after == [reader[r] EXCEPT !.pc = "wait"]
  <2>1. after \in ReaderState
    BY <1>1 DEF ReaderState, Pc
  <2>2. /\ reader'[r] = after /\ reader' \in [Reader -> ReaderState]
        /\ \A p \in Reader \ {r} : reader'[p] = reader[p]
    BY <1>1, <1>3, <2>1
  <2>3. /\ after.pc = "wait" /\ after.failed = reader[r].failed /\ after.lim = reader[r].lim
        /\ after.backups = reader[r].backups /\ after.art = reader[r].art /\ after.attempt = reader[r].attempt
    BY <1>1 DEF ReaderState
  <2> HIDE DEF after
  <2>4. Cardinality({q \in Reader : Waiting(q)}) \in Nat
    <3>1. IsFiniteSet(Reader)
      BY Bounds, FS_Singleton, FS_Union DEF Reader
    <3>2. {q \in Reader : Waiting(q)} \subseteq Reader
      OBVIOUS
    <3> QED BY <3>1, <3>2, FS_Subset, FS_CardinalityType
  <2>5. place' \in [Reader -> Nat]
    BY <1>1, <1>3, <2>4
  <2>6. Flight'
    BY <1>1, <2>2, <2>3 DEF Flight, Inv, Usable
  <2>7. SlotExclusive'
    <3>1. \A p \in Reader, t \in Slot : Holds(p, t)' <=> Holds(p, t)
      BY <1>1, <2>2, <2>3 DEF Holds
    <3> QED BY <3>1, <1>3 DEF SlotExclusive, Inv
  <2>8. NoLostWakeup'
    <3>1. \A s \in Slot : s <= reader[r].lim /\ Usable(r, s) => busy[s]
      BY <1>3 DEF Free
    <3> QED BY <3>1, <1>3, <2>2, <2>3 DEF NoLostWakeup, Inv, Waiting, At, Usable
  <2> QED BY <1>1, <1>3, <2>2, <2>5, <2>6, <2>7, <2>8 DEF Inv, TypeOK
<1> QED BY <1>2, <1>3 DEF Pick

LEMMA DeliverInv ==
  ASSUME Inv, NEW r \in Reader, Deliver(r)
  PROVE  Inv'
<1> DEFINE done == [NoReader EXCEPT !.pc = "next", !.art = reader[r].art]
           empty == [NoReader EXCEPT !.thrown = "empty"]
<1>1. /\ reader[r].pc = "use" /\ UNCHANGED <<allowed, cached, next, changed, runs>>
      /\ reader[r] \in ReaderState /\ client' \in [Slot -> BOOLEAN]
  BY DEF Deliver, At, Inv, TypeOK
<1>2. done \in ReaderState /\ empty \in ReaderState
  BY <1>1, NoReaderType DEF ReaderState, Pc
<1>3. done.pc = "next" /\ ~done.backups /\ empty.pc = "over" /\ ~empty.backups
  BY DEF NoReader
<1>4. prep' \in {"idle", "verify", "sample", "prepared", "failed"}
  BY DEF Deliver, PrepFails, Inv, TypeOK
<1>5. Release(r, done) \/ Release(r, empty)
  BY DEF Deliver
<1> HIDE DEF done, empty
<1>6. /\ reader' \in [Reader -> ReaderState] /\ busy' \in [Slot -> BOOLEAN] /\ place' \in [Reader -> Nat]
      /\ Flight' /\ SlotExclusive' /\ NoLostWakeup'
  BY <1>1, <1>2, <1>3, <1>5, ReleaseInv
<1> QED BY <1>1, <1>4, <1>6 DEF Inv, TypeOK

LEMMA FailInv ==
  ASSUME Inv, NEW r \in Reader, Fail(r)
  PROVE  Inv'
<1>1. /\ reader[r].pc = "use" /\ UNCHANGED <<busy, place, allowed, next, changed, prep, runs>>
      /\ reader[r] \in ReaderState /\ client' \in [Slot -> BOOLEAN] /\ reader \in [Reader -> ReaderState]
  BY DEF Fail, At, Inv, TypeOK
<1>2. PICK error \in {"missing", "refused", "temporary", "other"} :
        /\ reader' = [reader EXCEPT ![r].pc = "judge", ![r].error = error]
        /\ cached' = IF error = "missing" THEN cached \union {reader[r].art} ELSE cached
  BY DEF Fail
<1>3. cached' \subseteq Article
  BY <1>1, <1>2 DEF Inv, TypeOK, Flight
<1> DEFINE after == [reader[r] EXCEPT !.pc = "judge", !.error = error]
<1>4. after \in ReaderState
  BY <1>1 DEF ReaderState, Pc
<1>5. /\ reader'[r] = after /\ reader' \in [Reader -> ReaderState]
      /\ \A p \in Reader \ {r} : reader'[p] = reader[p]
  BY <1>1, <1>2, <1>4
<1>6. /\ after.pc = "judge" /\ after.failed = reader[r].failed /\ after.slot = reader[r].slot
      /\ after.backups = reader[r].backups /\ after.art = reader[r].art /\ after.attempt = reader[r].attempt
  BY <1>1 DEF ReaderState
<1> HIDE DEF after
<1>7. Flight'
  BY <1>1, <1>5, <1>6 DEF Flight, Inv, Usable
<1>8. SlotExclusive'
  <2>1. \A p \in Reader, t \in Slot : Holds(p, t)' <=> Holds(p, t)
    BY <1>1, <1>5, <1>6 DEF Holds
  <2> QED BY <2>1, <1>1 DEF SlotExclusive, Inv
<1>9. NoLostWakeup'
  BY <1>1, <1>5, <1>6 DEF NoLostWakeup, Inv, Waiting, At, Usable
<1> QED BY <1>1, <1>3, <1>5, <1>7, <1>8, <1>9 DEF Inv, TypeOK

LEMMA JudgeInv ==
  ASSUME Inv, NEW r \in Reader, Judge(r)
  PROVE  Inv'
<1>1. /\ reader[r].pc = "judge" /\ UNCHANGED <<client, allowed, cached, next, changed, runs>>
      /\ reader[r] \in ReaderState /\ Owner[reader[r].slot] \in Provider
      /\ reader[r].art \in Article /\ reader[r].attempt \in 1..MaxAttempts
      /\ (reader[r].backups => Primary \subseteq reader[r].failed)
  BY PoolShape DEF Judge, At, Inv, TypeOK, Flight
<1>2. Judged(r).attempt = reader[r].attempt + 1 /\ Judged(r).pc = "ask" /\ Judged(r).art = reader[r].art
  BY <1>1 DEF Judged, ReaderState
<1>3. reader[r].attempt + 1 \in 0..(MaxAttempts + 1)
  BY <1>1, AttemptBound
<1>4. Judged(r) \in ReaderState
  <2> DEFINE p == Owner[reader[r].slot]
             failed == reader[r].failed \union (IF reader[r].error = "temporary" THEN {} ELSE {p})
             refused == IF reader[r].error = "refused" THEN reader[r].refused \union {p} ELSE reader[r].refused
             backups == reader[r].backups \/ Primary \subseteq failed
  <2>1. failed \in SUBSET Provider /\ refused \in SUBSET Provider /\ backups \in BOOLEAN
    BY <1>1 DEF ReaderState
  <2>2. Judged(r) = [reader[r] EXCEPT !.failed = failed, !.pc = "ask", !.attempt = reader[r].attempt + 1, !.slot = 0,
                       !.error = "none", !.refused = refused, !.backups = backups]
    BY <1>1 DEF Judged, ReaderState
  <2>3. 0 \in 0..N
    BY PoolShape
  <2> HIDE DEF failed, refused, backups
  <2> QED BY <1>1, <1>3, <2>1, <2>2, <2>3 DEF ReaderState, Pc
<1>5. Judged(r).backups => Primary \subseteq Judged(r).failed
  BY <1>1 DEF Judged, ReaderState
<1>6. \A t \in {"refusedAll", "allFailed"} :
        /\ [Judged(r) EXCEPT !.pc = "over", !.thrown = t] \in ReaderState
        /\ [Judged(r) EXCEPT !.pc = "over", !.thrown = t].pc = "over"
        /\ [Judged(r) EXCEPT !.pc = "over", !.thrown = t].backups = Judged(r).backups
        /\ [Judged(r) EXCEPT !.pc = "over", !.thrown = t].failed = Judged(r).failed
  BY <1>4 DEF ReaderState, Pc
<1>7. prep' \in {"idle", "verify", "sample", "prepared", "failed"}
  BY DEF Judge, PrepFails, Inv, TypeOK
<1>8. \/ Release(r, Judged(r)) /\ Judged(r).attempt \in 1..MaxAttempts
      \/ \E t \in {"refusedAll", "allFailed"} : Release(r, [Judged(r) EXCEPT !.pc = "over", !.thrown = t])
  <2>1. \/ Release(r, Judged(r)) /\ ~(Judged(r).attempt > MaxAttempts)
        \/ Release(r, [Judged(r) EXCEPT !.pc = "over", !.thrown = "refusedAll"])
        \/ Release(r, [Judged(r) EXCEPT !.pc = "over", !.thrown = "allFailed"])
    <3> HIDE DEF Release, Judged
    <3> QED BY Zenon DEF Judge
  <2>2. ~(Judged(r).attempt > MaxAttempts) => Judged(r).attempt \in 1..MaxAttempts
    BY <1>1, <1>2, AttemptBound
  <2> QED BY <2>1, <2>2
<1>9. /\ reader' \in [Reader -> ReaderState] /\ busy' \in [Slot -> BOOLEAN] /\ place' \in [Reader -> Nat]
      /\ Flight' /\ SlotExclusive' /\ NoLostWakeup'
  <2>1. CASE Release(r, Judged(r)) /\ Judged(r).attempt \in 1..MaxAttempts
    BY <2>1, <1>1, <1>2, <1>4, <1>5, ReleaseInv
  <2>2. ASSUME NEW t \in {"refusedAll", "allFailed"}, Release(r, [Judged(r) EXCEPT !.pc = "over", !.thrown = t])
        PROVE  /\ reader' \in [Reader -> ReaderState] /\ busy' \in [Slot -> BOOLEAN] /\ place' \in [Reader -> Nat]
               /\ Flight' /\ SlotExclusive' /\ NoLostWakeup'
    <3> DEFINE after == [Judged(r) EXCEPT !.pc = "over", !.thrown = t]
    <3>1. after \in ReaderState /\ after.pc = "over" /\ (after.backups => Primary \subseteq after.failed)
      BY <1>5, <1>6
    <3>2. Release(r, after)
      BY <2>2
    <3> HIDE DEF after
    <3> QED BY <3>1, <3>2, <1>1, ReleaseInv
  <2> QED BY <2>1, <2>2, <1>8
<1> QED BY <1>1, <1>7, <1>9 DEF Inv, TypeOK

LEMMA StartInv == Inv /\ Start => Inv'
<1> SUFFICES ASSUME Inv, Start PROVE Inv'
  OBVIOUS
<1>1. /\ runs' = runs + 1 /\ runs < MaxRuns /\ next' = 1 /\ changed' = FALSE /\ UNCHANGED <<place, allowed, cached>>
      /\ busy' = [s \in Slot |-> FALSE] /\ client' = [s \in Slot |-> FALSE] /\ prep' \in {"verify", "failed"}
  BY DEF Start
<1>2. runs' \in 0..MaxRuns /\ next' \in 1..(Articles + 1)
  BY <1>1, Bounds DEF Inv, TypeOK
<1> DEFINE ready == [NoReader EXCEPT !.pc = "next"]
<1>3. ready \in ReaderState /\ ready.pc = "next" /\ ~ready.backups /\ NoReader.pc = "over" /\ ~NoReader.backups
  BY NoReaderType DEF ReaderState, Pc, NoReader
<1>4. \/ reader' = [r \in Reader |-> IF r \in Checker THEN ready ELSE NoReader]
      \/ reader' = reader /\ \A r \in Reader : reader[r].pc = "over"
  BY DEF Start, At
<1> HIDE DEF ready
<1>5. /\ reader' \in [Reader -> ReaderState] /\ \A r \in Reader : reader'[r].pc \in {"over", "next"}
      /\ \A r \in Reader : reader'[r].backups => Primary \subseteq reader'[r].failed
  BY <1>3, <1>4, NoReaderType DEF Inv, TypeOK, Flight
<1>6. Flight' /\ SlotExclusive' /\ NoLostWakeup'
  BY <1>1, <1>5 DEF Flight, SlotExclusive, NoLostWakeup, Holds, Waiting, At
<1> QED BY <1>1, <1>2, <1>5, <1>6 DEF Inv, TypeOK

\* The main process reads nothing while the checkers are at work.
MainIdle == prep = "verify" => At(Main, "over")

LEMMA MainIdleInv == Inv /\ MainIdle /\ [Next]_vars => MainIdle'
<1> SUFFICES ASSUME Inv, MainIdle, [Next]_vars, prep' = "verify" PROVE reader'[Main].pc = "over"
  BY DEF MainIdle, At
<1>1. reader \in [Reader -> ReaderState] /\ Main \in Reader
  BY DEF Inv, TypeOK, Reader
<1>2. ASSUME NEW r \in Reader, NEW after, Release(r, after), At(Main, "over"), r # Main
      PROVE  reader'[Main] = reader[Main]
  BY <1>1, <1>2 DEF Release, Chosen, Waiting, At
<1>3. ASSUME NEW r \in Reader, Read(r) PROVE reader'[Main].pc = "over"
  <2>1. prep = "verify" /\ reader[Main].pc = "over"
    BY <1>3 DEF Read, NextArticle, Begin, PrepFails, Ask, Count, Pick, Deliver, Fail, Judge, MainIdle, At
  <2>2. r # Main
    BY <1>3, <2>1 DEF Read, NextArticle, Ask, Count, Pick, Deliver, Fail, Judge, At
  <2>3. CASE NextArticle(r) \/ Ask(r) \/ Count(r) \/ Pick(r) \/ Fail(r)
    BY <2>1, <2>2, <2>3, <1>1 DEF NextArticle, Begin, Ask, Count, Pick, Fail
  <2>4. CASE Deliver(r) \/ Judge(r)
    <3>1. \E after : Release(r, after)
      BY <2>4 DEF Deliver, Judge
    <3> QED BY <3>1, <2>1, <2>2, <1>2 DEF At
  <2> QED BY <1>3, <2>3, <2>4 DEF Read
<1>4. CASE Prepare
  BY <1>4, <1>1 DEF Prepare, Sample, NextSample, Begin, PrepFails, Close, MainIdle, At
<1>5. CASE Start
  BY <1>5, <1>1, Bounds DEF Start, NoReader, At
<1>6. CASE Resize \/ Reconfigure \/ UNCHANGED vars
  BY <1>6 DEF Resize, Reconfigure, vars, MainIdle, At
<1> QED BY <1>3, <1>4, <1>5, <1>6 DEF Next

LEMMA PrepareInv == Inv /\ MainIdle /\ Prepare => Inv'
<1> SUFFICES ASSUME Inv, MainIdle, Prepare PROVE Inv'
  OBVIOUS
<1>0. Main \in Reader
  BY DEF Reader
<1>1. CASE Sample
  <2> DEFINE ready == [NoReader EXCEPT !.pc = "next"]
  <2>1. ready \in ReaderState /\ ready.pc = "next" /\ ~ready.backups
    BY NoReaderType DEF ReaderState, Pc, NoReader
  <2>2. /\ reader' = [reader EXCEPT ![Main] = ready] /\ prep' = "sample" /\ reader[Main].pc = "over"
        /\ UNCHANGED <<busy, client, place, allowed, cached, next, changed, runs>>
    BY <1>1 DEF Sample, MainIdle, At
  <2> HIDE DEF ready
  <2>3. reader' \in [Reader -> ReaderState] /\ Flight' /\ SlotExclusive' /\ NoLostWakeup'
    BY <1>0, <2>1, <2>2, MoveInv
  <2> QED BY <2>2, <2>3 DEF Inv, TypeOK
<1>2. CASE Close
  <2>1. /\ reader' = [reader EXCEPT ![Main] = NoReader] /\ prep' = "prepared" /\ reader[Main].pc = "next"
        /\ client' = [s \in Slot |-> FALSE]
        /\ UNCHANGED <<busy, place, allowed, cached, next, changed, runs>>
    BY <1>2 DEF Close, At
  <2>2. NoReader.pc = "over" /\ ~NoReader.backups
    BY DEF NoReader
  <2>3. reader' \in [Reader -> ReaderState] /\ Flight' /\ SlotExclusive' /\ NoLostWakeup'
    BY <1>0, <2>1, <2>2, NoReaderType, MoveInv
  <2> QED BY <2>1, <2>3 DEF Inv, TypeOK
<1> QED BY <1>1, <1>2, NextSampleInv DEF Prepare

LEMMA EnvironmentInv == Inv /\ (Resize \/ Reconfigure \/ UNCHANGED vars) => Inv'
<1> SUFFICES ASSUME Inv, Resize \/ Reconfigure \/ UNCHANGED vars PROVE Inv'
  OBVIOUS
<1>1. UNCHANGED <<busy, client, reader, place, cached, next, prep, runs>> /\ allowed' \in 0..N /\ changed' \in BOOLEAN
  BY DEF Resize, Reconfigure, vars, Inv, TypeOK
<1>2. Flight' /\ SlotExclusive' /\ NoLostWakeup'
  BY <1>1 DEF Inv, Flight, SlotExclusive, NoLostWakeup, Holds, Waiting, At, Usable
<1> QED BY <1>1, <1>2 DEF Inv, TypeOK

LEMMA Inductive == Inv /\ MainIdle /\ [Next]_vars => (Inv /\ MainIdle)'
<1> SUFFICES ASSUME Inv, MainIdle, [Next]_vars PROVE Inv'
  BY MainIdleInv
<1>1. ASSUME NEW r \in Reader, Read(r) PROVE Inv'
  BY <1>1, NextArticleInv, AskInv, CountInv, PickInv, DeliverInv, FailInv, JudgeInv DEF Read
<1> QED BY <1>1, PrepareInv, StartInv, EnvironmentInv DEF Next

LEMMA Invariant == Spec => []Inv
<1>1. Init => Inv /\ MainIdle
  BY InitInv DEF Init, MainIdle
<1> QED BY <1>1, Inductive, PTL DEF Spec

\* Every variable keeps its type, so no reader makes more attempts, no slot is
\* used beyond the pool and no article is cached beyond those of the NZB.
THEOREM TypeCorrect == Spec => []TypeOK
BY Invariant, PTL DEF Inv

\* A connection never carries the requests of two readers, and a slot that is
\* marked busy is held by a reader (release and acquire of NntpPool).
THEOREM SlotExclusiveHolds == Spec => []SlotExclusive
BY Invariant, PTL DEF Inv

\* No reader waits for a slot that was in its reach and is idle.
THEOREM NoLostWakeupHolds == Spec => []NoLostWakeup
BY Invariant, PTL DEF Inv

\* A backup provider serves only requests that every primary provider failed.
THEOREM BackupLastHolds == Spec => []BackupLast
<1>1. Inv => BackupLast
  <2> SUFFICES ASSUME Inv, NEW r \in Reader, reader[r].pc \in {"use", "judge"}, Owner[reader[r].slot] \in Backup
               PROVE  Primary \subseteq reader[r].failed
    BY DEF BackupLast
  <2> QED BY DEF Inv, Flight, Usable
<1> QED BY <1>1, Invariant, PTL

-----------------------------------------------------------------------------
\* What a request has learnt is true: the providers it excludes lack the
\* article, and each attempt before the present one excluded one more.
NoneHas == \E a \in Article : \A p \in Owners : a \notin Has[p]

Honest(k) ==
  /\ k.failed \subseteq Owners /\ \A p \in k.failed : k.art \notin Has[p]
  /\ k.pc = "judge" => k.error = "missing" /\ k.art \notin Has[Owner[k.slot]]
  /\ k.pc \notin {"over", "next"} => k.attempt = Cardinality(k.failed) + 1

\* Providers miss articles, streams come and go, and the NZB is verified once.
OnlyMissing == Allow \subseteq {"shrink"} /\ MaxRuns <= 1

MissingInv ==
  /\ Inv /\ ~changed
  /\ runs = 0 => prep = "idle" /\ cached = {} /\ \A r \in Reader : At(r, "over")
  /\ \A r \in Reader : Honest(reader[r])
  /\ prep = "failed" => NoneHas

LEMMA FreshHonest ==
  ASSUME NEW pc \in {"over", "next"}, NEW a
  PROVE  Honest(NoReader) /\ Honest([NoReader EXCEPT !.pc = pc]) /\ Honest([NoReader EXCEPT !.pc = pc, !.art = a])
BY DEF Honest, NoReader

\* Handing a slot over teaches nobody anything.
LEMMA ReleaseHonest ==
  ASSUME Inv, \A p \in Reader : Honest(reader[p]), NEW r \in Reader, ~Waiting(r), NEW after, Honest(after),
         Release(r, after)
  PROVE  \A p \in Reader : Honest(reader'[p])
<1>1. reader \in [Reader -> ReaderState]
  BY DEF Inv, TypeOK
<1>2. ASSUME NEW q \in Reader, Chosen(q, reader[r].slot),
             reader' = [reader EXCEPT ![r] = after, ![q].pc = "use", ![q].slot = reader[r].slot]
      PROVE  \A p \in Reader : Honest(reader'[p])
  <2>1. reader[q].pc = "wait" /\ q # r
    BY <1>2 DEF Chosen, Waiting, At
  <2>2. /\ reader'[r] = after
        /\ reader'[q] = [reader[q] EXCEPT !.pc = "use", !.slot = reader[r].slot]
        /\ \A p \in Reader \ {q, r} : reader'[p] = reader[p]
    BY <1>1, <1>2, <2>1
  <2>3. Honest(reader'[q])
    BY <1>1, <2>1, <2>2 DEF Honest, ReaderState
  <2> QED BY <2>2, <2>3
<1>3. ASSUME reader' = [reader EXCEPT ![r] = after] PROVE \A p \in Reader : Honest(reader'[p])
  BY <1>1, <1>3
<1> QED BY <1>2, <1>3 DEF Release

\* A reader goes on by itself.
LEMMA MoveHonest ==
  ASSUME Inv, \A p \in Reader : Honest(reader[p]), NEW r \in Reader, NEW after, Honest(after),
         reader' = [reader EXCEPT ![r] = after]
  PROVE  \A p \in Reader : Honest(reader'[p])
BY DEF Inv, TypeOK

\* An article that another provider may have is asked for again: a request
\* that fails has been told by every provider.
LEMMA MissingJudge ==
  ASSUME MissingInv, NEW r \in Reader, Judge(r)
  PROVE  (\A p \in Reader : Honest(reader'[p])) /\ (prep' = "failed" => NoneHas)
<1>1. /\ Inv /\ (\A p \in Reader : Honest(reader[p])) /\ (prep = "failed" => NoneHas)
      /\ reader[r] \in ReaderState /\ reader[r].pc = "judge" /\ ~Waiting(r)
      /\ reader[r].slot \in Slot /\ Owner[reader[r].slot] \notin reader[r].failed /\ reader[r].art \in Article
  BY DEF MissingInv, Inv, TypeOK, Judge, At, Waiting, Flight, Usable
<1>2. PICK p \in Owners : p = Owner[reader[r].slot]
  BY <1>1 DEF Owners
<1>3. /\ reader[r].error = "missing" /\ reader[r].art \notin Has[p] /\ reader[r].failed \subseteq Owners
      /\ (\A o \in reader[r].failed : reader[r].art \notin Has[o])
      /\ reader[r].attempt = Cardinality(reader[r].failed) + 1
  BY <1>1, <1>2 DEF Honest
<1> DEFINE failed == reader[r].failed \union {p}
<1>4. IsFiniteSet(Owners) /\ IsFiniteSet(reader[r].failed)
  <2>1. Owners \subseteq Provider
    BY PoolShape DEF Owners
  <2> QED BY <1>3, <2>1, PoolShape, FS_Subset
<1>5. Cardinality(failed) = Cardinality(reader[r].failed) + 1
  BY <1>1, <1>2, <1>4, FS_AddElement
<1>6. failed \subseteq Owners /\ \A o \in failed : reader[r].art \notin Has[o]
  BY <1>3
<1>7. /\ Judged(r).failed = failed /\ Judged(r).pc = "ask" /\ Judged(r).attempt = Cardinality(failed) + 1
      /\ Judged(r).art = reader[r].art
  BY <1>1, <1>2, <1>3, <1>5 DEF Judged, ReaderState
<1>8. Honest(Judged(r))
  BY <1>6, <1>7 DEF Honest
<1>9. \A t : Honest([Judged(r) EXCEPT !.pc = "over", !.thrown = t])
  BY <1>1, <1>6, <1>7 DEF Honest, Judged
<1>10. Judged(r).attempt > MaxAttempts \/ Cardinality(Judged(r).failed) >= Cardinality(Owners) => NoneHas
  <2>1. Cardinality(Owners) \in Nat /\ Cardinality(failed) \in Nat /\ Cardinality(failed) <= Cardinality(Owners)
    BY <1>4, <1>6, FS_Subset, FS_CardinalityType
  <2>2. MaxAttempts >= Cardinality(Owners)
    BY <2>1, PoolShape DEF MaxAttempts
  <2>3. Judged(r).attempt > MaxAttempts \/ Cardinality(Judged(r).failed) >= Cardinality(Owners) => Cardinality(failed) = Cardinality(Owners)
    BY <1>7, <2>1, <2>2, AttemptBound
  <2>4. Cardinality(failed) = Cardinality(Owners) => failed = Owners
    BY <1>4, <1>6, FS_Subset
  <2> QED BY <1>1, <1>6, <2>3, <2>4 DEF NoneHas
<1>11. CASE Judged(r).attempt > MaxAttempts \/ Cardinality(Judged(r).failed) >= Cardinality(Owners)
  <2>1. \E t : Release(r, [Judged(r) EXCEPT !.pc = "over", !.thrown = t])
    BY <1>11, Zenon DEF Judge
  <2> QED BY <1>1, <1>9, <1>10, <1>11, <2>1, ReleaseHonest
<1>12. CASE ~(Judged(r).attempt > MaxAttempts \/ Cardinality(Judged(r).failed) >= Cardinality(Owners))
  <2>1. Release(r, Judged(r)) /\ UNCHANGED prep
    BY <1>12, Zenon DEF Judge
  <2> QED BY <1>1, <1>8, <2>1, ReleaseHonest
<1> QED BY <1>11, <1>12

LEMMA MissingRead ==
  ASSUME MissingInv, OnlyMissing, NEW r \in Reader, Read(r)
  PROVE  (\A p \in Reader : Honest(reader'[p])) /\ (prep' = "failed" => NoneHas)
<1>1. /\ Inv /\ (\A p \in Reader : Honest(reader[p])) /\ (prep = "failed" => NoneHas) /\ ~changed
      /\ reader \in [Reader -> ReaderState] /\ reader[r] \in ReaderState
      /\ Allow \intersect {"refuse", "stall", "fail"} = {}
  BY DEF MissingInv, OnlyMissing, Inv, TypeOK
<1>2. ASSUME NEW a, At(r, "next"), Begin(r, a)
      PROVE  (\A p \in Reader : Honest(reader'[p])) /\ UNCHANGED prep
  <2> DEFINE after == [NoReader EXCEPT !.pc = "ask", !.art = a, !.attempt = 1, !.backups = (Primary = {})]
  <2>1. after.failed = {} /\ after.pc = "ask" /\ after.attempt = 1
    BY DEF NoReader
  <2>2. reader' = [reader EXCEPT ![r] = after] /\ UNCHANGED prep
    BY <1>1, <1>2 DEF Begin
  <2> HIDE DEF after
  <2>3. Honest(after)
    BY <2>1, FS_EmptySet DEF Honest
  <2> QED BY <1>1, <2>2, <2>3, MoveHonest
<1>3. CASE NextArticle(r)
  <2>1. CASE next > Articles
    <3>1. reader' = [reader EXCEPT ![r] = NoReader] /\ UNCHANGED prep
      BY <1>3, <2>1 DEF NextArticle
    <3> QED BY <1>1, <3>1, FreshHonest, MoveHonest
  <2>2. CASE ~(next > Articles)
    BY <1>1, <1>2, <1>3, <2>2 DEF NextArticle
  <2> QED BY <2>1, <2>2
<1>4. ASSUME NEW after, after.failed = reader[r].failed, after.art = reader[r].art, after.attempt = reader[r].attempt,
             reader[r].pc \notin {"over", "next"}, after.pc # "judge",
             reader' = [reader EXCEPT ![r] = after], UNCHANGED prep
      PROVE  (\A p \in Reader : Honest(reader'[p])) /\ UNCHANGED prep
  <2>1. Honest(after)
    BY <1>1, <1>4 DEF Honest
  <2> QED BY <1>1, <1>4, <2>1, MoveHonest
<1>5. CASE Ask(r) \/ Count(r) \/ Pick(r)
  <2>1. reader[r].pc \in {"ask", "count", "pick"} /\ UNCHANGED prep
    BY <1>5 DEF Ask, Count, Pick, At
  <2>2. \E pc \in {"count", "pick", "use", "wait"} : \E lim, slot :
          reader' = [reader EXCEPT ![r] = [reader[r] EXCEPT !.pc = pc, !.lim = lim, !.slot = slot]]
    <3>1. CASE Ask(r)
      <4>1. reader' = [reader EXCEPT ![r] = [reader[r] EXCEPT !.pc = "count", !.lim = reader[r].lim, !.slot = reader[r].slot]]
        BY <1>1, <3>1 DEF Ask, ReaderState
      <4> QED BY <4>1
    <3>2. CASE Count(r)
      <4>1. PICK lim : reader' = [reader EXCEPT ![r].pc = "pick", ![r].lim = lim]
        BY <3>2 DEF Count
      <4>2. reader' = [reader EXCEPT ![r] = [reader[r] EXCEPT !.pc = "pick", !.lim = lim, !.slot = reader[r].slot]]
        BY <1>1, <4>1 DEF ReaderState
      <4> QED BY <4>2
    <3>3. CASE Pick(r)
      <4>1. \/ \E s \in Slot : reader' = [reader EXCEPT ![r].pc = "use", ![r].slot = s]
            \/ reader' = [reader EXCEPT ![r].pc = "wait"]
        BY <3>3 DEF Pick
      <4>2. CASE reader' = [reader EXCEPT ![r].pc = "wait"]
        <5>1. reader' = [reader EXCEPT ![r] = [reader[r] EXCEPT !.pc = "wait", !.lim = reader[r].lim, !.slot = reader[r].slot]]
          BY <1>1, <4>2 DEF ReaderState
        <5> QED BY <5>1
      <4>3. ASSUME NEW s \in Slot, reader' = [reader EXCEPT ![r].pc = "use", ![r].slot = s]
            PROVE  \E pc \in {"count", "pick", "use", "wait"} : \E lim, slot :
                     reader' = [reader EXCEPT ![r] = [reader[r] EXCEPT !.pc = pc, !.lim = lim, !.slot = slot]]
        <5>1. reader' = [reader EXCEPT ![r] = [reader[r] EXCEPT !.pc = "use", !.lim = reader[r].lim, !.slot = s]]
          BY <1>1, <4>3 DEF ReaderState
        <5> QED BY <5>1
      <4> QED BY <4>1, <4>2, <4>3
    <3> QED BY <1>5, <3>1, <3>2, <3>3
  <2>3. PICK pc \in {"count", "pick", "use", "wait"} : \E lim, slot :
          reader' = [reader EXCEPT ![r] = [reader[r] EXCEPT !.pc = pc, !.lim = lim, !.slot = slot]]
    BY <2>2
  <2>4. PICK lim, slot : reader' = [reader EXCEPT ![r] = [reader[r] EXCEPT !.pc = pc, !.lim = lim, !.slot = slot]]
    BY <2>3
  <2> DEFINE after == [reader[r] EXCEPT !.pc = pc, !.lim = lim, !.slot = slot]
  <2>5. after.failed = reader[r].failed /\ after.art = reader[r].art /\ after.attempt = reader[r].attempt /\ after.pc # "judge"
    BY <1>1 DEF ReaderState
  <2>6. reader' = [reader EXCEPT ![r] = after]
    BY <2>4
  <2> HIDE DEF after
  <2> QED BY <1>1, <1>4, <2>1, <2>5, <2>6
<1>6. CASE Deliver(r)
  <2>1. Release(r, [NoReader EXCEPT !.pc = "next", !.art = reader[r].art]) /\ UNCHANGED prep /\ reader[r].pc = "use"
    BY <1>1, <1>6 DEF Deliver, At
  <2>2. Honest([NoReader EXCEPT !.pc = "next", !.art = reader[r].art])
    BY FreshHonest
  <2> QED BY <1>1, <2>1, <2>2, ReleaseHonest DEF Waiting, At
<1>7. CASE Fail(r)
  <2>1. /\ reader[r].art \notin Has[Owner[reader[r].slot]] /\ UNCHANGED prep /\ reader[r].pc = "use"
        /\ reader' = [reader EXCEPT ![r].pc = "judge", ![r].error = "missing"]
    BY <1>1, <1>7 DEF Fail, Fails, At
  <2> DEFINE after == [reader[r] EXCEPT !.pc = "judge", !.error = "missing"]
  <2>2. reader' = [reader EXCEPT ![r] = after]
    BY <1>1, <2>1
  <2>3. Honest(after)
    BY <1>1, <2>1 DEF Honest, ReaderState
  <2> HIDE DEF after
  <2> QED BY <1>1, <2>1, <2>2, <2>3, MoveHonest
<1> QED BY <1>1, <1>3, <1>5, <1>6, <1>7, MissingJudge DEF Read

LEMMA MissingNext ==
  ASSUME MissingInv, MainIdle, OnlyMissing, [Next]_vars
  PROVE  MissingInv'
<1>1. Inv' /\ MainIdle'
  BY Inductive DEF MissingInv
<1>2. /\ Inv /\ (\A p \in Reader : Honest(reader[p])) /\ (prep = "failed" => NoneHas) /\ ~changed /\ runs \in Nat
      /\ (runs = 0 => prep = "idle" /\ cached = {} /\ \A r \in Reader : reader[r].pc = "over")
      /\ Main \in Reader /\ reader \in [Reader -> ReaderState] /\ "reconfigure" \notin Allow
  BY DEF MissingInv, At, Reader, Inv, TypeOK, OnlyMissing
<1>3. ASSUME ~changed', runs > 0, UNCHANGED runs, \A p \in Reader : Honest(reader'[p]), prep' = "failed" => NoneHas
      PROVE  MissingInv'
  BY <1>1, <1>3 DEF MissingInv, NoneHas, Honest
<1>4. ASSUME NEW r \in Reader, Read(r)
      PROVE  MissingInv'
  <2>1. UNCHANGED <<changed, runs>> /\ reader[r].pc # "over"
    BY <1>4 DEF Read, NextArticle, Ask, Count, Pick, Deliver, Fail, Judge, At
  <2> QED BY <1>2, <1>3, <1>4, <2>1, MissingRead
<1>5. CASE Sample \/ Close
  <2>1. UNCHANGED <<changed, runs>> /\ prep \in {"verify", "sample"} /\ prep' # "failed"
    BY <1>5 DEF Sample, Close
  <2>2. \E pc \in {"over", "next"} : reader' = [reader EXCEPT ![Main] = [NoReader EXCEPT !.pc = pc]]
    BY <1>5 DEF Sample, Close, NoReader
  <2>3. PICK pc \in {"over", "next"} : reader' = [reader EXCEPT ![Main] = [NoReader EXCEPT !.pc = pc]]
    BY <2>2
  <2> DEFINE after == [NoReader EXCEPT !.pc = pc]
  <2>4. Honest(after)
    BY FreshHonest
  <2>5. reader' = [reader EXCEPT ![Main] = after]
    BY <2>3
  <2> HIDE DEF after
  <2>6. \A p \in Reader : Honest(reader'[p])
    BY <1>2, <2>4, <2>5, MoveHonest
  <2>7. runs > 0
    BY <1>2, <2>1
  <2> QED BY <1>2, <1>3, <2>1, <2>6, <2>7
<1>6. CASE NextSample
  <2> DEFINE after == [NoReader EXCEPT !.pc = "ask", !.art = reader[Main].art + 1, !.attempt = 1, !.backups = (Primary = {})]
  <2>1. UNCHANGED <<changed, runs>> /\ reader[Main].pc = "next"
    BY <1>6 DEF NextSample, At
  <2>2. reader' = [reader EXCEPT ![Main] = after] /\ UNCHANGED prep
    BY <1>2, <1>6 DEF NextSample, Begin
  <2>3. after.failed = {} /\ after.pc = "ask" /\ after.attempt = 1
    BY DEF NoReader
  <2> HIDE DEF after
  <2>4. Honest(after)
    BY <2>3, FS_EmptySet DEF Honest
  <2> QED BY <1>2, <1>3, <2>1, <2>2, <2>4, MoveHonest
<1>7. CASE Start
  <2>1. runs = 0 /\ runs' = 1 /\ ~changed'
    BY <1>2, <1>7, Bounds DEF Start, OnlyMissing
  <2>2. prep' = "verify" /\ reader' = [r \in Reader |-> IF r \in Checker THEN [NoReader EXCEPT !.pc = "next"] ELSE NoReader]
    BY <1>2, <1>7, <2>1 DEF Start
  <2>3. \A r \in Reader : Honest(reader'[r])
    BY <2>2, FreshHonest
  <2> QED BY <1>1, <2>1, <2>2, <2>3 DEF MissingInv, NoneHas, Honest
<1>8. CASE Resize \/ Reconfigure \/ UNCHANGED vars
  <2>1. UNCHANGED <<changed, runs, reader, prep, cached>>
    BY <1>2, <1>8 DEF Resize, Reconfigure, vars
  <2> QED BY <1>1, <2>1 DEF MissingInv, NoneHas, Honest, At
<1> QED BY <1>4, <1>5, <1>6, <1>7, <1>8 DEF Next, Prepare

\* While providers only ever miss articles, the first verification of an NZB
\* fails only for an article that no provider of the pool has: no change of the
\* allowance and no way slots are handed on makes a reader give up early.
THEOREM FailsOnlyIfMissingHolds ==
  ASSUME OnlyMissing
  PROVE  Spec => []FailsOnlyIfMissing
<1>1. Init => MissingInv /\ MainIdle
  <2> SUFFICES ASSUME Init PROVE MissingInv /\ MainIdle
    OBVIOUS
  <2>1. Inv /\ MainIdle /\ \A r \in Reader : At(r, "over")
    BY InitInv DEF Init, MainIdle, At, NoReader
  <2>2. \A r \in Reader : Honest(reader[r])
    BY FreshHonest DEF Init
  <2> QED BY <2>1, <2>2 DEF Init, MissingInv
<1>2. MissingInv /\ MainIdle /\ [Next]_vars => (MissingInv /\ MainIdle)'
  BY MissingNext, Inductive DEF MissingInv
<1>3. MissingInv => FailsOnlyIfMissing
  BY DEF MissingInv, FailsOnlyIfMissing, NoneHas
<1> QED BY <1>1, <1>2, <1>3, PTL DEF Spec
=============================================================================
