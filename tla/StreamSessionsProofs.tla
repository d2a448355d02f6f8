------------------------ MODULE StreamSessionsProofs ------------------------
(***************************************************************************)
(* For every number of streams, descriptors, reads, listings and stops,    *)
(* and however often the process dies: the types of StreamSessions, that a *)
(* stream being served is counted, and that what ended leaves nothing.     *)
(***************************************************************************)
EXTENDS StreamSessions, TLAPS

\* The phases of a session the proofs tell apart: its hash is not yet written;
\* it is served and nobody stopped it; its last update is written; nothing of
\* its own will touch what the process knows of it.
Early(s) == s \in Stream /\ stream[s].pc \in {"idle", "create"}
Live(s) == s \in Stream /\ Served(s)
Done(s) ==
  \/ s \in Stream /\ stream[s].pc \in {"removing", "forgetting", "stopping", "over"}
  \/ s \in Fd /\ fd[s] = "released"
Shut(s) ==
  \/ s \in Stream /\ stream[s].pc \in {"stopping", "over"}
  \/ s \in Fd /\ fd[s] = "released"

\* What the hash, the snapshot and the pending update of a session can say in
\* each phase.  Only a descriptor is ever declared active again.
Data(s) ==
  /\ snap[s].id => snap[s].status # "none"
  /\ pend[s] # "ended" /\ (s \in Stream => pend[s] # "active")
  /\ Early(s) => row[s] = Empty /\ snap[s] = Empty /\ pend[s] = "none"
  /\ Live(s) => row[s] \in {Empty, Fresh} /\ snap[s] = Fresh
  /\ Done(s) => pend[s] = "none" /\ row[s].status # "active" /\ snap[s].status # "active"

Unlisted(s) == \A l \in Lister : s \notin lister[l].gone

\* Who knows of a session: nobody stops one before its hash is written, and a
\* stop that finds the controller of a stream aborts it.
Presence(s) ==
  /\ Early(s) => ~Stopping(s) /\ ~stream[s].aborted /\ Unlisted(s) /\ (\A l \in Lister : s \notin lister[l].dead)
  /\ s \in Stream /\ stream[s].pc = "create" => s \in member /\ s \in control
  /\ Live(s) => s \in member /\ s \in control /\ ~Stopping(s) /\ Unlisted(s)
  /\ s \in Fd /\ fd[s] = "released" => ~Reading(s)

\* The last stop of a session forgets it.
Clean(s) == Shut(s) /\ ~Stopping(s) => s \notin control /\ snap[s] = Empty /\ actor[s] = "none"

Inv == TypeOK /\ \A s \in Id : Data(s) /\ Presence(s) /\ Clean(s)

-----------------------------------------------------------------------------
\* The types, part by part.
Update == {"none", "plain", "active", "ended"}
StreamState == [pc : StreamPc, aborted : BOOLEAN, api : BOOLEAN]
ReadState == {NoRead} \union [pc : {"create", "has", "miss", "fetch"}, id : Fd]
ListState == [pc : {"idle", "rows", "stop"}, ids : SUBSET Id, dead : SUBSET Id, gone : SUBSET Id]
StopState == {NoStop} \union [pc : {"remove", "forget"}, id : Id]

RedisOK ==
  /\ member \subseteq Id /\ row \in [Id -> Entry] /\ (\A s \in Id : row[s].id => row[s].status # "none")
  /\ quiet \subseteq Id /\ ttl \subseteq Id
MemoryOK ==
  /\ control \subseteq Id /\ snap \in [Id -> Entry]
  /\ pend \in [Id -> Update] /\ actor \in [Id -> {"none", "active", "final"}]
StreamOK == stream \in [Stream -> StreamState]
FdOK == fd \in [Fd -> {"open", "released"}]
ReadOK == reader \in [Reader -> ReadState]
ListOK == lister \in [Lister -> ListState]
StopOK == stop \in [Caller -> StopState]

LEMMA Types == TypeOK <=> RedisOK /\ MemoryOK /\ StreamOK /\ FdOK /\ ReadOK /\ ListOK /\ StopOK /\ crashes \in 0..MaxCrashes
BY DEF TypeOK, RedisOK, MemoryOK, StreamOK, FdOK, ReadOK, ListOK, StopOK, Update, StreamState, ReadState, ListState,
       StopState

LEMMA TypesNext ==
  RedisOK' /\ MemoryOK' /\ StreamOK' /\ FdOK' /\ ReadOK' /\ ListOK' /\ StopOK' /\ crashes' \in 0..MaxCrashes => TypeOK'
BY DEF TypeOK, RedisOK, MemoryOK, StreamOK, FdOK, ReadOK, ListOK, StopOK, Update, StreamState, ReadState, ListState,
       StopState

LEMMA Values ==
  /\ Empty \in Entry /\ Fresh \in Entry /\ Empty # Fresh /\ Empty.status = "none" /\ Fresh.status = "active"
  /\ ~Empty.id /\ Fresh.id
  /\ Idle \in StreamState /\ Idle.pc = "idle" /\ ~Idle.aborted
  /\ NoRead \in ReadState /\ NoRead.id \notin Id /\ NoList \in ListState /\ NoStop \in StopState /\ NoStop.id \notin Id
BY Bounds DEF Empty, Fresh, Entry, Idle, StreamState, StreamPc, NoRead, ReadState, NoList, ListState, NoStop, StopState,
              Id, Nobody

LEMMA Phases ==
  ASSUME NEW s \in Id
  PROVE  /\ Early(s) => ~Live(s) /\ ~Done(s)
         /\ Live(s) => ~Done(s)
         /\ Shut(s) => Done(s)
BY Bounds DEF Early, Live, Done, Shut, Served, Id

-----------------------------------------------------------------------------
\* Updates and their flush.

LEMMA NotedOK ==
  ASSUME pend \in [Id -> Update], NEW s \in Id, NEW update \in {"plain", "active", "ended"}
  PROVE  /\ Noted(s, update) \in [Id -> Update]
         /\ Noted(s, update)[s] = IF update = "plain" /\ pend[s] # "none" THEN pend[s] ELSE update
         /\ \A t \in Id \ {s} : Noted(s, update)[t] = pend[t]
BY DEF Noted, Update

LEMMA EntryOf ==
  ASSUME NEW e \in Entry, NEW update \in Update \ {"none"}, e.id => e.status # "none"
  PROVE  /\ Overlay(e, update) \in Entry
         /\ Overlay(e, update).id = e.id
         /\ Overlay(e, update).status = IF update = "plain" THEN e.status ELSE update
         /\ update = "plain" => Overlay(e, update) = e
BY DEF Overlay, Entry, Update

LEMMA WrittenOf ==
  ASSUME NEW e \in Entry, NEW shot \in Entry, e.id => e.status # "none", shot.id => shot.status # "none"
  PROVE  /\ Written(e, shot) \in Entry /\ (Written(e, shot).id => Written(e, shot).status # "none")
         /\ Written(e, shot).status = IF shot.status = "none" THEN e.status ELSE shot.status
         /\ shot = Fresh => Written(e, shot) = Fresh
<1>1. (e.id \/ shot.id) \in BOOLEAN /\ e.status \in {"none", "active", "ended"} /\ shot.status \in {"none", "active", "ended"}
  BY DEF Entry
<1>2. Written(e, shot) \in Entry
  BY <1>1 DEF Written, Entry
<1>3. Written(e, shot).status = IF shot.status = "none" THEN e.status ELSE shot.status
  BY DEF Written
<1>4. Written(e, shot).id <=> e.id \/ shot.id
  BY <1>1 DEF Written
<1>5. ASSUME shot = Fresh PROVE Written(e, shot) = Fresh
  <2>1. (e.id \/ Fresh.id) = TRUE /\ Fresh.status = "active"
    BY DEF Fresh
  <2> QED BY <1>5, <2>1 DEF Written, Fresh
<1> QED BY <1>2, <1>3, <1>4, <1>5

\* What a flush does to each session.
LEMMA FlushOK ==
  ASSUME RedisOK, MemoryOK, \A s \in Id : snap[s].id => snap[s].status # "none",
         NEW pending \in [Id -> Update], Flush(pending)
  PROVE  /\ snap' \in [Id -> Entry] /\ row' \in [Id -> Entry] /\ quiet' \subseteq Id /\ pend' \in [Id -> Update]
         /\ \A s \in Id : /\ snap'[s].id => snap'[s].status # "none"
                          /\ row'[s].id => row'[s].status # "none"
                          /\ pend'[s] = "none"
                          /\ pending[s] = "none" => snap'[s] = snap[s] /\ row'[s] = row[s]
                          /\ pending[s] = "plain" => snap'[s] = snap[s] /\ row'[s] = Written(row[s], snap[s])
                          /\ pending[s] = "ended" => snap'[s].status = "ended" /\ row'[s].status = "ended"
<1> DEFINE shot(s) == IF pending[s] # "none" THEN Overlay(snap[s], pending[s]) ELSE snap[s]
           hash(s) == IF pending[s] # "none" THEN Written(row[s], shot(s)) ELSE row[s]
<1>1. /\ snap' = [s \in Id |-> shot(s)]
      /\ row' = [s \in Id |-> hash(s)]
      /\ pend' = [s \in Id |-> "none"]
      /\ quiet' \subseteq quiet
  BY DEF Flush
<1>2. ASSUME NEW s \in Id
      PROVE  /\ shot(s) \in Entry /\ (shot(s).id => shot(s).status # "none")
             /\ hash(s) \in Entry /\ (hash(s).id => hash(s).status # "none")
             /\ pending[s] = "none" => shot(s) = snap[s] /\ hash(s) = row[s]
             /\ pending[s] = "plain" => shot(s) = snap[s] /\ hash(s) = Written(row[s], snap[s])
             /\ pending[s] = "ended" => shot(s).status = "ended" /\ hash(s).status = "ended"
  <2>1. /\ row[s] \in Entry /\ (row[s].id => row[s].status # "none")
        /\ snap[s] \in Entry /\ (snap[s].id => snap[s].status # "none") /\ pending[s] \in Update
    BY DEF RedisOK, MemoryOK
  <2>2. CASE pending[s] = "none"
    BY <2>1, <2>2
  <2>3. CASE pending[s] # "none"
    <3>1. /\ shot(s) = Overlay(snap[s], pending[s]) /\ shot(s) \in Entry /\ shot(s).id = snap[s].id
          /\ shot(s).status = IF pending[s] = "plain" THEN snap[s].status ELSE pending[s]
          /\ pending[s] = "plain" => shot(s) = snap[s]
      BY <2>1, <2>3, EntryOf
    <3>2. hash(s) = Written(row[s], shot(s))
      BY <2>3
    <3> HIDE DEF shot, hash
    <3>3. shot(s).id => shot(s).status # "none"
      BY <2>1, <2>3, <3>1
    <3>4. /\ hash(s) \in Entry /\ (hash(s).id => hash(s).status # "none")
          /\ hash(s).status = IF shot(s).status = "none" THEN row[s].status ELSE shot(s).status
      BY <2>1, <3>1, <3>2, <3>3, WrittenOf
    <3> QED BY <2>3, <3>1, <3>2, <3>3, <3>4
  <2> QED BY <2>2, <2>3
<1> HIDE DEF shot, hash
<1>3. "none" \in Update
  BY DEF Update
<1> QED BY <1>1, <1>2, <1>3 DEF RedisOK

-----------------------------------------------------------------------------
\* What a step does to a session it is not about.

SameOwn(t) == (t \in Stream => stream'[t] = stream[t]) /\ (t \in Fd => fd'[t] = fd[t])
SamePhase(t) ==
  (Early(t)' <=> Early(t)) /\ (Live(t)' <=> Live(t)) /\ (Done(t)' <=> Done(t)) /\ (Shut(t)' <=> Shut(t))
SameData(t) == row'[t] = row[t] /\ snap'[t] = snap[t] /\ pend'[t] = pend[t]
Flushed(t) == \E pending \in [Id -> Update] : Flush(pending) /\ pending[t] = pend[t]
NotListed(t) ==
  \A l \in Lister : (t \in lister'[l].dead => t \in lister[l].dead) /\ (t \in lister'[l].gone => t \in lister[l].gone)

LEMMA OwnPhase ==
  ASSUME NEW t \in Id, SameOwn(t)
  PROVE  SamePhase(t)
BY DEF SameOwn, SamePhase, Early, Live, Served, Done, Shut

LEMMA DataKept ==
  ASSUME Inv, NEW t \in Id, SamePhase(t), SameData(t) \/ Flushed(t)
  PROVE  Data(t)'
<1>1. Data(t) /\ \A s \in Id : snap[s].id => snap[s].status # "none"
  BY DEF Inv, Data
<1>2. RedisOK /\ MemoryOK /\ pend[t] \in Update /\ row[t] \in Entry /\ snap[t] \in Entry
  BY Types DEF Inv, RedisOK, MemoryOK
<1>3. CASE SameData(t)
  BY <1>1, <1>3 DEF Data, SameData, SamePhase
<1>4. CASE Flushed(t)
  <2>1. PICK pending \in [Id -> Update] : Flush(pending) /\ pending[t] = pend[t]
    BY <1>4 DEF Flushed
  <2>2. /\ snap'[t].id => snap'[t].status # "none"
        /\ pend'[t] = "none"
        /\ pend[t] = "none" => snap'[t] = snap[t] /\ row'[t] = row[t]
        /\ pend[t] = "plain" => snap'[t] = snap[t] /\ row'[t] = Written(row[t], snap[t])
    BY <1>1, <1>2, <2>1, FlushOK
  <2>3. Early(t) => SameData(t)
    BY <1>1, <2>2 DEF Data, SameData
  <2>4. Done(t) => SameData(t)
    BY <1>1, <2>2 DEF Data, SameData
  <2>5. ASSUME Live(t) PROVE row'[t] \in {Empty, Fresh} /\ snap'[t] = Fresh
    <3>1. row[t] \in {Empty, Fresh} /\ snap[t] = Fresh /\ pend[t] \in {"none", "plain"}
      BY <1>1, <1>2, <2>5 DEF Data, Live, Update
    <3>2. Written(row[t], Fresh) = Fresh
      BY <3>1, Values, WrittenOf
    <3> QED BY <2>2, <3>1, <3>2
  <2> QED BY <1>1, <2>2, <2>3, <2>4, <2>5 DEF Data, SameData, SamePhase
<1> QED BY <1>3, <1>4

LEMMA PresenceKept ==
  ASSUME Inv, NEW t \in Id, SameOwn(t), NotListed(t),
         t \in member => t \in member', t \in control => t \in control',
         Stopping(t)' => Stopping(t), Reading(t)' => Reading(t)
  PROVE  Presence(t)'
<1>1. Presence(t) /\ SamePhase(t)
  BY OwnPhase DEF Inv
<1>2. Unlisted(t) => Unlisted(t)'
  BY DEF NotListed, Unlisted
<1> QED BY <1>1, <1>2 DEF Presence, SamePhase, SameOwn, NotListed, Early

LEMMA CleanKept ==
  ASSUME Inv, NEW t \in Id, SamePhase(t), SameData(t) \/ Flushed(t), actor'[t] = actor[t],
         t \in control' => t \in control, Stopping(t) => Stopping(t)'
  PROVE  Clean(t)'
<1>1. Data(t) /\ Clean(t) /\ (Shut(t) => Done(t)) /\ \A s \in Id : snap[s].id => snap[s].status # "none"
  BY Phases DEF Inv, Data
<1>2. RedisOK /\ MemoryOK
  BY Types DEF Inv
<1>3. ASSUME Shut(t) PROVE snap'[t] = snap[t]
  <2>1. pend[t] = "none"
    BY <1>1, <1>3 DEF Data
  <2>2. CASE SameData(t)
    BY <2>2 DEF SameData
  <2>3. CASE Flushed(t)
    <3>1. PICK pending \in [Id -> Update] : Flush(pending) /\ pending[t] = pend[t]
      BY <2>3 DEF Flushed
    <3> QED BY <1>1, <1>2, <2>1, <3>1, FlushOK
  <2> QED BY <2>2, <2>3
<1> QED BY <1>1, <1>3 DEF Clean, SamePhase

LEMMA Others ==
  ASSUME Inv, NEW t \in Id, SameOwn(t), SameData(t) \/ Flushed(t), NotListed(t),
         actor'[t] = actor[t], t \in member <=> t \in member', t \in control <=> t \in control',
         Stopping(t) <=> Stopping(t)', Reading(t)' => Reading(t)
  PROVE  Data(t)' /\ Presence(t)' /\ Clean(t)'
BY OwnPhase, DataKept, PresenceKept, CleanKept

\* A descriptor that is open has no promises to keep but that of its snapshot.
LEMMA OpenFd ==
  ASSUME NEW f \in Fd, fd'[f] # "released", snap'[f].id => snap'[f].status # "none", pend'[f] # "ended"
  PROVE  Data(f)' /\ Presence(f)' /\ Clean(f)'
<1>1. f \notin Stream
  BY Bounds
<1>2. ~Early(f)' /\ ~Live(f)' /\ ~Done(f)' /\ ~Shut(f)'
  BY <1>1 DEF Early, Live, Done, Shut
<1> QED BY <1>1, <1>2 DEF Data, Presence, Clean

-----------------------------------------------------------------------------
\* The parts that many steps share.

LEMMA GotoOK ==
  ASSUME StreamOK, NEW h \in Stream, NEW pc \in StreamPc, Goto(h, pc)
  PROVE  /\ StreamOK' /\ stream'[h].pc = pc /\ stream'[h].aborted = stream[h].aborted /\ stream'[h].api = stream[h].api
         /\ \A t \in Stream \ {h} : stream'[t] = stream[t]
BY DEF StreamOK, StreamState, Goto

LEMMA AbortingOK ==
  ASSUME StreamOK, NEW s \in Id
  PROVE  /\ Aborting(s) \in [Stream -> StreamState]
         /\ \A h \in Stream : /\ Aborting(s)[h].pc = stream[h].pc
                              /\ h # s => Aborting(s)[h] = stream[h]
                              /\ h = s /\ s \in control => Aborting(s)[h].aborted
                              /\ stream[h].aborted => Aborting(s)[h].aborted
BY DEF StreamOK, StreamState, Aborting

LEMMA FinalOK ==
  ASSUME MemoryOK, NEW s \in Id
  PROVE  /\ Final(s) \in [Id -> {"none", "active", "final"}]
         /\ \A t \in Id \ {s} : Final(s)[t] = actor[t]
BY DEF MemoryOK, Final

\* The last update of a session is written: its hash and its snapshot say so.
LEMMA LastUpdate ==
  ASSUME Inv, NEW s \in Id, Flush(Noted(s, "ended")), Expiring(s), UNCHANGED <<member, control>>, actor' = Final(s),
         ~Early(s)', ~Live(s)'
  PROVE  /\ RedisOK' /\ MemoryOK' /\ Data(s)'
         /\ \A t \in Id \ {s} : Flushed(t) /\ actor'[t] = actor[t]
<1>1. RedisOK /\ MemoryOK /\ \A t \in Id : snap[t].id => snap[t].status # "none"
  BY Types DEF Inv, Data
<1>2. /\ Noted(s, "ended") \in [Id -> Update] /\ Noted(s, "ended")[s] = "ended"
      /\ \A t \in Id \ {s} : Noted(s, "ended")[t] = pend[t]
  BY <1>1, NotedOK DEF MemoryOK
<1>3. /\ snap' \in [Id -> Entry] /\ row' \in [Id -> Entry] /\ quiet' \subseteq Id /\ pend' \in [Id -> Update]
      /\ \A t \in Id : /\ snap'[t].id => snap'[t].status # "none"
                       /\ row'[t].id => row'[t].status # "none"
                       /\ pend'[t] = "none"
      /\ snap'[s].status = "ended" /\ row'[s].status = "ended"
  BY <1>1, <1>2, FlushOK
<1>4. RedisOK'
  BY <1>1, <1>3 DEF RedisOK, Expiring
<1>5. MemoryOK' /\ \A t \in Id \ {s} : actor'[t] = actor[t]
  BY <1>1, <1>3, FinalOK DEF MemoryOK
<1>6. Data(s)'
  BY <1>3 DEF Data
<1>7. ASSUME NEW t \in Id \ {s} PROVE Flushed(t)
  BY <1>2 DEF Flushed
<1> QED BY <1>4, <1>5, <1>6, <1>7

\* Whoever stops a session whose hash was written, and whatever else the caller does.
LEMMA StopBeginsInv ==
  ASSUME Inv, NEW c \in Caller, NEW s \in Id, StopBegins(c, s), StreamOK', FdOK', ListOK', reader' = reader,
         crashes' = crashes, ~Early(s)', ~Live(s)', s \in Stream => stream'[s].pc # "create",
         s \in Fd /\ fd'[s] = "released" => ~Reading(s),
         \A t \in Id \ {s} : SameOwn(t), \A t \in Id : NotListed(t)
  PROVE  Inv'
<1>1. /\ stop[c] = NoStop /\ stop' = [stop EXCEPT ![c] = [pc |-> "remove", id |-> s]]
      /\ StopOK /\ ReadOK /\ crashes \in 0..MaxCrashes
  BY Types DEF StopBegins, Inv
<1>2. /\ stop'[c].id = s /\ StopOK'
      /\ \A d \in Caller \ {c} : stop'[d] = stop[d]
  <2>1. [pc |-> "remove", id |-> s] \in StopState
    BY DEF StopState
  <2> QED BY <1>1, <2>1 DEF StopOK
<1>3. Stopping(s)' /\ \A t \in Id \ {s} : Stopping(t) <=> Stopping(t)'
  BY <1>1, <1>2, Values DEF Stopping
<1>4. /\ RedisOK' /\ MemoryOK' /\ Data(s)' /\ UNCHANGED <<member, control>>
      /\ \A t \in Id \ {s} : Flushed(t) /\ actor'[t] = actor[t]
  BY LastUpdate DEF StopBegins
<1>5. ASSUME NEW t \in Id \ {s} PROVE Data(t)' /\ Presence(t)' /\ Clean(t)'
  BY <1>3, <1>4, Others DEF Reading
<1>6. Presence(s)' /\ Clean(s)'
  BY <1>3 DEF Presence, Clean, Reading
<1>7. TypeOK'
  BY <1>1, <1>2, <1>4, TypesNext DEF ReadOK
<1> QED BY <1>4, <1>5, <1>6, <1>7 DEF Inv

-----------------------------------------------------------------------------
\* Stops.

LEMMA InitInv == Init => Inv
<1> SUFFICES ASSUME Init PROVE Inv
  OBVIOUS
<1>1. TypeOK
  <2>1. 0 \in 0..MaxCrashes
    BY Bounds
  <2>2. RedisOK /\ MemoryOK /\ StreamOK /\ FdOK /\ ReadOK /\ ListOK /\ StopOK /\ crashes \in 0..MaxCrashes
    BY <2>1, Values DEF Init, RedisOK, MemoryOK, StreamOK, FdOK, ReadOK, ListOK, StopOK, Update
  <2> QED BY <2>2, Types
<1>2. ASSUME NEW s \in Id PROVE Data(s) /\ Presence(s) /\ Clean(s)
  <2>1. row[s] = Empty /\ snap[s] = Empty /\ pend[s] = "none" /\ ~Stopping(s)
    BY Values DEF Init, Stopping
  <2>2. ~Live(s) /\ ~Done(s) /\ ~Shut(s) /\ (s \in Stream => stream[s].pc = "idle" /\ ~stream[s].aborted)
        /\ (s \in Fd => fd[s] # "released")
    BY Values DEF Init, Live, Served, Done, Shut
  <2>3. \A l \in Lister : lister[l].dead = {} /\ lister[l].gone = {}
    BY DEF Init, NoList
  <2> QED BY <2>1, <2>2, <2>3, Values DEF Data, Presence, Clean, Unlisted, Early
<1> QED BY <1>1, <1>2 DEF Inv

LEMMA StopStepInv ==
  ASSUME Inv, NEW c \in Caller, StopStep(c)
  PROVE  Inv'
<1> DEFINE s == stop[c].id
<1>1. /\ stop[c].pc \in {"remove", "forget"} /\ UNCHANGED <<stream, fd, reader, lister, crashes>>
      /\ stop \in [Caller -> StopState] /\ RedisOK /\ MemoryOK /\ StreamOK /\ FdOK /\ ReadOK /\ ListOK
      /\ crashes \in 0..MaxCrashes
  BY Types DEF StopStep, Inv, StopOK
<1>2. s \in Id /\ Stopping(s) /\ stop[c] = [pc |-> stop[c].pc, id |-> s]
  BY <1>1 DEF StopState, NoStop, Stopping
<1>3. PICK i \in Id : i = stop[c].id
  BY <1>2
<1>4. ~Early(i) /\ ~Live(i) /\ (i \in Stream => stream[i].pc # "create") /\ Data(i) /\ Presence(i)
  BY <1>2, <1>3 DEF Inv, Presence, Early
<1>5. \A t \in Id : SameOwn(t) /\ SamePhase(t) /\ NotListed(t) /\ (Reading(t)' => Reading(t))
  BY <1>1, OwnPhase DEF SameOwn, NotListed, Reading
<1>6. StreamOK' /\ FdOK' /\ ReadOK' /\ ListOK' /\ crashes' \in 0..MaxCrashes
  BY <1>1 DEF StreamOK, FdOK, ReadOK, ListOK
<1>7. CASE stop[c].pc = "remove"
  <2>1. /\ member' = member \ {i} /\ stop' = [stop EXCEPT ![c].pc = "forget"]
        /\ UNCHANGED <<row, quiet, ttl>> /\ UNCHANGED memory
    BY <1>3, <1>7 DEF StopStep
  <2>2. \A d \in Caller : stop'[d].id = stop[d].id
    BY <1>1, <1>2, <2>1
  <2>3. StopOK'
    <3>1. [stop[c] EXCEPT !.pc = "forget"] \in StopState
      BY <1>2, <1>3 DEF StopState
    <3> QED BY <1>1, <2>1, <3>1 DEF StopOK
  <2>4. RedisOK' /\ MemoryOK'
    BY <1>1, <2>1 DEF RedisOK, MemoryOK, memory
  <2>5. \A t \in Id : Stopping(t) <=> Stopping(t)'
    BY <2>2 DEF Stopping
  <2>6. ASSUME NEW t \in Id \ {i} PROVE Data(t)' /\ Presence(t)' /\ Clean(t)'
    BY <1>5, <2>1, <2>5, Others DEF SameData, memory
  <2>7. Data(i)' /\ Presence(i)' /\ Clean(i)'
    <3>1. Data(i)' /\ Clean(i)'
      BY <1>5, <2>1, <2>5, DataKept, CleanKept DEF SameData, memory
    <3>2. Presence(i)'
      BY <1>1, <1>4, <1>5 DEF Presence, SamePhase
    <3> QED BY <3>1, <3>2
  <2> QED BY <1>6, <2>3, <2>4, <2>6, <2>7, TypesNext DEF Inv
<1>8. CASE stop[c].pc = "forget"
  <2>1. Forget(i) /\ stop' = [stop EXCEPT ![c] = NoStop] /\ UNCHANGED redis
    BY <1>3, <1>8 DEF StopStep
  <2>2. StopOK'
    BY <1>1, <2>1, Values DEF StopOK
  <2>3. \A t \in Id \ {i} : Stopping(t) <=> Stopping(t)'
    BY <1>1, <1>3, <2>1, Values DEF Stopping
  <2>4. RedisOK' /\ MemoryOK'
    BY <1>1, <2>1, Values DEF RedisOK, MemoryOK, redis, Forget, Update
  <2>5. ASSUME NEW t \in Id \ {i} PROVE Data(t)' /\ Presence(t)' /\ Clean(t)'
    <3>1. SameData(t) /\ actor'[t] = actor[t] /\ (t \in member <=> t \in member') /\ (t \in control <=> t \in control')
      BY <1>1, <2>1 DEF SameData, MemoryOK, redis, Forget
    <3> QED BY <1>5, <2>3, <3>1, Others
  <2>6. snap'[i] = Empty /\ pend'[i] = "none" /\ actor'[i] = "none" /\ i \notin control' /\ row'[i] = row[i]
    BY <1>1, <2>1 DEF MemoryOK, redis, Forget
  <2>7. Data(i)' /\ Presence(i)' /\ Clean(i)'
    BY <1>1, <1>4, <1>5, <2>6, Values DEF Data, Presence, Clean, SamePhase
  <2> QED BY <1>6, <2>2, <2>4, <2>5, <2>7, TypesNext DEF Inv
<1> QED BY <1>1, <1>7, <1>8

LEMMA UserStopInv ==
  ASSUME Inv, NEW c \in Stopper, NEW h \in Stream, UserStop(c, h)
  PROVE  Inv'
<1>1. /\ c \in Caller /\ h \in Id /\ row[h].id /\ StopBegins(c, h) /\ stream' = Aborting(h)
      /\ UNCHANGED <<fd, reader, lister, crashes>>
  BY DEF UserStop, Caller, Id
<1>2. StreamOK /\ FdOK /\ ListOK
  BY Types DEF Inv
<1>3. StreamOK' /\ FdOK' /\ ListOK'
  BY <1>1, <1>2, AbortingOK DEF StreamOK, FdOK, ListOK
<1>4. ~Early(h)
  BY <1>1, Values DEF Inv, Data
<1>5. ~Early(h)' /\ stream'[h].pc # "create"
  BY <1>1, <1>2, <1>4, AbortingOK DEF Early
<1>6. ~Live(h)'
  <2>1. Live(h) => h \in control
    BY <1>1 DEF Inv, Presence
  <2> QED BY <1>1, <1>2, <2>1, AbortingOK DEF Live, Served
<1>7. \A t \in Id \ {h} : SameOwn(t)
  BY <1>1, <1>2, AbortingOK DEF SameOwn
<1>8. (\A t \in Id : NotListed(t)) /\ h \notin Fd
  BY <1>1, Bounds DEF NotListed
<1> QED BY <1>1, <1>3, <1>5, <1>6, <1>7, <1>8, StopBeginsInv

-----------------------------------------------------------------------------
\* Streams.

\* A step of one stream that leaves descriptors, reads, lists and stops alone.
StreamOnly(h) ==
  /\ UNCHANGED <<fd, reader, lister, stop, crashes>>
  /\ \A t \in Stream \ {h} : stream'[t] = stream[t]

\* What such a step keeps.
ElseSame(h) ==
  \A t \in Id : /\ NotListed(t) /\ (Stopping(t) <=> Stopping(t)') /\ (Reading(t)' => Reading(t))
                /\ Unlisted(t) => Unlisted(t)'
                /\ t # h => SameOwn(t)

LEMMA StreamOnlyOthers ==
  ASSUME Inv, NEW h \in Stream, StreamOnly(h)
  PROVE  FdOK' /\ ReadOK' /\ ListOK' /\ StopOK' /\ crashes' \in 0..MaxCrashes /\ ElseSame(h) /\ h \in Id /\ h \notin Fd
<1>1. FdOK /\ ReadOK /\ ListOK /\ StopOK /\ crashes \in 0..MaxCrashes
  BY Types DEF Inv
<1>2. FdOK' /\ ReadOK' /\ ListOK' /\ StopOK' /\ crashes' \in 0..MaxCrashes
  BY <1>1 DEF StreamOnly, FdOK, ReadOK, ListOK, StopOK
<1>3. h \in Id /\ h \notin Fd
  BY Bounds DEF Id
<1> QED BY <1>2, <1>3 DEF ElseSame, StreamOnly, SameOwn, NotListed, Unlisted, Stopping, Reading

LEMMA CreateInv ==
  ASSUME Inv, NEW h \in Stream, NEW api \in BOOLEAN, Create(h, api)
  PROVE  Inv'
<1> DEFINE after == [Idle EXCEPT !.pc = "create", !.api = api]
<1>1. /\ stream[h].pc = "idle" /\ control' = control \union {h} /\ member' = member \union {h}
      /\ UNCHANGED <<row, quiet, ttl, snap, pend, actor>> /\ UNCHANGED <<fd, reader, lister, stop, crashes>>
      /\ stream' = [stream EXCEPT ![h] = after]
  BY DEF Create, StreamAt, Register
<1>2. RedisOK /\ MemoryOK /\ StreamOK
  BY Types DEF Inv
<1>3. after \in StreamState /\ after.pc = "create" /\ ~after.aborted
  BY Values DEF StreamState, StreamPc
<1> HIDE DEF after
<1>4. StreamOK' /\ stream'[h] = after /\ StreamOnly(h)
  BY <1>1, <1>2, <1>3 DEF StreamOK, StreamOnly
<1>5. FdOK' /\ ReadOK' /\ ListOK' /\ StopOK' /\ crashes' \in 0..MaxCrashes /\ ElseSame(h) /\ h \in Id /\ h \notin Fd
  BY <1>4, StreamOnlyOthers
<1>6. RedisOK' /\ MemoryOK'
  BY <1>1, <1>2, <1>5 DEF RedisOK, MemoryOK
<1>7. ASSUME NEW t \in Id \ {h} PROVE Data(t)' /\ Presence(t)' /\ Clean(t)'
  BY <1>1, <1>5, Others DEF ElseSame, SameData
<1>8. SamePhase(h) /\ Early(h) /\ ~Live(h)' /\ ~Shut(h)'
  BY <1>1, <1>3, <1>4, <1>5 DEF SamePhase, Early, Live, Served, Done, Shut
<1>9. Data(h)'
  BY <1>1, <1>5, <1>8, DataKept DEF SameData
<1>10. Presence(h)' /\ Clean(h)'
  BY <1>1, <1>3, <1>4, <1>5, <1>8 DEF ElseSame, Presence, Clean, Inv, NotListed
<1> QED BY <1>4, <1>5, <1>6, <1>7, <1>9, <1>10, TypesNext DEF Inv

\* The hash is written, and the stream is counted from here on.
LEMMA CreatedInv ==
  ASSUME Inv, NEW h \in Stream, Created(h)
  PROVE  Inv'
<1>1. /\ stream[h].pc = "create" /\ Goto(h, "ready")
      /\ snap' = [snap EXCEPT ![h] = Fresh] /\ row' = [row EXCEPT ![h] = Fresh]
      /\ actor' = [actor EXCEPT ![h] = IF @ = "none" THEN "active" ELSE @]
      /\ quiet' = quiet \ {h} /\ ttl' = ttl \union {h} /\ UNCHANGED <<member, control, pend>>
      /\ UNCHANGED <<fd, reader, lister, stop, crashes>>
  BY DEF Created, StreamAt, WriteFirst, Expiring
<1>2. RedisOK /\ MemoryOK /\ StreamOK
  BY Types DEF Inv
<1>3. /\ StreamOK' /\ stream'[h].pc = "ready" /\ stream'[h].aborted = stream[h].aborted /\ StreamOnly(h)
  BY <1>1, <1>2, GotoOK DEF StreamPc, StreamOnly
<1>4. FdOK' /\ ReadOK' /\ ListOK' /\ StopOK' /\ crashes' \in 0..MaxCrashes /\ ElseSame(h) /\ h \in Id /\ h \notin Fd
  BY <1>3, StreamOnlyOthers
<1>5. /\ snap' \in [Id -> Entry] /\ row' \in [Id -> Entry] /\ row'[h] = Fresh /\ snap'[h] = Fresh
      /\ actor' \in [Id -> {"none", "active", "final"}]
      /\ \A t \in Id \ {h} : row'[t] = row[t] /\ snap'[t] = snap[t] /\ actor'[t] = actor[t]
  BY <1>1, <1>2, <1>4, Values DEF RedisOK, MemoryOK
<1>6. RedisOK' /\ MemoryOK'
  BY <1>1, <1>2, <1>4, <1>5, Values DEF RedisOK, MemoryOK
<1>7. ASSUME NEW t \in Id \ {h} PROVE Data(t)' /\ Presence(t)' /\ Clean(t)'
  BY <1>1, <1>4, <1>5, Others DEF ElseSame, SameData
<1>8. Early(h) /\ ~Early(h)' /\ ~Done(h)' /\ ~Shut(h)' /\ Data(h) /\ Presence(h)
  BY <1>1, <1>3, <1>4 DEF Early, Done, Shut, Inv
<1>9. Data(h)' /\ Presence(h)' /\ Clean(h)'
  BY <1>1, <1>3, <1>4, <1>5, <1>8, Values DEF ElseSame, Data, Presence, Clean
<1> QED BY <1>3, <1>4, <1>6, <1>7, <1>9, TypesNext DEF Inv

\* A stream whose phase ends, and whose session only others look after.
LEMMA ServeInv ==
  ASSUME Inv, NEW h \in Stream, Serve(h) \/ Abandon(h) \/ ApiOver(h)
  PROVE  Inv'
<1>1. UNCHANGED <<redis, memory, fd, reader, lister, stop, crashes>>
  BY DEF Serve, Abandon, ApiOver
<1>2. RedisOK /\ MemoryOK /\ StreamOK
  BY Types DEF Inv
<1>3. PICK pc \in {"serving", "abandoned", "over"} :
        /\ Goto(h, pc)
        /\ stream[h].pc = IF pc = "over" THEN "stopping" ELSE "opened"
  BY DEF Serve, Abandon, ApiOver, StreamAt
<1>4. /\ StreamOK' /\ stream'[h].pc = pc /\ stream'[h].aborted = stream[h].aborted /\ StreamOnly(h)
  BY <1>1, <1>2, <1>3, GotoOK DEF StreamPc, StreamOnly
<1>5. FdOK' /\ ReadOK' /\ ListOK' /\ StopOK' /\ crashes' \in 0..MaxCrashes /\ ElseSame(h) /\ h \in Id /\ h \notin Fd
  BY <1>4, StreamOnlyOthers
<1>6. RedisOK' /\ MemoryOK'
  BY <1>1, <1>2 DEF RedisOK, MemoryOK, redis, memory
<1>7. \A t \in Id : SameData(t) /\ actor'[t] = actor[t] /\ (t \in member <=> t \in member') /\ (t \in control <=> t \in control')
  BY <1>1 DEF SameData, redis, memory
<1>8. ASSUME NEW t \in Id \ {h} PROVE Data(t)' /\ Presence(t)' /\ Clean(t)'
  BY <1>5, <1>7, Others DEF ElseSame
<1>9. /\ ~Early(h)' /\ (Live(h)' => Live(h)) /\ (Done(h)' <=> Done(h)) /\ (Shut(h)' <=> Shut(h))
      /\ stream'[h].pc # "create"
  BY <1>3, <1>4, <1>5 DEF Early, Live, Served, Done, Shut
<1>10. Data(h)' /\ Presence(h)' /\ Clean(h)'
  BY <1>5, <1>7, <1>9 DEF ElseSame, Inv, Data, Presence, Clean, SameData
<1> QED BY <1>4, <1>5, <1>6, <1>8, <1>10, TypesNext DEF Inv

\* An update without a status keeps a live session active.
LEMMA PlainUpdate ==
  ASSUME Inv, NEW h \in Stream, Flush(Noted(h, "plain")), UNCHANGED <<member, ttl, actor>>, control' \subseteq Id,
         ~Early(h)', ~Done(h)', Live(h)' => Live(h)
  PROVE  RedisOK' /\ MemoryOK' /\ Data(h)' /\ \A t \in Id \ {h} : Flushed(t)
<1>1. h \in Id /\ RedisOK /\ MemoryOK /\ Data(h) /\ \A t \in Id : snap[t].id => snap[t].status # "none"
  BY Types DEF Inv, Data, Id
<1>2. /\ Noted(h, "plain") \in [Id -> Update]
      /\ Noted(h, "plain")[h] = IF pend[h] # "none" THEN pend[h] ELSE "plain"
      /\ \A t \in Id \ {h} : Noted(h, "plain")[t] = pend[t]
  BY <1>1, NotedOK DEF MemoryOK
<1>3. Noted(h, "plain")[h] = "plain"
  BY <1>1, <1>2 DEF Data, MemoryOK, Update
<1>4. /\ snap' \in [Id -> Entry] /\ row' \in [Id -> Entry] /\ quiet' \subseteq Id /\ pend' \in [Id -> Update]
      /\ \A t \in Id : /\ snap'[t].id => snap'[t].status # "none"
                       /\ row'[t].id => row'[t].status # "none"
                       /\ pend'[t] = "none"
      /\ snap'[h] = snap[h] /\ row'[h] = Written(row[h], snap[h])
  BY <1>1, <1>2, <1>3, FlushOK
<1>5. RedisOK' /\ MemoryOK'
  BY <1>1, <1>4 DEF RedisOK, MemoryOK
<1>6. ASSUME Live(h) PROVE row'[h] \in {Empty, Fresh} /\ snap'[h] = Fresh
  <2>1. snap[h] = Fresh /\ row[h] \in {Empty, Fresh}
    BY <1>1, <1>6 DEF Data
  <2> QED BY <1>4, <2>1, Values, WrittenOf
<1>7. Data(h)'
  BY <1>1, <1>4, <1>6 DEF Data
<1>8. ASSUME NEW t \in Id \ {h} PROVE Flushed(t)
  BY <1>2 DEF Flushed
<1> QED BY <1>5, <1>7, <1>8

LEMMA PrepareInv ==
  ASSUME Inv, NEW h \in Stream, Prepare(h)
  PROVE  Inv'
<1>1. /\ stream[h].pc = "ready" /\ Goto(h, "opened") /\ Flush(Noted(h, "plain"))
      /\ control' \in {control, control \union {h}}
      /\ UNCHANGED <<member, ttl, actor, fd, reader, lister, stop, crashes>>
  BY DEF Prepare, StreamAt
<1>2. MemoryOK /\ StreamOK
  BY Types DEF Inv
<1>3. /\ StreamOK' /\ stream'[h].pc = "opened" /\ stream'[h].aborted = stream[h].aborted /\ StreamOnly(h)
  BY <1>1, <1>2, GotoOK DEF StreamPc, StreamOnly
<1>4. FdOK' /\ ReadOK' /\ ListOK' /\ StopOK' /\ crashes' \in 0..MaxCrashes /\ ElseSame(h) /\ h \in Id /\ h \notin Fd
  BY <1>3, StreamOnlyOthers
<1>5. ~Early(h)' /\ ~Done(h)' /\ (Live(h)' => Live(h)) /\ ~Shut(h)'
  BY <1>1, <1>3, <1>4 DEF Early, Done, Live, Served, Shut
<1>6. control' \subseteq Id /\ h \in Id
  BY <1>1, <1>2, <1>4 DEF MemoryOK
<1>7. RedisOK' /\ MemoryOK' /\ Data(h)' /\ \A t \in Id \ {h} : Flushed(t)
  BY <1>1, <1>5, <1>6, PlainUpdate
<1>8. ASSUME NEW t \in Id \ {h} PROVE Data(t)' /\ Presence(t)' /\ Clean(t)'
  <2>1. (t \in control <=> t \in control') /\ (t \in member <=> t \in member') /\ actor'[t] = actor[t]
    BY <1>1
  <2> QED BY <1>4, <1>7, <2>1, Others DEF ElseSame
<1>9. Presence(h)' /\ Clean(h)'
  BY <1>1, <1>3, <1>4, <1>5 DEF ElseSame, Inv, Presence, Clean
<1> QED BY <1>3, <1>4, <1>7, <1>8, <1>9, TypesNext DEF Inv

LEMMA ApiServedInv ==
  ASSUME Inv, NEW h \in Stream, ApiServed(h)
  PROVE  Inv'
<1>1. /\ stream[h].pc = "opened" /\ Flush(Noted(h, "plain"))
      /\ UNCHANGED <<member, ttl, control, actor, stream, fd, reader, lister, stop, crashes>>
  BY DEF ApiServed, StreamAt
<1>2. MemoryOK /\ StreamOK
  BY Types DEF Inv
<1>3. StreamOK' /\ StreamOnly(h)
  BY <1>1, <1>2 DEF StreamOK, StreamOnly
<1>4. FdOK' /\ ReadOK' /\ ListOK' /\ StopOK' /\ crashes' \in 0..MaxCrashes /\ ElseSame(h) /\ h \in Id /\ h \notin Fd
  BY <1>3, StreamOnlyOthers
<1>5. ~Early(h)' /\ ~Done(h)' /\ (Live(h)' => Live(h)) /\ ~Shut(h)' /\ stream'[h].pc # "create"
  BY <1>1, <1>4 DEF Early, Done, Live, Served, Shut
<1>6. RedisOK' /\ MemoryOK' /\ Data(h)' /\ \A t \in Id \ {h} : Flushed(t)
  BY <1>1, <1>2, <1>5, PlainUpdate DEF MemoryOK
<1>7. ASSUME NEW t \in Id \ {h} PROVE Data(t)' /\ Presence(t)' /\ Clean(t)'
  BY <1>1, <1>4, <1>6, Others DEF ElseSame
<1>8. Presence(h)' /\ Clean(h)'
  BY <1>1, <1>4, <1>5 DEF ElseSame, Inv, Presence, Clean
<1> QED BY <1>3, <1>4, <1>6, <1>7, <1>8, TypesNext DEF Inv

LEMMA ProgressInv ==
  ASSUME Inv, NEW h \in Stream, Progress(h)
  PROVE  Inv'
<1>1. /\ stream[h].pc = "serving" /\ pend[h] = "none" /\ pend' = Noted(h, "plain")
      /\ UNCHANGED <<redis, control, snap, actor, stream, fd, reader, lister, stop, crashes>>
  BY DEF Progress, StreamAt
<1>2. RedisOK /\ MemoryOK /\ StreamOK
  BY Types DEF Inv
<1>3. StreamOK' /\ StreamOnly(h)
  BY <1>1, <1>2 DEF StreamOK, StreamOnly
<1>4. FdOK' /\ ReadOK' /\ ListOK' /\ StopOK' /\ crashes' \in 0..MaxCrashes /\ ElseSame(h) /\ h \in Id /\ h \notin Fd
  BY <1>3, StreamOnlyOthers
<1>5. ~Early(h)' /\ ~Done(h)' /\ (Live(h)' => Live(h)) /\ ~Shut(h)' /\ stream'[h].pc # "create"
  BY <1>1, <1>4 DEF Early, Done, Live, Served, Shut
<1>6. /\ pend' \in [Id -> Update] /\ pend'[h] = "plain"
      /\ \A t \in Id \ {h} : pend'[t] = pend[t]
  BY <1>1, <1>2, <1>4, NotedOK DEF MemoryOK
<1>7. RedisOK' /\ MemoryOK'
  BY <1>1, <1>2, <1>6 DEF RedisOK, MemoryOK, redis
<1>8. ASSUME NEW t \in Id \ {h} PROVE Data(t)' /\ Presence(t)' /\ Clean(t)'
  BY <1>1, <1>4, <1>6, Others DEF ElseSame, SameData, redis
<1>9. Data(h)' /\ Presence(h)' /\ Clean(h)'
  BY <1>1, <1>4, <1>5, <1>6 DEF ElseSame, Inv, Data, Presence, Clean, redis
<1> QED BY <1>3, <1>4, <1>7, <1>8, <1>9, TypesNext DEF Inv

\* The finally of a generator writes the last update.
LEMMA CloseInv ==
  ASSUME Inv, NEW h \in Stream, Close(h)
  PROVE  Inv'
<1>1. /\ stream[h].pc = "serving" /\ Goto(h, "removing") /\ actor' = Final(h)
      /\ Flush(Noted(h, "ended")) /\ Expiring(h)
      /\ UNCHANGED <<member, control, fd, reader, lister, stop, crashes>>
  BY DEF Close, StreamAt
<1>2. StreamOK
  BY Types DEF Inv
<1>3. StreamOK' /\ stream'[h].pc = "removing" /\ StreamOnly(h)
  BY <1>1, <1>2, GotoOK DEF StreamPc, StreamOnly
<1>4. FdOK' /\ ReadOK' /\ ListOK' /\ StopOK' /\ crashes' \in 0..MaxCrashes /\ ElseSame(h) /\ h \in Id /\ h \notin Fd
  BY <1>3, StreamOnlyOthers
<1>5. ~Early(h)' /\ ~Live(h)' /\ ~Shut(h)'
  BY <1>3, <1>4 DEF Early, Live, Served, Shut
<1>6. RedisOK' /\ MemoryOK' /\ Data(h)' /\ \A t \in Id \ {h} : Flushed(t) /\ actor'[t] = actor[t]
  BY <1>1, <1>4, <1>5, LastUpdate
<1>7. ASSUME NEW t \in Id \ {h} PROVE Data(t)' /\ Presence(t)' /\ Clean(t)'
  BY <1>1, <1>4, <1>6, Others DEF ElseSame
<1>8. Presence(h)' /\ Clean(h)'
  BY <1>3, <1>4, <1>5 DEF ElseSame, Presence, Clean
<1> QED BY <1>3, <1>4, <1>6, <1>7, <1>8, TypesNext DEF Inv

LEMMA ClosingInv ==
  ASSUME Inv, NEW h \in Stream, Closing(h)
  PROVE  Inv'
<1>1. UNCHANGED <<fd, reader, lister, stop, crashes>>
  BY DEF Closing
<1>2. RedisOK /\ MemoryOK /\ StreamOK
  BY Types DEF Inv
<1>3. PICK pc \in {"forgetting", "over"} :
        /\ Goto(h, pc)
        /\ \/ /\ pc = "forgetting" /\ stream[h].pc = "removing" /\ member' = member \ {h}
              /\ UNCHANGED <<row, quiet, ttl>> /\ UNCHANGED memory
           \/ pc = "over" /\ stream[h].pc = "forgetting" /\ Forget(h) /\ UNCHANGED redis
  BY DEF Closing, StreamAt
<1>4. StreamOK' /\ stream'[h].pc = pc /\ StreamOnly(h)
  BY <1>1, <1>2, <1>3, GotoOK DEF StreamPc, StreamOnly
<1>5. FdOK' /\ ReadOK' /\ ListOK' /\ StopOK' /\ crashes' \in 0..MaxCrashes /\ ElseSame(h) /\ h \in Id /\ h \notin Fd
  BY <1>4, StreamOnlyOthers
<1>6. ~Early(h)' /\ ~Live(h)' /\ stream'[h].pc # "create" /\ Done(h) /\ Data(h) /\ (Shut(h)' => pc = "over")
  BY <1>3, <1>4, <1>5 DEF Early, Live, Served, Done, Shut, Inv
<1>7. RedisOK' /\ MemoryOK'
  <2>1. CASE pc = "forgetting"
    <3>1. member' \subseteq member /\ UNCHANGED <<row, quiet, ttl>> /\ UNCHANGED memory
      BY <1>3, <2>1
    <3> QED BY <1>2, <3>1 DEF RedisOK, MemoryOK, memory
  <2>2. CASE pc = "over"
    <3>1. Forget(h) /\ UNCHANGED redis
      BY <1>3, <2>2
    <3> QED BY <1>2, <3>1, Values DEF RedisOK, MemoryOK, redis, Forget, Update
  <2> QED BY <2>1, <2>2
<1>8. ASSUME NEW t \in Id \ {h} PROVE Data(t)' /\ Presence(t)' /\ Clean(t)'
  <2>1. SameData(t) /\ actor'[t] = actor[t] /\ (t \in member <=> t \in member') /\ (t \in control <=> t \in control')
    BY <1>2, <1>3 DEF SameData, MemoryOK, redis, memory, Forget
  <2> QED BY <1>5, <2>1, Others DEF ElseSame
<1>9. /\ row'[h] = row[h] /\ snap'[h] \in {snap[h], Empty} /\ pend'[h] = "none"
      /\ pc = "over" => h \notin control' /\ snap'[h] = Empty /\ actor'[h] = "none"
  BY <1>2, <1>3, <1>5, <1>6 DEF MemoryOK, redis, memory, Forget, Data
<1>10. Data(h)' /\ Presence(h)' /\ Clean(h)'
  BY <1>5, <1>6, <1>9, Values DEF ElseSame, Data, Presence, Clean
<1> QED BY <1>4, <1>5, <1>7, <1>8, <1>10, TypesNext DEF Inv

\* A raw read ends its session itself.
LEMMA ApiEndsInv ==
  ASSUME Inv, NEW h \in Stream, ApiEnds(h)
  PROVE  Inv'
<1>1. /\ h \in Caller /\ h \in Id /\ h \notin Fd /\ StopBegins(h, h)
      /\ stream' = [Aborting(h) EXCEPT ![h].pc = "stopping"]
      /\ UNCHANGED <<fd, reader, lister, crashes>>
  BY Bounds DEF ApiEnds, Caller, Id
<1>2. StreamOK /\ FdOK /\ ListOK
  BY Types DEF Inv
<1>3. StreamOK' /\ stream'[h].pc = "stopping" /\ \A t \in Stream \ {h} : stream'[t] = stream[t]
  <2>1. /\ Aborting(h) \in [Stream -> StreamState]
        /\ \A t \in Stream \ {h} : Aborting(h)[t] = stream[t]
    BY <1>1, <1>2, AbortingOK
  <2>2. [Aborting(h)[h] EXCEPT !.pc = "stopping"] \in StreamState
    BY <2>1 DEF StreamState, StreamPc
  <2>3. [Aborting(h)[h] EXCEPT !.pc = "stopping"].pc = "stopping"
    BY <2>1 DEF StreamState
  <2> QED BY <1>1, <2>1, <2>2, <2>3 DEF StreamOK
<1>4. FdOK' /\ ListOK'
  BY <1>1, <1>2 DEF FdOK, ListOK
<1>5. ~Early(h)' /\ ~Live(h)'
  BY <1>1, <1>3 DEF Early, Live, Served
<1>6. (\A t \in Id \ {h} : SameOwn(t)) /\ \A t \in Id : NotListed(t)
  BY <1>1, <1>3 DEF SameOwn, NotListed
<1> QED BY <1>1, <1>3, <1>4, <1>5, <1>6, StopBeginsInv

-----------------------------------------------------------------------------
\* Reads of descriptors.

\* A step of one session that keeps what is known of every other.
OnlyOf(f) ==
  \A t \in Id \ {f} :
    /\ SameData(t) /\ actor'[t] = actor[t]
    /\ (t \in member <=> t \in member') /\ (t \in control <=> t \in control')

\* A step of one read of an open descriptor that leaves the hashes alone.
LEMMA ReadOnly ==
  ASSUME Inv, NEW r \in Reader, NEW f \in Fd, fd[f] # "released",
         NEW after \in ReadState, after.id \in {f, NoRead.id}, reader' = [reader EXCEPT ![r] = after],
         UNCHANGED <<stream, fd, lister, stop, crashes>>, RedisOK', MemoryOK',
         snap'[f].id => snap'[f].status # "none", pend'[f] # "ended", OnlyOf(f)
  PROVE  Inv'
<1>1. StreamOK /\ FdOK /\ ReadOK /\ ListOK /\ StopOK /\ crashes \in 0..MaxCrashes
  BY Types DEF Inv
<1>2. StreamOK' /\ FdOK' /\ ReadOK' /\ ListOK' /\ StopOK' /\ crashes' \in 0..MaxCrashes
  BY <1>1 DEF StreamOK, FdOK, ReadOK, ListOK, StopOK
<1>3. ASSUME NEW t \in Id \ {f} PROVE Data(t)' /\ Presence(t)' /\ Clean(t)'
  <2>1. Reading(t)' => Reading(t)
    <3>1. /\ reader'[r] = after
          /\ \A q \in Reader \ {r} : reader'[q] = reader[q]
      BY <1>1 DEF ReadOK
    <3> QED BY <3>1, Values DEF Reading
  <2>2. SameOwn(t) /\ NotListed(t) /\ (Stopping(t) <=> Stopping(t)')
    BY DEF SameOwn, NotListed, Stopping
  <2> QED BY <2>1, <2>2, Others DEF OnlyOf
<1>4. Data(f)' /\ Presence(f)' /\ Clean(f)'
  BY OpenFd
<1> QED BY <1>2, <1>3, <1>4, TypesNext DEF Inv

\* A read that was begun has its descriptor open.
LEMMA ReadingOpen ==
  ASSUME Inv, NEW r \in Reader, reader[r].pc # "idle"
  PROVE  /\ reader[r].id \in Fd /\ reader[r].id \in Id /\ fd[reader[r].id] # "released"
         /\ reader[r] = [pc |-> reader[r].pc, id |-> reader[r].id]
<1>1. reader[r] \in ReadState
  BY Types DEF Inv, ReadOK
<1>2. /\ reader[r].id \in Fd /\ reader[r].id \in Id
      /\ reader[r] = [pc |-> reader[r].pc, id |-> reader[r].id]
  BY <1>1 DEF ReadState, NoRead, Id
<1>3. Presence(reader[r].id) /\ Reading(reader[r].id)
  BY <1>2 DEF Inv, Reading
<1> QED BY <1>2, <1>3 DEF Presence

\* With a controller the read goes on.
LEMMA GoOnInv ==
  ASSUME Inv, NEW r \in Reader, NEW f \in Fd, fd[f] # "released", NEW hit \in BOOLEAN, GoOn(r, f, hit),
         UNCHANGED <<stream, fd, lister, stop, crashes>>
  PROVE  Inv'
<1> DEFINE after == IF hit THEN NoRead ELSE [pc |-> "miss", id |-> f]
<1>1. /\ control' = control \union {f} /\ pend' = IF hit THEN Noted(f, "plain") ELSE pend
      /\ reader' = [reader EXCEPT ![r] = after] /\ UNCHANGED <<redis, snap, actor>>
  BY DEF GoOn
<1>2. RedisOK /\ MemoryOK /\ f \in Id /\ Data(f)
  BY Types DEF Inv, Id
<1>3. after \in ReadState /\ after.id \in {f, NoRead.id}
  BY Values DEF ReadState
<1> HIDE DEF after
<1>4. /\ Noted(f, "plain") \in [Id -> Update]
      /\ Noted(f, "plain")[f] \in {pend[f], "plain"}
      /\ \A t \in Id \ {f} : Noted(f, "plain")[t] = pend[t]
  BY <1>2, NotedOK DEF MemoryOK
<1>5. /\ pend' \in [Id -> Update] /\ pend'[f] # "ended" /\ \A t \in Id \ {f} : pend'[t] = pend[t]
  BY <1>1, <1>2, <1>4 DEF MemoryOK, Data
<1>6. RedisOK' /\ MemoryOK'
  BY <1>1, <1>2, <1>5 DEF RedisOK, MemoryOK, redis
<1>7. OnlyOf(f)
  BY <1>1, <1>5 DEF OnlyOf, SameData, redis
<1>8. snap'[f].id => snap'[f].status # "none"
  BY <1>1, <1>2 DEF Data
<1> QED BY <1>1, <1>3, <1>5, <1>6, <1>7, <1>8, ReadOnly

LEMMA ReadInv ==
  ASSUME Inv, NEW r \in Reader, NEW f \in Fd, NEW hit \in BOOLEAN, Read(r, f, hit)
  PROVE  Inv'
<1>1. fd[f] # "released" /\ UNCHANGED <<stream, fd, lister, stop, crashes>>
  BY DEF Read
<1>2. CASE f \in control
  BY <1>1, <1>2, GoOnInv DEF Read
<1>3. CASE f \notin control
  <2> DEFINE after == [pc |-> "create", id |-> f]
  <2>1. /\ control' = control \union {f} /\ member' = member \union {f}
        /\ UNCHANGED <<row, quiet, ttl, snap, pend, actor>> /\ reader' = [reader EXCEPT ![r] = after]
    BY <1>3 DEF Read, Register
  <2>2. RedisOK /\ MemoryOK /\ f \in Id /\ Data(f)
    BY Types DEF Inv, Id
  <2>3. after \in ReadState /\ after.id \in {f, NoRead.id}
    BY DEF ReadState
  <2> HIDE DEF after
  <2>4. RedisOK' /\ MemoryOK'
    BY <2>1, <2>2 DEF RedisOK, MemoryOK
  <2>5. OnlyOf(f)
    BY <2>1 DEF OnlyOf, SameData
  <2>6. (snap'[f].id => snap'[f].status # "none") /\ pend'[f] # "ended"
    BY <2>1, <2>2 DEF Data
  <2> QED BY <1>1, <2>1, <2>3, <2>4, <2>5, <2>6, ReadOnly
<1> QED BY <1>2, <1>3

LEMMA ReadCreatesInv ==
  ASSUME Inv, NEW r \in Reader, ReadCreates(r)
  PROVE  Inv'
<1>1. /\ reader[r].pc = "create" /\ WriteFirst(reader[r].id) /\ reader' = [reader EXCEPT ![r].pc = "has"]
      /\ UNCHANGED <<stream, fd, lister, stop, crashes>>
  BY DEF ReadCreates
<1>2. PICK f \in Fd : f = reader[r].id /\ f \in Id /\ fd[f] # "released" /\ reader[r] = [pc |-> "create", id |-> f]
  BY <1>1, ReadingOpen
<1>3. PICK after \in ReadState : after.id = f /\ reader' = [reader EXCEPT ![r] = after]
  <2> DEFINE has == [pc |-> "has", id |-> f]
  <2>1. has \in ReadState /\ has.id = f
    BY DEF ReadState
  <2>2. [reader[r] EXCEPT !.pc = "has"] = has
    BY <1>2
  <2>3. reader' = [reader EXCEPT ![r] = has]
    BY <1>1, <2>2
  <2> QED BY <2>1, <2>3
<1>4. RedisOK /\ MemoryOK
  BY Types DEF Inv
<1>5. /\ snap' = [snap EXCEPT ![f] = Fresh] /\ row' = [row EXCEPT ![f] = Fresh]
      /\ actor' = [actor EXCEPT ![f] = IF @ = "none" THEN "active" ELSE @]
      /\ quiet' = quiet \ {f} /\ ttl' = ttl \union {f} /\ UNCHANGED <<member, control, pend>>
  BY <1>1, <1>2 DEF WriteFirst, Expiring
<1>6. /\ snap' \in [Id -> Entry] /\ row' \in [Id -> Entry] /\ row'[f] = Fresh /\ snap'[f] = Fresh
      /\ actor' \in [Id -> {"none", "active", "final"}]
      /\ \A t \in Id \ {f} : row'[t] = row[t] /\ snap'[t] = snap[t] /\ actor'[t] = actor[t]
  BY <1>2, <1>4, <1>5, Values DEF RedisOK, MemoryOK
<1>7. RedisOK' /\ MemoryOK'
  BY <1>2, <1>4, <1>5, <1>6, Values DEF RedisOK, MemoryOK
<1>8. OnlyOf(f)
  BY <1>5, <1>6 DEF OnlyOf, SameData
<1>9. (snap'[f].id => snap'[f].status # "none") /\ pend'[f] # "ended"
  BY <1>2, <1>5, <1>6, Values DEF Inv, Data
<1>10. UNCHANGED <<stream, fd, lister, stop, crashes>>
  BY <1>1
<1> QED BY <1>2, <1>3, <1>7, <1>8, <1>9, <1>10, ReadOnly

LEMMA ReadCreatedInv ==
  ASSUME Inv, NEW r \in Reader, NEW hit \in BOOLEAN, ReadCreated(r, hit)
  PROVE  Inv'
<1>1. reader[r].pc = "has" /\ GoOn(r, reader[r].id, hit) /\ UNCHANGED <<stream, fd, lister, stop, crashes>>
  BY DEF ReadCreated
<1>2. PICK f \in Fd : f = reader[r].id /\ fd[f] # "released"
  BY <1>1, ReadingOpen
<1> QED BY <1>1, <1>2, GoOnInv

\* The session is declared active again, and a late "plain" update follows it.
LEMMA ReadFetchesInv ==
  ASSUME Inv, NEW r \in Reader, ReadFetches(r) \/ \E ok \in BOOLEAN : ReadEnds(r, ok)
  PROVE  Inv'
<1>1. /\ reader[r].pc \in {"miss", "fetch"}
      /\ UNCHANGED <<redis, control, snap, actor, stream, fd, lister, stop, crashes>>
  BY DEF ReadFetches, ReadEnds
<1>2. PICK f \in Fd : f = reader[r].id /\ f \in Id /\ fd[f] # "released" /\ reader[r] = [pc |-> reader[r].pc, id |-> f]
  BY <1>1, ReadingOpen
<1>3. PICK after \in {NoRead, [pc |-> "fetch", id |-> f]} : reader' = [reader EXCEPT ![r] = after]
  <2>1. CASE ReadFetches(r)
    <3>1. [reader[r] EXCEPT !.pc = "fetch"] = [pc |-> "fetch", id |-> f]
      BY <1>2
    <3>2. reader' = [reader EXCEPT ![r] = [reader[r] EXCEPT !.pc = "fetch"]]
      BY <2>1 DEF ReadFetches
    <3> QED BY <3>1, <3>2
  <2>2. CASE \E ok \in BOOLEAN : ReadEnds(r, ok)
    BY <2>2 DEF ReadEnds
  <2> QED BY <2>1, <2>2
<1>4. after \in ReadState /\ after.id \in {f, NoRead.id}
  BY <1>3 DEF ReadState
<1>5. RedisOK /\ MemoryOK /\ Data(f)
  BY <1>2, Types DEF Inv
<1>6. pend' \in {pend, Noted(f, "active"), Noted(f, "plain")}
  BY <1>2 DEF ReadFetches, ReadEnds
<1>7. ASSUME NEW update \in {"plain", "active"}
      PROVE  /\ Noted(f, update) \in [Id -> Update] /\ Noted(f, update)[f] \in {pend[f], update}
             /\ \A t \in Id \ {f} : Noted(f, update)[t] = pend[t]
  BY <1>2, <1>5, NotedOK DEF MemoryOK
<1>8. /\ pend' \in [Id -> Update] /\ pend'[f] # "ended" /\ \A t \in Id \ {f} : pend'[t] = pend[t]
  BY <1>5, <1>6, <1>7 DEF MemoryOK, Data
<1>9. RedisOK' /\ MemoryOK'
  BY <1>1, <1>5, <1>8 DEF RedisOK, MemoryOK, redis
<1>10. OnlyOf(f)
  BY <1>1, <1>8 DEF OnlyOf, SameData, redis
<1>11. snap'[f].id => snap'[f].status # "none"
  BY <1>1, <1>5 DEF Data
<1> QED BY <1>1, <1>2, <1>3, <1>4, <1>8, <1>9, <1>10, <1>11, ReadOnly

LEMMA ReleaseInv ==
  ASSUME Inv, NEW c \in Stopper, NEW f \in Fd, Release(c, f)
  PROVE  Inv'
<1>1. /\ fd[f] = "open" /\ ~Reading(f) /\ c \in Caller /\ f \in Id /\ f \notin Stream
      /\ fd' = [fd EXCEPT ![f] = "released"] /\ StopBegins(c, f) /\ UNCHANGED <<stream, reader, lister, crashes>>
  BY Bounds DEF Release, Caller, Id
<1>2. StreamOK /\ FdOK /\ ListOK
  BY Types DEF Inv
<1>3. StreamOK' /\ FdOK' /\ ListOK'
  BY <1>1, <1>2 DEF StreamOK, FdOK, ListOK
<1>4. ~Early(f)' /\ ~Live(f)'
  BY <1>1 DEF Early, Live
<1>5. (\A t \in Id \ {f} : SameOwn(t)) /\ \A t \in Id : NotListed(t)
  BY <1>1, <1>2 DEF SameOwn, NotListed, FdOK
<1> QED BY <1>1, <1>3, <1>4, <1>5, StopBeginsInv

-----------------------------------------------------------------------------
\* Listings.

\* A step of one listing, which may take ids out of the set.
LEMMA ListOnly ==
  ASSUME Inv, NEW l \in Lister, NEW after \in ListState, lister' = [lister EXCEPT ![l] = after],
         UNCHANGED <<row, quiet, ttl>>, UNCHANGED memory, UNCHANGED <<stream, fd, reader, stop, crashes>>,
         NEW gone \in SUBSET Id, member' = member \ gone,
         \A t \in Stream : /\ t \in after.dead => ~Early(t)
                           /\ t \in after.gone \union gone => ~Early(t) /\ ~Live(t)
  PROVE  Inv'
<1>1. RedisOK /\ MemoryOK /\ StreamOK /\ FdOK /\ ReadOK /\ ListOK /\ StopOK /\ crashes \in 0..MaxCrashes
  BY Types DEF Inv
<1>2. /\ ListOK' /\ lister'[l] = after
      /\ \A k \in Lister \ {l} : lister'[k] = lister[k]
  BY <1>1 DEF ListOK
<1>3. RedisOK' /\ MemoryOK' /\ StreamOK' /\ FdOK' /\ ReadOK' /\ StopOK' /\ crashes' \in 0..MaxCrashes
  BY <1>1 DEF RedisOK, MemoryOK, memory, StreamOK, FdOK, ReadOK, StopOK
<1>4. ASSUME NEW t \in Id PROVE Data(t)' /\ Presence(t)' /\ Clean(t)'
  <2>1. SameOwn(t) /\ SamePhase(t) /\ SameData(t) /\ (Stopping(t) <=> Stopping(t)') /\ (Reading(t)' => Reading(t))
    BY OwnPhase DEF SameOwn, SameData, memory, Stopping, Reading
  <2>2. Data(t)' /\ Clean(t)'
    BY <2>1, DataKept, CleanKept DEF memory
  <2>3. Presence(t)
    BY DEF Inv
  <2>4. /\ Early(t) => (\A k \in Lister : t \notin lister'[k].dead) /\ Unlisted(t)'
        /\ Live(t) => Unlisted(t)'
    BY <1>2, <2>3 DEF Presence, Unlisted, Early, Live
  <2>5. t \in Stream /\ (Live(t) \/ stream[t].pc = "create") => (t \in member => t \in member')
    BY DEF Early
  <2> QED BY <2>1, <2>2, <2>3, <2>4, <2>5 DEF Presence, SamePhase, SameOwn, memory, Live
<1> QED BY <1>2, <1>3, <1>4, TypesNext DEF Inv

LEMMA ListIdsInv ==
  ASSUME Inv, NEW l \in Lister, ListIds(l)
  PROVE  Inv'
<1> DEFINE after == [NoList EXCEPT !.pc = "rows", !.ids = member]
<1>1. /\ lister' = [lister EXCEPT ![l] = after] /\ member' = member \ {}
      /\ UNCHANGED <<row, quiet, ttl>> /\ UNCHANGED memory /\ UNCHANGED <<stream, fd, reader, stop, crashes>>
  BY DEF ListIds, redis
<1>2. member \subseteq Id
  BY Types DEF Inv, RedisOK
<1>3. after \in ListState /\ after.dead = {} /\ after.gone = {}
  BY <1>2 DEF ListState, NoList
<1> HIDE DEF after
<1> QED BY <1>1, <1>3, ListOnly

\* The hash of a stream says "active" while the stream is served, and there is
\* none before.
LEMMA ListRowsInv ==
  ASSUME Inv, NEW l \in Lister, ListRows(l)
  PROVE  Inv'
<1> DEFINE ids == lister[l].ids
           after == [pc |-> "stop", ids |-> {}, dead |-> QuietAmong(ids), gone |-> EndedAmong(ids)]
<1>1. /\ lister' = [lister EXCEPT ![l] = after] /\ member' = member \ {}
      /\ UNCHANGED <<row, quiet, ttl>> /\ UNCHANGED memory /\ UNCHANGED <<stream, fd, reader, stop, crashes>>
  BY DEF ListRows, redis
<1>2. ids \subseteq Id
  BY Types DEF Inv, ListOK, ListState
<1>3. after \in ListState /\ after.dead = QuietAmong(ids) /\ after.gone = EndedAmong(ids)
  BY <1>2 DEF ListState, QuietAmong, EndedAmong
<1> HIDE DEF after, ids
<1>4. ASSUME NEW t \in Stream
      PROVE  /\ t \in after.dead => ~Early(t)
             /\ t \in after.gone \union {} => ~Early(t) /\ ~Live(t)
  <2>1. Data(t)
    BY DEF Inv, Id
  <2>2. t \in after.dead => row[t] = Fresh
    BY <1>3 DEF QuietAmong, Active
  <2>3. t \in after.gone => row[t].id /\ row[t] # Fresh
    BY <1>3 DEF EndedAmong, Active
  <2> QED BY <2>1, <2>2, <2>3, Values DEF Data
<1> QED BY <1>1, <1>3, <1>4, ListOnly

LEMMA ListDropsInv ==
  ASSUME Inv, NEW l \in Lister, ListDrops(l)
  PROVE  Inv'
<1> DEFINE gone == lister[l].gone
<1>1. /\ lister' = [lister EXCEPT ![l] = NoList] /\ member' = member \ gone
      /\ UNCHANGED <<row, quiet, ttl>> /\ UNCHANGED memory /\ UNCHANGED <<stream, fd, reader, stop, crashes>>
  BY DEF ListDrops
<1>2. gone \in SUBSET Id
  BY Types DEF Inv, ListOK, ListState
<1>3. NoList \in ListState /\ NoList.dead = {} /\ NoList.gone = {}
  BY Values DEF NoList
<1>4. ASSUME NEW t \in Stream, t \in gone PROVE ~Early(t) /\ ~Live(t)
  <2>1. Presence(t)
    BY DEF Inv, Id
  <2> QED BY <1>4, <2>1 DEF Presence, Unlisted
<1> HIDE DEF gone
<1> QED BY <1>1, <1>2, <1>3, <1>4, ListOnly

LEMMA ListStopsInv ==
  ASSUME Inv, NEW l \in Lister, NEW s \in Id, ListStops(l, s)
  PROVE  Inv'
<1> DEFINE after == [lister[l] EXCEPT !.dead = lister[l].dead \ {s}]
<1>1. /\ l \in Caller /\ StopBegins(l, s) /\ stream' = Aborting(s) /\ s \in lister[l].dead
      /\ lister' = [lister EXCEPT ![l] = after] /\ UNCHANGED <<fd, reader, crashes>>
  BY DEF ListStops, Caller
<1>2. StreamOK /\ FdOK /\ ListOK /\ Presence(s)
  BY Types DEF Inv
<1>3. after \in ListState /\ after.dead \subseteq lister[l].dead /\ after.gone = lister[l].gone
  BY <1>2 DEF ListOK, ListState
<1> HIDE DEF after
<1>4. StreamOK' /\ FdOK' /\ ListOK'
  BY <1>1, <1>2, <1>3, AbortingOK DEF StreamOK, FdOK, ListOK
<1>5. \A k \in Lister : lister'[k].dead \subseteq lister[k].dead /\ lister'[k].gone = lister[k].gone
  BY <1>1, <1>2, <1>3 DEF ListOK
<1>6. ~Early(s)
  BY <1>1, <1>2 DEF Presence
<1>7. ~Early(s)' /\ (s \in Stream => stream'[s].pc # "create")
  BY <1>1, <1>2, <1>6, AbortingOK DEF Early
<1>8. ~Live(s)'
  <2>1. Live(s) => s \in control
    BY <1>2 DEF Presence
  <2> QED BY <1>1, <1>2, <2>1, AbortingOK DEF Live, Served
<1>9. \A t \in Id \ {s} : SameOwn(t)
  BY <1>1, <1>2, AbortingOK DEF SameOwn
<1>10. \A t \in Id : NotListed(t)
  BY <1>5 DEF NotListed
<1>11. s \in Fd /\ fd'[s] = "released" => ~Reading(s)
  BY <1>1, <1>2 DEF Presence
<1> QED BY <1>1, <1>4, <1>7, <1>8, <1>9, <1>10, <1>11, StopBeginsInv

-----------------------------------------------------------------------------
\* Time, and the end of the process.

LEMMA TimerFlushInv ==
  ASSUME Inv, TimerFlush
  PROVE  Inv'
<1>1. Flush(pend) /\ UNCHANGED <<member, ttl, control, actor, stream, fd, reader, lister, stop, crashes>>
  BY DEF TimerFlush
<1>2. /\ RedisOK /\ MemoryOK /\ StreamOK /\ FdOK /\ ReadOK /\ ListOK /\ StopOK /\ crashes \in 0..MaxCrashes
      /\ \A t \in Id : snap[t].id => snap[t].status # "none"
  BY Types DEF Inv, Data
<1>3. pend \in [Id -> Update]
  BY <1>2 DEF MemoryOK
<1>4. /\ snap' \in [Id -> Entry] /\ row' \in [Id -> Entry] /\ quiet' \subseteq Id /\ pend' \in [Id -> Update]
      /\ \A t \in Id : row'[t].id => row'[t].status # "none"
  BY <1>1, <1>2, <1>3, FlushOK
<1>5. RedisOK' /\ MemoryOK' /\ StreamOK' /\ FdOK' /\ ReadOK' /\ ListOK' /\ StopOK' /\ crashes' \in 0..MaxCrashes
  BY <1>1, <1>2, <1>4 DEF RedisOK, MemoryOK, StreamOK, FdOK, ReadOK, ListOK, StopOK
<1>6. ASSUME NEW t \in Id PROVE Data(t)' /\ Presence(t)' /\ Clean(t)'
  <2>1. Flushed(t)
    BY <1>1, <1>3 DEF Flushed
  <2>2. SameOwn(t) /\ NotListed(t) /\ (Stopping(t) <=> Stopping(t)') /\ (Reading(t)' => Reading(t))
    BY <1>1 DEF SameOwn, NotListed, Stopping, Reading
  <2> QED BY <1>1, <2>1, <2>2, Others
<1> QED BY <1>5, <1>6, TypesNext DEF Inv

\* A step of time alone, which may take hashes away.
LEMMA ExpiryInv ==
  ASSUME Inv, UNCHANGED <<member, memory, stream, fd, reader, lister, stop, crashes>>, RedisOK',
         \A t \in Id : row'[t] \in {row[t], Empty}
  PROVE  Inv'
<1>1. RedisOK /\ MemoryOK /\ StreamOK /\ FdOK /\ ReadOK /\ ListOK /\ StopOK /\ crashes \in 0..MaxCrashes
  BY Types DEF Inv
<1>2. MemoryOK' /\ StreamOK' /\ FdOK' /\ ReadOK' /\ ListOK' /\ StopOK' /\ crashes' \in 0..MaxCrashes
  BY <1>1 DEF MemoryOK, memory, StreamOK, FdOK, ReadOK, ListOK, StopOK
<1>3. ASSUME NEW t \in Id PROVE Data(t)' /\ Presence(t)' /\ Clean(t)'
  <2>1. SameOwn(t) /\ SamePhase(t) /\ NotListed(t) /\ (Stopping(t) <=> Stopping(t)') /\ (Reading(t)' => Reading(t))
    BY OwnPhase DEF SameOwn, NotListed, Stopping, Reading
  <2>2. Presence(t)'
    BY <2>1, PresenceKept DEF memory
  <2>3. Data(t) /\ Clean(t) /\ snap'[t] = snap[t] /\ pend'[t] = pend[t] /\ actor'[t] = actor[t] /\ control' = control
    BY DEF Inv, memory
  <2>4. Data(t)'
    BY <2>1, <2>3, Values DEF Data, SamePhase
  <2>5. Clean(t)'
    BY <2>1, <2>3 DEF Clean, SamePhase
  <2> QED BY <2>2, <2>4, <2>5
<1> QED BY <1>2, <1>3, TypesNext DEF Inv

LEMMA SilenceInv ==
  ASSUME Inv, NEW s \in Id, Silence(s)
  PROVE  Inv'
<1>1. RedisOK
  BY Types DEF Inv
<1>2. RedisOK'
  BY <1>1 DEF RedisOK, Silence
<1> QED BY <1>2, ExpiryInv DEF Silence

LEMMA ExpireInv ==
  ASSUME Inv, NEW s \in Id, Expire(s)
  PROVE  Inv'
<1>1. RedisOK
  BY Types DEF Inv
<1>2. /\ row' \in [Id -> Entry]
      /\ \A t \in Id : row'[t] \in {row[t], Empty}
  BY <1>1, Values DEF RedisOK, Expire
<1>3. RedisOK'
  BY <1>1, <1>2, Values DEF RedisOK, Expire
<1> QED BY <1>2, <1>3, ExpiryInv DEF Expire

\* After a crash no stream of before is served, closed or stopped.
LEMMA CrashInv ==
  ASSUME Inv, Crash
  PROVE  Inv'
<1>1. RedisOK /\ StreamOK /\ crashes \in 0..MaxCrashes
  BY Types DEF Inv
<1>2. /\ StreamOK'
      /\ \A h \in Stream : /\ stream'[h].pc \in {"idle", "lost"} /\ ~stream'[h].aborted
                           /\ stream'[h].pc = "idle" => stream[h].pc = "idle"
  BY <1>1, Values DEF Crash, StreamAt, StreamOK, StreamState, StreamPc, Idle
<1>3. RedisOK' /\ MemoryOK' /\ FdOK' /\ ReadOK' /\ ListOK' /\ StopOK' /\ crashes' \in 0..MaxCrashes
  <2>1. RedisOK'
    BY <1>1 DEF RedisOK, Crash, redis
  <2>2. crashes' \in 0..MaxCrashes
    BY <1>1, Bounds DEF Crash
  <2> QED BY <2>1, <2>2, Values DEF Crash, MemoryOK, FdOK, ReadOK, ListOK, StopOK, Update
<1>4. ASSUME NEW t \in Id PROVE Data(t)' /\ Presence(t)' /\ Clean(t)'
  <2>1. ~Live(t)' /\ ~Done(t)' /\ ~Shut(t)' /\ (Early(t)' => Early(t))
    BY <1>2 DEF Crash, Live, Served, Done, Shut, Early
  <2>2. ~Stopping(t)' /\ Unlisted(t)' /\ (\A l \in Lister : t \notin lister'[l].dead) /\ (t \in Fd => fd'[t] = "open")
    BY Values DEF Crash, Stopping, Unlisted, NoList
  <2>3. snap'[t] = Empty /\ pend'[t] = "none" /\ row'[t] = row[t] /\ Data(t)
    BY DEF Crash, redis, Inv
  <2>4. Data(t)'
    BY <2>1, <2>3, Values DEF Data
  <2>5. Early(t)' => ~stream'[t].aborted
    BY <1>2 DEF Early
  <2>6. ~(t \in Stream /\ stream'[t].pc = "create")
    BY <1>2
  <2> QED BY <2>1, <2>2, <2>4, <2>5, <2>6 DEF Presence, Clean
<1> QED BY <1>2, <1>3, <1>4, TypesNext DEF Inv

-----------------------------------------------------------------------------
\* The invariant, and what follows from it.

LEMMA NextInv == Inv /\ [Next]_vars => Inv'
<1> SUFFICES ASSUME Inv, [Next]_vars PROVE Inv'
  OBVIOUS
<1>1. ASSUME NEW h \in Stream,
             (\E api \in BOOLEAN : Create(h, api)) \/ Abandon(h) \/ Progress(h) \/ ApiServed(h) \/ StreamStep(h)
      PROVE  Inv'
  BY <1>1, CreateInv, ServeInv, ProgressInv, ApiServedInv, CreatedInv, PrepareInv, CloseInv, ClosingInv, ApiEndsInv
     DEF StreamStep
<1>2. ASSUME NEW r \in Reader, (\E f \in Fd, hit \in BOOLEAN : Read(r, f, hit)) \/ ReadStep(r)
      PROVE  Inv'
  BY <1>2, ReadInv, ReadCreatesInv, ReadCreatedInv, ReadFetchesInv DEF ReadStep
<1>3. ASSUME NEW l \in Lister, ListStep(l)
      PROVE  Inv'
  BY <1>3, ListIdsInv, ListRowsInv, ListStopsInv, ListDropsInv DEF ListStep
<1>4. ASSUME NEW c \in Caller, StopStep(c)
      PROVE  Inv'
  BY <1>4, StopStepInv
<1>5. ASSUME NEW c \in Stopper, (\E h \in Stream : UserStop(c, h)) \/ (\E f \in Fd : Release(c, f))
      PROVE  Inv'
  BY <1>5, UserStopInv, ReleaseInv
<1>6. ASSUME NEW s \in Id, Silence(s) \/ Expire(s)
      PROVE  Inv'
  BY <1>6, SilenceInv, ExpireInv
<1>7. CASE TimerFlush \/ Crash
  BY <1>7, TimerFlushInv, CrashInv
<1>8. CASE UNCHANGED vars
  <2>1. RedisOK
    BY Types DEF Inv
  <2>2. RedisOK' /\ (\A t \in Id : row'[t] \in {row[t], Empty}) /\ UNCHANGED <<member, memory, stream, fd, reader, lister, stop, crashes>>
    BY <1>8, <2>1 DEF vars, redis, RedisOK
  <2> QED BY <2>2, ExpiryInv
<1> QED BY <1>1, <1>2, <1>3, <1>4, <1>5, <1>6, <1>7, <1>8 DEF Next

LEMMA Safety == Spec => []Inv
<1> QED BY InitInv, NextInv, PTL DEF Spec

\* Every variable keeps its type: whatever clients, users, listings and time do
\* to the hashes of mountedStream.service.ts, a hash with an id has a status.
THEOREM TypeCorrect == Spec => []TypeOK
<1>1. Inv => TypeOK
  BY DEF Inv
<1> QED BY <1>1, Safety, PTL

\* A stream that streamMountedFile serves, and that nobody stopped, stays in
\* vfs:stream:sessions and its hash is active or has expired: no listing, flush
\* or stop of another session, of any number of them, uncounts it.
THEOREM LiveCountedHolds == Spec => []LiveCounted
<1>1. Inv => LiveCounted
  <2> SUFFICES ASSUME Inv, NEW h \in Stream, Served(h) PROVE h \in member /\ row[h] \in {Empty, Fresh}
    BY DEF LiveCounted
  <2>1. Live(h) /\ Data(h) /\ Presence(h)
    BY DEF Live, Inv, Id
  <2> QED BY <2>1 DEF Data, Presence
<1> QED BY <1>1, Safety, PTL

\* A stream that is over and a descriptor that was released, once every
\* stopStreamSession of theirs has returned, have no controller, snapshot,
\* pending update or actor left, and no late flush makes them count again.
THEOREM LeavesNothingHolds == Spec => []LeavesNothing
<1>1. Inv => LeavesNothing
  <2> SUFFICES ASSUME Inv, NEW s \in Id, Ended(s), ~Stopping(s)
               PROVE  s \notin control /\ snap[s] = Empty /\ pend[s] = "none" /\ actor[s] = "none" /\ ~Counted(s)
    BY DEF LeavesNothing
  <2>1. Shut(s)
    BY DEF Ended, Shut, StreamAt, Id
  <2>2. Done(s) /\ Data(s) /\ Clean(s)
    BY <2>1, Phases DEF Inv
  <2>3. ~Active(s)
    BY <2>2, Values DEF Data, Active
  <2> QED BY <2>1, <2>2, <2>3 DEF Data, Clean, Counted
<1> QED BY <1>1, Safety, PTL
=============================================================================
