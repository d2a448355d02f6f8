--------------------------- MODULE StreamSessions ---------------------------
(***************************************************************************)
(* The sessions of the streams being served (mountedStream.service.ts,     *)
(* streamSessionMachine.ts).  Redis has a set of session ids and a hash    *)
(* per session; the process has, per id, an abort controller, a snapshot   *)
(* of the hash, updates not yet written and an actor.  Whoever asks how    *)
(* many streams are active lists the set, and ends what has gone quiet.    *)
(*                                                                         *)
(* A Redis command takes effect where it is sent: one connection keeps the *)
(* order.  Its sender goes on in a later step.                             *)
(***************************************************************************)
EXTENDS Integers, FiniteSets

CONSTANTS
  Stream,     \* streams with an id of their own: over HTTP, or one read for an import or a repair
  Fd,         \* descriptors of the mount, whose numbers are session ids
  Reader,     \* file reads in progress at a time
  Lister,     \* calls of listActiveStreamSessions in progress at a time
  Stopper,    \* calls of stopStreamSession in progress, besides those somebody awaits
  MaxCrashes,
  Allow       \* what clients, users and time do: a subset of Moves

Moves == {"api", "stop", "abandon", "pause", "expire", "crash"}

ASSUME Bounds ==
  /\ Stream \intersect Fd = {} /\ MaxCrashes \in Nat /\ Allow \subseteq Moves
  /\ "nobody" \notin Stream \union Fd
  /\ Stream \intersect (Lister \union Stopper) = {} /\ Lister \intersect Stopper = {}

VARIABLES
  member,     \* vfs:stream:sessions
  row,        \* per id: the hash vfs:stream:session:<id>
  quiet,      \* the ids whose updatedAt is more than STALE_ACTIVE_SESSION_MS ago
  ttl,        \* the ids whose hash has an expiry
  control,    \* sessionControllers: the ids it has
  snap, pend, \* per id: sessionSnapshots, pendingSessionUpdates
  actor,      \* per id: the actor of streamSessionMachine
  stream, fd, reader, lister,
  stop,       \* per caller: where its stopStreamSession is
  crashes

redis == <<member, row, quiet, ttl>>
memory == <<control, snap, pend, actor>>
vars == <<redis, memory, stream, fd, reader, lister, stop, crashes>>

Id == Stream \union Fd
Nobody == "nobody"
Caller == Stream \union Lister \union Stopper

\* A hash or a snapshot: has it the field id, and which status.
Empty == [id |-> FALSE, status |-> "none"]
Fresh == [id |-> TRUE, status |-> "active"]
Active(s) == row[s] = Fresh

\* What a listing counts, and bandwidth is kept back for.
Counted(s) == s \in member /\ Active(s)

Idle == [pc |-> "idle", aborted |-> FALSE, api |-> FALSE]
NoRead == [pc |-> "idle", id |-> Nobody]
NoList == [pc |-> "idle", ids |-> {}, dead |-> {}, gone |-> {}]
NoStop == [pc |-> "idle", id |-> Nobody]

Init ==
  /\ member = {} /\ row = [s \in Id |-> Empty] /\ quiet = {} /\ ttl = {}
  /\ control = {} /\ snap = [s \in Id |-> Empty] /\ pend = [s \in Id |-> "none"] /\ actor = [s \in Id |-> "none"]
  /\ stream = [h \in Stream |-> Idle] /\ fd = [f \in Fd |-> "open"]
  /\ reader = [r \in Reader |-> NoRead] /\ lister = [l \in Lister |-> NoList]
  /\ stop = [c \in Caller |-> NoStop] /\ crashes = 0

StreamAt(h, pc) == stream[h].pc = pc
Goto(h, pc) == stream' = [stream EXCEPT ![h].pc = pc]
Reading(f) == \E r \in Reader : reader[r].id = f
Stopping(s) == \E c \in Caller : stop[c].id = s

-----------------------------------------------------------------------------
\* Updates and their flush.

\* updateSession's merge into the pending updates; "plain" has no status.
Noted(s, update) ==
  [pend EXCEPT ![s] = IF update = "plain" /\ @ # "none" THEN @ ELSE update]

Overlay(entry, update) == IF update = "plain" THEN entry ELSE [entry EXCEPT !.status = update]

\* Mutant: a snapshot without a status clears the status.
Written_Clears(entry, shot) == [id |-> entry.id \/ shot.id, status |-> shot.status]

\* hset leaves the fields alone that the snapshot does not have.
Written(entry, shot) ==
  [id |-> entry.id \/ shot.id, status |-> IF shot.status = "none" THEN entry.status ELSE shot.status]

\* flushSessionUpdates: all that is pending, of every session, is laid over
\* the snapshots and written.
Flush(pending) ==
  LET due == {s \in Id : pending[s] # "none"}
      shot == [s \in Id |-> IF s \in due THEN Overlay(snap[s], pending[s]) ELSE snap[s]]
  IN /\ snap' = shot
     /\ row' = [s \in Id |-> IF s \in due THEN Written(row[s], shot[s]) ELSE row[s]]
     /\ quiet' = quiet \ due
     /\ pend' = [s \in Id |-> "none"]

\* The timer of scheduleSessionFlush.
TimerFlush ==
  /\ \E s \in Id : pend[s] # "none"
  /\ Flush(pend)
  /\ UNCHANGED <<member, ttl, control, actor, stream, fd, reader, lister, stop, crashes>>

\* expire, which follows a write as a call of its own, is taken together with
\* it: nothing but the expiry itself, minutes later, depends on it.
Expiring(s) == ttl' = ttl \union {s}

-----------------------------------------------------------------------------
\* getOrCreateStreamSession, for an id that has no controller.

Register(s) ==
  /\ control' = control \union {s}
  /\ member' = member \union {s}
  /\ UNCHANGED <<row, quiet, ttl, snap, pend, actor>>

\* startStreamSessionActor returns the actor it finds.
WriteFirst(s) ==
  /\ snap' = [snap EXCEPT ![s] = Fresh]
  /\ actor' = [actor EXCEPT ![s] = IF @ = "none" THEN "active" ELSE @]
  /\ row' = [row EXCEPT ![s] = Fresh]
  /\ quiet' = quiet \ {s} /\ Expiring(s)
  /\ UNCHANGED <<member, control, pend>>

-----------------------------------------------------------------------------
\* stopStreamSession, called by c.

\* Its end: everything the process knows of the session goes.
\* Mutant: the controller stays.
Forget_KeepsControl(s) ==
  /\ snap' = [snap EXCEPT ![s] = Empty] /\ pend' = [pend EXCEPT ![s] = "none"]
  /\ actor' = [actor EXCEPT ![s] = "none"]
  /\ UNCHANGED control

Forget(s) ==
  /\ snap' = [snap EXCEPT ![s] = Empty] /\ pend' = [pend EXCEPT ![s] = "none"]
  /\ control' = control \ {s}
  /\ actor' = [actor EXCEPT ![s] = "none"]

Final(s) == [actor EXCEPT ![s] = IF @ = "active" THEN "final" ELSE @]

\* The controller aborts, the actor is cancelled, the status is written.
StopBegins(c, s) ==
  /\ stop[c] = NoStop
  /\ stop' = [stop EXCEPT ![c] = [pc |-> "remove", id |-> s]]
  /\ actor' = Final(s)
  /\ Flush(Noted(s, "ended")) /\ Expiring(s)
  /\ UNCHANGED <<member, control>>

Aborting(s) == [h \in Stream |-> IF h = s /\ s \in control THEN [stream[h] EXCEPT !.aborted = TRUE] ELSE stream[h]]

StopStep(c) ==
  LET s == stop[c].id IN
  /\ \/ /\ stop[c].pc = "remove" /\ member' = member \ {s}
        /\ stop' = [stop EXCEPT ![c].pc = "forget"]
        /\ UNCHANGED <<row, quiet, ttl>> /\ UNCHANGED memory
     \/ /\ stop[c].pc = "forget" /\ Forget(s)
        /\ stop' = [stop EXCEPT ![c] = NoStop]
        /\ UNCHANGED redis
  /\ UNCHANGED <<stream, fd, reader, lister, crashes>>

\* A user stops a stream the list has shown, or its WebDAV client is gone, at
\* any time and also twice.  (The session of a descriptor is stopped in the
\* same way by a listing.)
UserStop(c, h) ==
  /\ "stop" \in Allow /\ c \in Stopper
  /\ row[h].id /\ stream[h].pc \notin {"idle", "lost"}
  /\ StopBegins(c, h)
  /\ stream' = Aborting(h)
  /\ UNCHANGED <<fd, reader, lister, crashes>>

-----------------------------------------------------------------------------
\* A stream: streamMountedFile and the generator it returns, or a read by
\* readMountedFileRangeRaw, which ends its session itself ("api").

Create(h, api) ==
  /\ StreamAt(h, "idle") /\ (api => "api" \in Allow)
  /\ Register(h)
  /\ stream' = [stream EXCEPT ![h] = [Idle EXCEPT !.pc = "create", !.api = api]]
  /\ UNCHANGED <<fd, reader, lister, stop, crashes>>

Created(h) ==
  /\ StreamAt(h, "create") /\ WriteFirst(h) /\ Goto(h, "ready")
  /\ UNCHANGED <<fd, reader, lister, stop, crashes>>

\* The size is written.  A raw read puts its controller back if a stop took
\* it out of the map meanwhile.
Prepare(h) ==
  /\ StreamAt(h, "ready") /\ Goto(h, "opened")
  /\ control' = IF stream[h].api THEN control \union {h} ELSE control
  /\ Flush(Noted(h, "plain"))
  /\ UNCHANGED <<member, ttl, actor, fd, reader, lister, stop, crashes>>

\* The response begins to read the generator.
Serve(h) ==
  /\ StreamAt(h, "opened") /\ ~stream[h].api /\ Goto(h, "serving")
  /\ UNCHANGED <<redis, memory, fd, reader, lister, stop, crashes>>

\* The client is gone before that: a generator that never began has no finally.
Abandon(h) ==
  /\ "abandon" \in Allow
  /\ StreamAt(h, "opened") /\ ~stream[h].api /\ Goto(h, "abandoned")
  /\ UNCHANGED <<redis, memory, fd, reader, lister, stop, crashes>>

\* A range was sent.
Progress(h) ==
  /\ StreamAt(h, "serving") /\ ~stream[h].aborted /\ pend[h] = "none"
  /\ pend' = Noted(h, "plain")
  /\ UNCHANGED <<redis, control, snap, actor, stream, fd, reader, lister, stop, crashes>>

\* The generator completes, fails, is aborted or left: its finally.
Close(h) ==
  /\ StreamAt(h, "serving") /\ Goto(h, "removing")
  /\ actor' = Final(h)
  /\ Flush(Noted(h, "ended")) /\ Expiring(h)
  /\ UNCHANGED <<member, control, fd, reader, lister, stop, crashes>>

Closing(h) ==
  /\ \/ /\ StreamAt(h, "removing") /\ Goto(h, "forgetting")
        /\ member' = member \ {h}
        /\ UNCHANGED <<row, quiet, ttl>> /\ UNCHANGED memory
     \/ StreamAt(h, "forgetting") /\ Forget(h) /\ Goto(h, "over") /\ UNCHANGED redis
  /\ UNCHANGED <<fd, reader, lister, stop, crashes>>

\* A raw read has its bytes, and writes how many.
ApiServed(h) ==
  /\ StreamAt(h, "opened") /\ stream[h].api
  /\ Flush(Noted(h, "plain"))
  /\ UNCHANGED <<member, ttl, control, actor, stream, fd, reader, lister, stop, crashes>>

\* Its finally, after the bytes or an error.
ApiEnds(h) ==
  /\ StreamAt(h, "opened") /\ stream[h].api
  /\ StopBegins(h, h)
  /\ stream' = [Aborting(h) EXCEPT ![h].pc = "stopping"]
  /\ UNCHANGED <<fd, reader, lister, crashes>>

ApiOver(h) ==
  /\ StreamAt(h, "stopping") /\ stop[h] = NoStop /\ Goto(h, "over")
  /\ UNCHANGED <<redis, memory, fd, reader, lister, stop, crashes>>

-----------------------------------------------------------------------------
\* A read of an open descriptor: readMountedFileRange with source fuse.

\* With a controller the read goes on at once.  The window has its bytes, or it
\* continues to the caches and providers.
GoOn(r, f, hit) ==
  /\ control' = control \union {f}
  /\ pend' = IF hit THEN Noted(f, "plain") ELSE pend
  /\ reader' = [reader EXCEPT ![r] = IF hit THEN NoRead ELSE [pc |-> "miss", id |-> f]]
  /\ UNCHANGED <<redis, snap, actor>>

Read(r, f, hit) ==
  /\ reader[r] = NoRead /\ fd[f] = "open"
  /\ IF f \in control THEN GoOn(r, f, hit)
     ELSE Register(f) /\ reader' = [reader EXCEPT ![r] = [pc |-> "create", id |-> f]]
  /\ UNCHANGED <<stream, fd, lister, stop, crashes>>

ReadCreates(r) ==
  /\ reader[r].pc = "create" /\ WriteFirst(reader[r].id)
  /\ reader' = [reader EXCEPT ![r].pc = "has"]
  /\ UNCHANGED <<stream, fd, lister, stop, crashes>>

\* The controller is put back if a stop took it out of the map meanwhile.
ReadCreated(r, hit) ==
  /\ reader[r].pc = "has" /\ GoOn(r, reader[r].id, hit)
  /\ UNCHANGED <<stream, fd, lister, stop, crashes>>

\* The session is declared active again, then the bytes are fetched.
ReadFetches(r) ==
  LET f == reader[r].id IN
  /\ reader[r].pc = "miss"
  /\ pend' = Noted(f, "active")
  /\ reader' = [reader EXCEPT ![r].pc = "fetch"]
  /\ UNCHANGED <<redis, control, snap, actor, stream, fd, lister, stop, crashes>>

\* The bytes are there, or an error is thrown.
ReadEnds(r, ok) ==
  LET f == reader[r].id IN
  /\ reader[r].pc = "fetch"
  /\ pend' = IF ok THEN Noted(f, "plain") ELSE pend
  /\ reader' = [reader EXCEPT ![r] = NoRead]
  /\ UNCHANGED <<redis, control, snap, actor, stream, fd, lister, stop, crashes>>

\* The kernel releases a descriptor after its last read: closeMountedReadSession.
Release(c, f) ==
  /\ fd[f] = "open" /\ ~Reading(f) /\ c \in Stopper
  /\ fd' = [fd EXCEPT ![f] = "released"]
  /\ StopBegins(c, f)
  /\ UNCHANGED <<stream, reader, lister, crashes>>

-----------------------------------------------------------------------------
\* listActiveStreamSessions.

ListIds(l) ==
  /\ lister[l].pc = "idle"
  /\ lister' = [lister EXCEPT ![l] = [NoList EXCEPT !.pc = "rows", !.ids = member]]
  /\ UNCHANGED <<redis, memory, stream, fd, reader, stop, crashes>>

\* Mutant: ids without a hash are taken for ended.
EndedAmong_NoHash(ids) == {s \in ids : ~Active(s)}
EndedAmong(ids) == {s \in ids : row[s].id /\ ~Active(s)}

\* Mutant: nobody looks at the time of the last update.
QuietAmong_None(ids) == {}
QuietAmong(ids) == {s \in ids : Active(s) /\ s \in quiet}

ListRows(l) ==
  /\ lister[l].pc = "rows"
  /\ lister' = [lister EXCEPT ![l] = [pc |-> "stop", ids |-> {}, dead |-> QuietAmong(lister[l].ids),
                                      gone |-> EndedAmong(lister[l].ids)]]
  /\ UNCHANGED <<redis, memory, stream, fd, reader, stop, crashes>>

\* The quiet ones are stopped one after the other, whatever they do by now.
ListStops(l, s) ==
  /\ lister[l].pc = "stop" /\ s \in lister[l].dead
  /\ lister' = [lister EXCEPT ![l].dead = @ \ {s}]
  /\ StopBegins(l, s)
  /\ stream' = Aborting(s)
  /\ UNCHANGED <<fd, reader, crashes>>

\* The ended ones leave the set.
ListDrops(l) ==
  /\ lister[l].pc = "stop" /\ lister[l].dead = {} /\ stop[l] = NoStop
  /\ member' = member \ lister[l].gone
  /\ lister' = [lister EXCEPT ![l] = NoList]
  /\ UNCHANGED <<row, quiet, ttl>> /\ UNCHANGED memory /\ UNCHANGED <<stream, fd, reader, stop, crashes>>

-----------------------------------------------------------------------------
\* Time, and the end of the process.

\* No stream of this process uses it, and none will.
Over(s) == IF s \in Stream THEN stream[s].pc \in {"over", "abandoned", "lost"} ELSE fd[s] = "released"

\* No update for fifteen seconds: the client of a stream is paused, a fetch is
\* slow, or a descriptor is not read.
Young(s) ==
  \/ s \in Stream /\ stream[s].pc \in {"create", "ready"}
  \/ \E r \in Reader : reader[r].id = s /\ reader[r].pc \in {"create", "has"}
Silence(s) ==
  /\ Active(s) /\ ~Young(s) /\ s \notin quiet /\ pend[s] = "none" /\ (Over(s) \/ "pause" \in Allow)
  /\ quiet' = quiet \union {s}
  /\ UNCHANGED <<member, row, ttl, memory, stream, fd, reader, lister, stop, crashes>>

\* An hour after the creation, or five minutes after the end: long after what
\* was sent to Redis then.
Calm ==
  /\ \A s \in Id : pend[s] = "none"
  /\ \A c \in Caller : stop[c] = NoStop
  /\ \A l \in Lister : lister[l] = NoList
Expire(s) ==
  /\ "expire" \in Allow /\ s \in ttl /\ Calm
  /\ row' = [row EXCEPT ![s] = Empty] /\ ttl' = ttl \ {s} /\ quiet' = quiet \ {s}
  /\ UNCHANGED <<member, memory, stream, fd, reader, lister, stop, crashes>>

\* Memory goes, Redis stays, and descriptor numbers start again.
Crash ==
  /\ "crash" \in Allow /\ crashes < MaxCrashes /\ crashes' = crashes + 1
  /\ control' = {} /\ snap' = [s \in Id |-> Empty] /\ pend' = [s \in Id |-> "none"] /\ actor' = [s \in Id |-> "none"]
  /\ stream' = [h \in Stream |-> IF StreamAt(h, "idle") THEN Idle ELSE [Idle EXCEPT !.pc = "lost"]]
  /\ fd' = [f \in Fd |-> "open"] /\ reader' = [r \in Reader |-> NoRead]
  /\ lister' = [l \in Lister |-> NoList] /\ stop' = [c \in Caller |-> NoStop]
  /\ UNCHANGED redis

-----------------------------------------------------------------------------
\* What goes on by itself.
StreamStep(h) ==
  \/ Created(h) \/ Prepare(h) \/ Serve(h) \/ Close(h) \/ Closing(h)
  \/ ApiEnds(h) \/ ApiOver(h)
ReadStep(r) ==
  \/ ReadCreates(r) \/ ReadFetches(r)
  \/ \E yes \in BOOLEAN : ReadCreated(r, yes) \/ ReadEnds(r, yes)
ListStep(l) == ListIds(l) \/ ListRows(l) \/ (\E s \in Id : ListStops(l, s)) \/ ListDrops(l)

Next ==
  \/ \E h \in Stream : (\E api \in BOOLEAN : Create(h, api)) \/ Abandon(h) \/ Progress(h) \/ ApiServed(h) \/ StreamStep(h)
  \/ \E r \in Reader : (\E f \in Fd, hit \in BOOLEAN : Read(r, f, hit)) \/ ReadStep(r)
  \/ \E l \in Lister : ListStep(l)
  \/ \E c \in Caller : StopStep(c)
  \/ \E c \in Stopper : (\E h \in Stream : UserStop(c, h)) \/ (\E f \in Fd : Release(c, f))
  \/ \E s \in Id : Silence(s) \/ Expire(s)
  \/ TimerFlush \/ Crash

Spec == Init /\ [][Next]_vars

\* Promises settle, timers fire, time passes, and sessions are listed again
\* and again: whoever acquires a connection asks for the allowance.
FairSpec ==
  /\ Spec /\ WF_vars(TimerFlush)
  /\ \A h \in Stream : WF_vars(StreamStep(h))
  /\ \A r \in Reader : WF_vars(ReadStep(r))
  /\ \A l \in Lister : WF_vars(ListStep(l))
  /\ \A c \in Caller : WF_vars(StopStep(c))
  /\ \A s \in Id : WF_vars(Over(s) /\ Silence(s))

-----------------------------------------------------------------------------
Entry == [id : BOOLEAN, status : {"none", "active", "ended"}]
StreamPc == {"idle", "create", "ready", "opened", "serving", "removing", "forgetting",
             "stopping", "over", "abandoned", "lost"}

TypeOK ==
  /\ member \subseteq Id /\ row \in [Id -> Entry] /\ (\A s \in Id : row[s].id => row[s].status # "none")
  /\ quiet \subseteq Id /\ ttl \subseteq Id
  /\ control \subseteq Id /\ snap \in [Id -> Entry]
  /\ pend \in [Id -> {"none", "plain", "active", "ended"}] /\ actor \in [Id -> {"none", "active", "final"}]
  /\ stream \in [Stream -> [pc : StreamPc, aborted : BOOLEAN, api : BOOLEAN]]
  /\ fd \in [Fd -> {"open", "released"}]
  /\ reader \in [Reader -> {NoRead} \union [pc : {"create", "has", "miss", "fetch"}, id : Fd]]
  /\ lister \in [Lister -> [pc : {"idle", "rows", "stop"}, ids : SUBSET Id, dead : SUBSET Id, gone : SUBSET Id]]
  /\ stop \in [Caller -> {NoStop} \union [pc : {"remove", "forget"}, id : Id]]
  /\ crashes \in 0..MaxCrashes

\* A stream that is being served and that nobody stopped is listed as active,
\* whatever listings, flushes and stops of other sessions do meanwhile: the
\* connections kept back for it stay so.  Its hash may have expired; then the
\* next update writes it again.
Served(h) == stream[h].pc \in {"ready", "opened", "serving"} /\ ~stream[h].aborted
LiveCounted == \A h \in Stream : Served(h) => h \in member /\ row[h] \in {Empty, Fresh}

\* What ended leaves nothing behind, also when it was created, flushed,
\* closed and stopped by several at a time: no controller, snapshot, pending
\* update or actor stays in memory, and no late write makes it active again.
Ended(s) == IF s \in Stream THEN StreamAt(s, "over") ELSE fd[s] = "released"
LeavesNothing ==
  \A s \in Id : Ended(s) /\ ~Stopping(s) =>
    s \notin control /\ snap[s] = Empty /\ pend[s] = "none" /\ actor[s] = "none" /\ ~Counted(s)

\* A stream that is over stops being counted for good, also when its end was
\* never noticed: the client left before the first byte, or the process died.
OverUncounted == \A s \in Id : <>[](Over(s) => ~Counted(s))
=============================================================================
