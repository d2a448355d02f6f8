--------------------------- MODULE SegmentStream ---------------------------
(***************************************************************************)
(* Reads of mounted files, segment by segment                              *)
(* (services/mountedStream.service.ts): the segment cache, the map of the  *)
(* fetches in progress that lets readers of one segment share one fetch    *)
(* (streamSegmentProgressively, getOrFetchSegmentBuffer), and the pool of  *)
(* connections the fetches go through (class MountedNntpPool).             *)
(*                                                                         *)
(* A fetch is an async generator: between two chunks it is suspended, with *)
(* its slot, until its consumer asks for the next chunk, returns, or is    *)
(* forgotten.  A reader is one read of one segment.                        *)
(***************************************************************************)
EXTENDS Integers, FiniteSets

CONSTANTS
  Provider, Backup,
  N, Owner,    \* the slots 1..N and the provider of each
  Segment,
  Chunks,      \* how many chunks the body of a segment has
  Tries,       \* attempts per slot and per provider: 4 in the code
  Reader,
  Allow        \* what consumers, sessions and providers do: a subset of Moves

Moves == {"stop", "kept", "whole", "abort", "fail", "stall", "shrink", "evict"}
Slot == 1..N

\* The slots are given out provider by provider, backups last.
ASSUME PoolShape ==
  /\ N \in Nat \ {0} /\ Owner \in [Slot -> Provider] /\ IsFiniteSet(Provider) /\ Backup \subseteq Provider
  /\ \A s, t \in Slot : s < t /\ Owner[s] \in Backup => Owner[t] \in Backup
ASSUME Bounds ==
  /\ Chunks \in Nat \ {0} /\ Tries \in Nat \ {0} /\ IsFiniteSet(Reader) /\ Allow \subseteq Moves
  /\ "nobody" \notin Reader /\ "none" \notin Segment

VARIABLES
  cache,         \* per segment: what hotSegmentCache and the disk hold
  inflight,      \* inFlightSegmentFetches: the reader whose fetch the map names
  busy, client,  \* per slot: is it given out; its connection
  reader,        \* per reader: where its read is
  place,         \* per reader: its place in the array of waiters, 0 if it is not there
  allowed        \* getAllowedStreamingConnections

vars == <<cache, inflight, busy, client, reader, place, allowed>>

Nobody == "nobody"
NoSegment == "none"
Owners == {Owner[s] : s \in Slot}
Primary == Provider \ Backup
MaxAttempts == Tries * N   \* a provider has at least one slot

NoReader == [pc |-> "over", kind |-> "range", seg |-> NoSegment, from |-> Nobody, slot |-> 0, lim |-> 0,
             failed |-> {}, backups |-> FALSE, attempt |-> 0, at |-> 0, torn |-> FALSE, aborted |-> FALSE]

Init ==
  /\ cache = [g \in Segment |-> "none"] /\ inflight = [g \in Segment |-> Nobody]
  /\ busy = [s \in Slot |-> FALSE] /\ client = [s \in Slot |-> "none"]
  /\ reader = [r \in Reader |-> NoReader] /\ place = [r \in Reader |-> 0]
  /\ allowed = N

At(r, pc) == reader[r].pc = pc
\* All that is left of a read whose fetch is over, or that shares another's.
Rest(r, pc) == [NoReader EXCEPT !.pc = pc, !.seg = reader[r].seg]
\* It still has its slot.
Left(r, pc) == [Rest(r, pc) EXCEPT !.slot = reader[r].slot]
Waiting(r) == At(r, "wait")
InLine(r) == place[r] # 0
Pool == <<busy, client, place, allowed>>

-----------------------------------------------------------------------------
\* Sharing a fetch.

\* A reader that misses the cache.  The consumer of "range" takes what it
\* needs and returns; that of "kept" holds the generator from one file read
\* to the next (MountedSequentialReader); "whole" is getOrFetchSegmentBuffer.
Begin(r, g, kind) ==
  /\ At(r, "over") /\ cache[g] = "none"
  /\ kind = "range" \/ kind \in Allow
  /\ reader' = [reader EXCEPT ![r] = [NoReader EXCEPT !.pc = "look", !.kind = kind, !.seg = g]]
  /\ UNCHANGED <<cache, inflight>> /\ UNCHANGED Pool

\* The map is looked at; a reader that finds nothing awaits its metric before
\* it writes the map.
Look(r) ==
  LET f == inflight[reader[r].seg] IN
  /\ At(r, "look")
  /\ reader' = [reader EXCEPT ![r] = IF f = Nobody THEN [@ EXCEPT !.pc = "claim"]
                                     ELSE [Rest(r, "join") EXCEPT !.from = f]]
  /\ UNCHANGED <<cache, inflight>> /\ UNCHANGED Pool

Claim(r) ==
  /\ At(r, "claim")
  /\ inflight' = [inflight EXCEPT ![reader[r].seg] = r]
  /\ reader' = [reader EXCEPT ![r] = [@ EXCEPT !.pc = "ask", !.attempt = 1, !.backups = (Primary = {})]]
  /\ UNCHANGED cache /\ UNCHANGED Pool

\* Mutant: the entry is not deleted in a finally.
End_KeepsLeft(r) ==
  /\ reader[r].pc \in {"settle", "leave"}
  /\ inflight' = IF At(r, "settle") THEN [inflight EXCEPT ![reader[r].seg] = Nobody] ELSE inflight
  /\ reader' = [q \in Reader |->
       IF q = r \/ (At(q, "join") /\ reader[q].from = r /\ At(r, "settle")) THEN NoReader
       ELSE IF At(q, "join") /\ reader[q].from = r THEN [reader[q] EXCEPT !.from = Nobody]
       ELSE reader[q]]
  /\ UNCHANGED cache /\ UNCHANGED Pool

\* The fetch leaves the map, whoever is named there.  Its end resolves or
\* rejects the promise of those who share it; a fetch that its consumer left
\* never settles the promise, and they go on waiting for nobody.
End(r) ==
  /\ reader[r].pc \in {"settle", "leave"}
  /\ inflight' = [inflight EXCEPT ![reader[r].seg] = Nobody]
  /\ reader' = [q \in Reader |->
       IF q = r \/ (At(q, "join") /\ reader[q].from = r /\ At(r, "settle")) THEN NoReader
       ELSE IF At(q, "join") /\ reader[q].from = r THEN [reader[q] EXCEPT !.from = Nobody]
       ELSE reader[q]]
  /\ UNCHANGED cache /\ UNCHANGED Pool

-----------------------------------------------------------------------------
\* Slots.

Usable(r, s) == Owner[s] \notin reader[r].failed /\ (reader[r].backups \/ Owner[s] \notin Backup)

\* acquire: an aborted session throws; else the allowance is read.
Ask(r) ==
  /\ At(r, "ask")
  /\ reader' = [reader EXCEPT ![r] = IF reader[r].aborted THEN Rest(r, "settle")
                                     ELSE [@ EXCEPT !.pc = "pick", !.lim = allowed]]
  /\ UNCHANGED <<cache, inflight>> /\ UNCHANGED Pool

Free(r, s) == s <= reader[r].lim /\ ~busy[s] /\ Usable(r, s)

\* The first free slot among the active ones, or a place in the queue, unless
\* the session was aborted meanwhile.
Pick(r) ==
  /\ At(r, "pick")
  /\ \/ \E s \in Slot : /\ Free(r, s) /\ \A t \in 1..(s - 1) : ~Free(r, t)
                        /\ busy' = [busy EXCEPT ![s] = TRUE]
                        /\ reader' = [reader EXCEPT ![r].pc = "connect", ![r].slot = s, ![r].lim = 0]
                        /\ UNCHANGED place
     \/ /\ \A s \in Slot : ~Free(r, s)
        /\ reader' = [reader EXCEPT ![r] = IF @.aborted THEN Rest(r, "settle") ELSE [@ EXCEPT !.pc = "wait"]]
        /\ place' = IF reader[r].aborted THEN place
                    ELSE [place EXCEPT ![r] = Cardinality({q \in Reader : InLine(q)}) + 1]
        /\ UNCHANGED busy
  /\ UNCHANGED <<cache, inflight, client, allowed>>

\* The waiter a slot is handed to: the first that may use it.
Chosen(r, s) ==
  /\ InLine(r) /\ Usable(r, s)
  /\ \A q \in Reader : InLine(q) /\ Usable(q, s) => place[r] <= place[q]

\* Mutant: the place of the waiter that left stays empty.
MoveUp_LeavesGap(q) == place' = [place EXCEPT ![q] = 0]

\* splice: the waiters behind q move up.
MoveUp(q) ==
  place' = [p \in Reader |-> IF p = q THEN 0
                            ELSE IF place[p] > place[q] THEN place[p] - 1 ELSE place[p]]

\* The promise of a waiter is resolved; this has no effect if it was rejected before.
HandOver(r, after, q, s) ==
  reader' = [reader EXCEPT ![r] = after, ![q] = IF Waiting(q) THEN [@ EXCEPT !.pc = "connect", !.slot = s, !.lim = 0] ELSE @]

\* Mutant: the slot is only given to the first in line.
Release_FirstOnly(r, after, conn) ==
  LET s == reader[r].slot
      keep == conn # "none" /\ \A t \in Slot \ {s} : busy[t] \/ client[t] = "none"
  IN
  \/ \E q \in Reader :
       /\ Chosen(q, s) /\ place[q] = 1
       /\ HandOver(r, after, q, s) /\ MoveUp(q)
       /\ client' = [client EXCEPT ![s] = conn] /\ UNCHANGED busy
  \/ /\ \A q \in Reader : ~(Chosen(q, s) /\ place[q] = 1)
     /\ reader' = [reader EXCEPT ![r] = after]
     /\ busy' = [busy EXCEPT ![s] = FALSE]
     /\ client' = [client EXCEPT ![s] = IF keep THEN conn ELSE "none"]
     /\ UNCHANGED place

\* release, with `after` the state of the reader that gives its slot back and
\* `conn` what it leaves of the connection.  Of the idle connections only one
\* stays open (MAX_IDLE_WARM_CONNECTIONS).
Release(r, after, conn) ==
  LET s == reader[r].slot
      keep == conn # "none" /\ \A t \in Slot \ {s} : busy[t] \/ client[t] = "none"
  IN
  \/ \E q \in Reader :
       /\ Chosen(q, s)
       /\ HandOver(r, after, q, s) /\ MoveUp(q)
       /\ client' = [client EXCEPT ![s] = conn] /\ UNCHANGED busy
  \/ /\ \A q \in Reader : ~Chosen(q, s)
     /\ reader' = [reader EXCEPT ![r] = after]
     /\ busy' = [busy EXCEPT ![s] = FALSE]
     /\ client' = [client EXCEPT ![s] = IF keep THEN conn ELSE "none"]
     /\ UNCHANGED place

-----------------------------------------------------------------------------
\* stream and body: one attempt after the other.

\* ensureConnected, and the body is asked for.
Connect(r) ==
  /\ At(r, "connect")
  /\ client' = [client EXCEPT ![reader[r].slot] = "unread"]
  /\ reader' = [reader EXCEPT ![r].pc = "body", ![r].at = 0]
  /\ UNCHANGED <<cache, inflight, busy, place, allowed>>

\* The next chunk is yielded.
Chunk(r) ==
  /\ At(r, "body") /\ reader[r].kind # "whole" /\ reader[r].at < Chunks
  /\ reader' = [reader EXCEPT ![r].at = @ + 1, ![r].pc = "yielded"]
  /\ UNCHANGED <<cache, inflight>> /\ UNCHANGED Pool

\* The consumer asks for more.
Resume(r) ==
  /\ At(r, "yielded")
  /\ reader' = [reader EXCEPT ![r].pc = "body"]
  /\ UNCHANGED <<cache, inflight>> /\ UNCHANGED Pool

\* The consumer has what it needs, or its session was aborted: it returns.
Return(r) ==
  /\ At(r, "yielded") /\ reader[r].kind = "range"
  /\ "stop" \in Allow \/ reader[r].aborted
  /\ reader' = [reader EXCEPT ![r] = Left(r, "closing")]
  /\ UNCHANGED <<cache, inflight>> /\ UNCHANGED Pool

\* Mutant: the connection is kept when the consumer returns.
Returned_Warm(r) ==
  /\ At(r, "closing")
  /\ Release(r, Rest(r, "leave"), client[reader[r].slot])
  /\ UNCHANGED <<cache, inflight, allowed>>

\* The connection with the unread rest is closed, then the slot is released.
Returned(r) ==
  /\ At(r, "closing")
  /\ Release(r, Rest(r, "leave"), "none")
  /\ UNCHANGED <<cache, inflight, allowed>>

\* The file is closed or read elsewhere: the kept generator is forgotten,
\* suspended as it is.
Forget(r) ==
  /\ At(r, "yielded") /\ reader[r].kind = "kept"
  /\ reader' = [reader EXCEPT ![r] = Left(r, "forgotten")]
  /\ UNCHANGED <<cache, inflight>> /\ UNCHANGED Pool

\* The body is read to its end, and at once if nothing is yielded (body).
AtEnd(r) == At(r, "body") /\ (reader[r].kind = "whole" \/ (reader[r].at = Chunks /\ ~reader[r].aborted))

\* The slot is released with its connection, and the chunks that were yielded
\* go to the cache, those of broken attempts too.
Complete(r) ==
  /\ AtEnd(r)
  /\ cache' = [cache EXCEPT ![reader[r].seg] = IF reader[r].torn THEN "repeated" ELSE "whole"]
  /\ Release(r, Rest(r, "settle"), "fresh")
  /\ UNCHANGED <<inflight, allowed>>

\* The connection, the body or the session breaks: the connection is closed.
\* A temporary error excludes no provider; when all primaries are excluded,
\* backups may be used.
Fail(r) ==
  /\ reader[r].pc \in {"connect", "body"}
  /\ \E failed \in {reader[r].failed, reader[r].failed \union {Owner[reader[r].slot]}} :
       /\ IF failed = reader[r].failed THEN "stall" \in Allow ELSE "fail" \in Allow \/ reader[r].aborted
       /\ reader' = [reader EXCEPT ![r] =
            [reader[r] EXCEPT !.pc = "judge", !.failed = failed, !.backups = @ \/ Primary \subseteq failed,
                              !.torn = @ \/ reader[r].at > 0, !.at = 0]]
  /\ client' = [client EXCEPT ![reader[r].slot] = "none"]
  /\ UNCHANGED <<cache, inflight, busy, place, allowed>>

\* After the sleep if the error is temporary: the slot is released, and there
\* is another attempt or all providers failed.
Judge(r) ==
  /\ At(r, "judge")
  /\ LET over == reader[r].attempt = MaxAttempts \/ Cardinality(reader[r].failed) >= Cardinality(Owners)
     IN Release(r, IF over THEN Rest(r, "settle") ELSE [reader[r] EXCEPT !.pc = "ask", !.slot = 0, !.attempt = @ + 1],
                "none")
  /\ UNCHANGED <<cache, inflight, allowed>>

-----------------------------------------------------------------------------
\* Sessions, settings and the cache.

\* Whose fetch can still be aborted: a shared fetch is not the reader's own.
HasSignal(r) ==
  /\ reader[r].kind # "kept" /\ ~reader[r].aborted
  /\ reader[r].pc \notin {"over", "join", "closing", "forgotten", "settle", "leave"}

\* Mutant: the aborted waiter stays in line.
Abort_StaysInLine(r) ==
  /\ "abort" \in Allow /\ HasSignal(r)
  /\ reader' = [reader EXCEPT ![r] = IF Waiting(r) THEN Rest(r, "settle") ELSE [@ EXCEPT !.aborted = TRUE]]
  /\ UNCHANGED <<cache, inflight, busy, client, allowed, place>>

\* stopStreamSession: a waiter leaves the queue, every other reader finds out
\* by itself.
Abort(r) ==
  /\ "abort" \in Allow /\ HasSignal(r)
  /\ reader' = [reader EXCEPT ![r] = IF Waiting(r) THEN Rest(r, "settle") ELSE [@ EXCEPT !.aborted = TRUE]]
  /\ IF Waiting(r) THEN MoveUp(r) ELSE UNCHANGED place
  /\ UNCHANGED <<cache, inflight, busy, client, allowed>>

Resize ==
  /\ "shrink" \in Allow /\ allowed' \in Slot
  /\ UNCHANGED <<cache, inflight, busy, client, reader, place>>

\* pruneHotCache and the pruning of the disk cache.
Evict(g) ==
  /\ "evict" \in Allow /\ cache' = [cache EXCEPT ![g] = "none"]
  /\ UNCHANGED inflight /\ UNCHANGED Pool /\ UNCHANGED reader

Fetch(r) ==
  \/ Look(r) \/ Claim(r) \/ Ask(r) \/ Pick(r) \/ Connect(r) \/ Chunk(r)
  \/ Returned(r) \/ Complete(r) \/ Fail(r) \/ Judge(r) \/ End(r)
Consume(r) == Resume(r) \/ Return(r)
Next ==
  \/ \E r \in Reader : \/ Fetch(r) \/ Consume(r) \/ Forget(r) \/ Abort(r)
                       \/ \E g \in Segment, kind \in {"range", "kept", "whole"} : Begin(r, g, kind)
  \/ Resize
  \/ \E g \in Segment : Evict(g)

Spec == Init /\ [][Next]_vars

-----------------------------------------------------------------------------
Pc == {"over", "look", "claim", "join", "ask", "pick", "wait", "connect", "body", "yielded", "closing",
       "forgotten", "judge", "settle", "leave"}
ReaderState ==
  [pc : Pc, kind : {"range", "kept", "whole"}, seg : Segment \union {NoSegment}, from : Reader \union {Nobody},
   slot : 0..N, lim : 0..N, failed : SUBSET Provider, backups : BOOLEAN, attempt : 0..MaxAttempts,
   at : 0..Chunks, torn : BOOLEAN, aborted : BOOLEAN]

\* The types; the places are those of an array without gaps.
TypeOK ==
  /\ cache \in [Segment -> {"none", "whole", "repeated"}]
  /\ inflight \in [Segment -> Reader \union {Nobody}]
  /\ busy \in [Slot -> BOOLEAN] /\ client \in [Slot -> {"none", "fresh", "unread"}]
  /\ reader \in [Reader -> ReaderState]
  /\ place \in [Reader -> 0..Cardinality({r \in Reader : InLine(r)})] /\ allowed \in Slot
  /\ \A q, r \in Reader : q # r /\ InLine(q) => place[q] # place[r]
  /\ \A r \in Reader : reader[r].pc # "over" => reader[r].seg \in Segment

Holds(r, s) == reader[r].slot = s /\ reader[r].pc \in {"connect", "body", "yielded", "closing", "forgotten", "judge"}

\* A slot is marked busy exactly while one reader holds it, whoever aborts,
\* returns or fails meanwhile: no slot is handed to a reader that is gone.
SlotExclusive ==
  \A s \in Slot : /\ busy[s] <=> \E r \in Reader : Holds(r, s)
                  /\ \A q, r \in Reader : Holds(q, s) /\ Holds(r, s) => q = r

\* No slot a reader was ready to take when it began to wait is idle while it
\* waits, also when waiters before it were aborted.
NoLostWakeup ==
  \A r \in Reader, s \in Slot : Waiting(r) /\ s <= reader[r].lim /\ Usable(r, s) => busy[s]

\* "If the caller stops early, unread multiline data remains on the socket, so
\* that connection must die" (line 459): a connection with an unread rest never
\* goes back to the pool or to another reader.
NoUnreadReuse ==
  \A s \in Slot : client[s] = "unread" =>
    \E r \in Reader : reader[r].slot = s /\ reader[r].pc \in {"body", "yielded", "closing", "forgotten"}

\* The map only names fetches in progress: who finds a segment there shares a
\* fetch that has not ended.
Fetching(r, g) == reader[r].seg = g /\ reader[r].pc \notin {"over", "look", "claim", "join"}
SharesLiveFetch ==
  /\ \A g \in Segment : inflight[g] # Nobody => Fetching(inflight[g], g)
  /\ \A r \in Reader : At(r, "join") /\ reader[r].from # Nobody => Fetching(reader[r].from, reader[r].seg)

=============================================================================
