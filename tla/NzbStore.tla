------------------------------ MODULE NzbStore ------------------------------
(***************************************************************************)
(* Adding one NZB several times: the duplicate policies of                 *)
(* storeNzbForDownload under the GUID lock of its process, the unique GUID *)
(* of the documents in the database, and what the three ways to add do     *)
(* with the outcome (services/downloadService.ts).                         *)
(*                                                                         *)
(* All adders bring the same duplicate key, a GUID or the hash of the same *)
(* content.  An adder is one call; its download and its document go by its *)
(* name.  The server and a worker process are hosts: each has its own map  *)
(* of locks, and they share the database.                                  *)
(***************************************************************************)
EXTENDS FiniteSets, Naturals

CONSTANTS Adder,      \* the calls that add the NZB
          Host,       \* processes
          HostOf,     \* the process of each call
          Policies,   \* duplicateNzbBehavior: the settings considered
          Kinds,      \* the ways to add considered: a grab, an upload, a fetched URL
          MaxMoves,   \* how often a user deletes a download or cleans the history
          None        \* no call

ASSUME Hosts == HostOf \in [Adder -> Host]
ASSUME Settings ==
  /\ Policies \subseteq {"mark_failed", "ignore_existing", "replace_existing", "download_again_with_suffix"}
  /\ Kinds \subseteq {"grab", "upload", "url"}
ASSUME NoCall == None \notin Adder
ASSUME Bound == MaxMoves \in Nat


Joining == {"mark_failed", "ignore_existing"}

VARIABLES
  policy,   \* the duplicate policy
  kind,     \* how the calls add it
  pc,       \* where each call is
  found,    \* the document it is about to remove
  row,      \* the row of its download
  docs,     \* the documents in the database, by the call that stored them
  key,      \* the one of them whose GUID is the key; the others have a suffix
  linked,   \* the downloads that have their document
  jobs,     \* the downloads for which a job was queued
  lock,     \* activeNzbGuidLocks of each process, for the key
  doomed,   \* the rows and documents the history cleanup is about to delete
  moves     \* how often a user has stepped in

vars == <<policy, kind, pc, found, row, docs, key, linked, jobs, lock, doomed, moves>>
store == <<row, docs, key, linked, jobs, doomed>>
setting == <<policy, kind>>

Nobody == [rows |-> {}, docs |-> {}]

\* A key is a GUID, which grabs bring, or the hash of an upload or of what an
\* URL gave.
Init ==
  /\ policy \in Policies
  /\ kind \in Kinds
  /\ pc = [a \in Adder |-> "idle"]
  /\ found = [a \in Adder |-> None]
  /\ row = [a \in Adder |-> "absent"]
  /\ docs = {} /\ key = None /\ linked = {} /\ jobs = {}
  /\ lock = [h \in Host |-> None]
  /\ doomed = Nobody
  /\ moves = 0

At(a, place) == pc[a] = place
Goto(a, place) == pc' = [pc EXCEPT ![a] = place]
Finds(a, doc) == found' = [found EXCEPT ![a] = doc]
SetRow(a, state) == row' = [row EXCEPT ![a] = IF @ = "deleted" THEN @ ELSE state]

\* existingDownloadForGuid: a document whose download is gone, failed or
\* cancelled is none.
LiveKey == key # None /\ key \in linked /\ row[key] \in {"queued", "available"}

\* findReusableDownload: the same, or any live row of the same title.
Reusable == LiveKey \/ \E b \in Adder : row[b] \in {"queued", "available"}

-----------------------------------------------------------------------------
\* An add, up to storeNzbForDownload.

Lookup(a) ==
  /\ At(a, "idle") /\ kind = "grab"
  /\ IF policy \in Joining /\ Reusable THEN Goto(a, "done") ELSE Goto(a, "create")
  /\ UNCHANGED <<setting, found, store, lock, moves>>

\* The row is made before the NZB is looked at, a fetched one before the fetch.
Create(a) ==
  /\ \/ At(a, "create")
     \/ At(a, "idle") /\ kind # "grab"
  /\ SetRow(a, "queued")
  /\ Goto(a, "read")
  /\ UNCHANGED <<setting, found, docs, key, linked, jobs, lock, doomed, moves>>

\* The fetch, the settings and the parser, which may throw.
Read(a) ==
  /\ At(a, "read")
  /\ Goto(a, "wait") \/ Goto(a, "failed")
  /\ UNCHANGED <<setting, found, store, lock, moves>>

Enter(a) == lock' = [lock EXCEPT ![HostOf[a]] = a] /\ Goto(a, "examine")

\* Mutant: the lock is asked once: who waits goes on when its holder is done,
\* before it has given the lock back.
Acquire_IfNotWhile(a) ==
  /\ At(a, "wait")
  /\ lock[HostOf[a]] # None => pc[lock[HostOf[a]]] \in {"stored", "refused", "failed"}
  /\ Enter(a)
  /\ UNCHANGED <<setting, found, store, moves>>

\* acquireNzbGuidLock
Acquire(a) ==
  /\ At(a, "wait")
  /\ lock[HostOf[a]] = None
  /\ Enter(a)
  /\ UNCHANGED <<setting, found, store, moves>>

-----------------------------------------------------------------------------
\* storeNzbForDownload, with the lock.

\* The policy on NZBs without a video, or a document under the key, may refuse.
Examine(a) ==
  /\ At(a, "examine")
  /\ \/ Goto(a, CASE key = None -> "store"
                  [] key # None /\ policy \in Joining -> "refuse"
                  [] key # None /\ policy = "replace_existing" -> "remove"
                  [] OTHER -> "storeSuffixed")
        /\ Finds(a, IF policy = "replace_existing" THEN key ELSE None)
        /\ UNCHANGED row
     \/ SetRow(a, "failed") /\ Goto(a, "refused") /\ UNCHANGED found
  /\ UNCHANGED <<setting, docs, key, linked, jobs, lock, doomed, moves>>

Refuse(a) ==
  /\ At(a, "refuse")
  /\ SetRow(a, IF policy = "ignore_existing" THEN "cancelled" ELSE "failed")
  /\ Goto(a, "refused")
  /\ UNCHANGED <<setting, found, docs, key, linked, jobs, lock, doomed, moves>>

\* The download of a removed document keeps its row and loses its link.
Drop(d) ==
  /\ docs' = docs \ {d} /\ linked' = linked \ {d}
  /\ key' = IF key = d THEN None ELSE key

\* A document that is gone by now cannot be deleted.
Remove(a) ==
  /\ At(a, "remove")
  /\ IF found[a] \in docs THEN Drop(found[a]) /\ Goto(a, "store")
                          ELSE Goto(a, "failed") /\ UNCHANGED <<docs, key, linked>>
  /\ Finds(a, None)
  /\ UNCHANGED <<setting, row, jobs, lock, doomed, moves>>

\* storeNzbDocument: the unique GUID decides between two processes (P2002); the
\* write of the file, the document or its mount may fail, the last of them after
\* the document was made.
Store(a) ==
  /\ At(a, "store") \/ At(a, "storeAgain")
  /\ \/ key = None /\ docs' = docs \union {a} /\ key' = a /\ (Goto(a, "link") \/ Goto(a, "failed"))
     \/ key # None /\ Goto(a, IF At(a, "store") THEN "race" ELSE "failed") /\ UNCHANGED <<docs, key>>
     \/ Goto(a, "failed") /\ UNCHANGED <<docs, key>>
  /\ UNCHANGED <<setting, found, row, linked, jobs, lock, doomed, moves>>

StoreSuffixed(a) ==
  /\ At(a, "storeSuffixed")
  /\ \/ docs' = docs \union {a} /\ (Goto(a, "link") \/ Goto(a, "failed"))
     \/ Goto(a, "failed") /\ UNCHANGED docs
  /\ UNCHANGED <<setting, found, row, key, linked, jobs, lock, doomed, moves>>

\* Mutants: the loser of the race stores beside the winner, or replaces it,
\* whatever the policy.
Race_Suffixes(a) ==
  /\ At(a, "race") /\ Goto(a, "storeSuffixed")
  /\ UNCHANGED <<setting, found, store, lock, moves>>
Race_Replaces(a) ==
  /\ At(a, "race") /\ Goto(a, "removeRaced") /\ Finds(a, key)
  /\ UNCHANGED <<setting, store, lock, moves>>

\* The loser of the race looks again, and does by the policy.
Race(a) ==
  /\ At(a, "race")
  /\ Finds(a, IF policy = "replace_existing" THEN key ELSE None)
  /\ Goto(a, CASE policy = "download_again_with_suffix" -> "storeSuffixed"
               [] policy = "replace_existing" /\ key # None -> "removeRaced"
               [] OTHER -> "refuse")
  /\ UNCHANGED <<setting, store, lock, moves>>

RemoveRaced(a) ==
  /\ At(a, "removeRaced")
  /\ IF found[a] \in docs THEN Drop(found[a]) ELSE UNCHANGED <<docs, key, linked>>
  /\ Goto(a, "storeAgain") /\ Finds(a, None)
  /\ UNCHANGED <<setting, row, jobs, lock, doomed, moves>>

\* Mutant: a document that is gone is linked.
Link_Blind(a) ==
  /\ At(a, "link")
  /\ linked' = IF row[a] = "deleted" THEN linked ELSE linked \union {a}
  /\ Goto(a, "stored")
  /\ UNCHANGED <<setting, found, row, docs, key, jobs, lock, doomed, moves>>

\* safeUpdateDownload passes over a row that is gone; a document that is gone
\* is an error.
Link(a) ==
  /\ At(a, "link")
  /\ IF row[a] = "deleted" \/ a \in docs
     THEN /\ linked' = IF row[a] = "deleted" THEN linked ELSE linked \union {a}
          /\ Goto(a, "stored")
     ELSE Goto(a, "failed") /\ UNCHANGED linked
  /\ UNCHANGED <<setting, found, row, docs, key, jobs, lock, doomed, moves>>

-----------------------------------------------------------------------------
\* The lock is given back, whatever the outcome; then each kind of add goes its
\* own way.

Holds(a) == lock[HostOf[a]] = a

\* Mutant: the lock is given back where the document is stored only.
Release_NoFinally(a) ==
  /\ pc[a] \in {"stored", "refused", "failed"} /\ Holds(a)
  /\ lock' = IF At(a, "stored") THEN [lock EXCEPT ![HostOf[a]] = None] ELSE lock
  /\ Goto(a, CASE At(a, "stored") -> "queue" [] At(a, "refused") -> "keep" [] OTHER -> "giveUp")
  /\ UNCHANGED <<setting, found, store, moves>>

Release(a) ==
  /\ pc[a] \in {"stored", "refused", "failed"} /\ Holds(a)
  /\ lock' = [lock EXCEPT ![HostOf[a]] = None]
  /\ Goto(a, CASE At(a, "stored") -> "queue" [] At(a, "refused") -> "keep" [] OTHER -> "giveUp")
  /\ UNCHANGED <<setting, found, store, moves>>

\* A grab that was refused or failed joins the live download of the key, if it
\* finds one by now, and removes its own row.
Fallback(a) ==
  /\ pc[a] \in {"keep", "giveUp"} \/ (At(a, "failed") /\ ~Holds(a))
  /\ IF kind = "grab" /\ policy \in Joining /\ LiveKey
     THEN row' = [row EXCEPT ![a] = "deleted"]
     ELSE IF At(a, "keep") /\ kind # "url" THEN UNCHANGED row
     ELSE SetRow(a, "failed")
  /\ Goto(a, "done")
  /\ UNCHANGED <<setting, found, docs, key, linked, jobs, lock, doomed, moves>>

\* The job, also of a row that is gone by now.
Queue(a) ==
  /\ At(a, "queue")
  /\ jobs' = jobs \union {a}
  /\ Goto(a, "done")
  /\ UNCHANGED <<setting, found, row, docs, key, linked, lock, doomed, moves>>

-----------------------------------------------------------------------------
\* What ends and removes downloads meanwhile.

End(a) ==
  /\ a \in jobs /\ row[a] = "queued"
  /\ \E state \in {"available", "failed"} : SetRow(a, state)
  /\ UNCHANGED <<setting, pc, found, docs, key, linked, jobs, lock, doomed, moves>>

\* deleteDownload: the document stays.
Delete(a) ==
  /\ moves < MaxMoves /\ moves' = moves + 1
  /\ row[a] \notin {"absent", "deleted"}
  /\ row' = [row EXCEPT ![a] = "deleted"]
  /\ linked' = linked \ {a}
  /\ UNCHANGED <<setting, pc, found, docs, key, jobs, lock, doomed>>

\* cleanupDownloadHistory reads the rows that are over, and the queued ones
\* that have neither a document nor a job, an add in progress among them.
CleanupReads ==
  /\ moves < MaxMoves /\ moves' = moves + 1
  /\ doomed = Nobody
  /\ LET rows == {a \in Adder : \/ row[a] \in {"failed", "cancelled"}
                                \/ row[a] = "queued" /\ a \notin linked /\ a \notin jobs}
     IN rows # {} /\ doomed' = [rows |-> rows, docs |-> rows \intersect linked]
  /\ UNCHANGED <<setting, pc, found, row, docs, key, linked, jobs, lock>>

CleanupDeletes ==
  /\ doomed # Nobody
  /\ row' = [a \in Adder |-> IF a \in doomed.rows THEN "deleted" ELSE row[a]]
  /\ docs' = docs \ doomed.docs
  /\ key' = IF key \in doomed.docs THEN None ELSE key
  /\ linked' = linked \ (doomed.rows \union doomed.docs)
  /\ doomed' = Nobody
  /\ UNCHANGED <<setting, pc, found, jobs, lock, moves>>

Step(a) ==
  \/ Lookup(a) \/ Create(a) \/ Read(a) \/ Acquire(a) \/ Examine(a) \/ Refuse(a) \/ Remove(a)
  \/ Store(a) \/ StoreSuffixed(a) \/ Race(a) \/ RemoveRaced(a) \/ Link(a) \/ Release(a)
  \/ Fallback(a) \/ Queue(a)

Next ==
  \/ \E a \in Adder : Step(a) \/ End(a) \/ Delete(a)
  \/ CleanupReads \/ CleanupDeletes

Spec == Init /\ [][Next]_vars

\* Every call that has begun goes on.  That it gets the lock needs no more: the
\* calls that can be in its way are finitely many.
FairSpec == Spec /\ \A a \in Adder : WF_vars(pc[a] # "idle" /\ Step(a))

-----------------------------------------------------------------------------
Place == {"idle", "create", "read", "wait", "examine", "refuse", "remove", "store", "storeSuffixed", "race", "removeRaced",
          "storeAgain", "link", "stored", "refused", "failed", "keep", "giveUp", "queue", "done"}
Inside == {"examine", "refuse", "remove", "store", "storeSuffixed", "race", "removeRaced", "storeAgain", "link",
           "stored", "refused"}

TypeOK ==
  /\ policy \in Policies /\ kind \in Kinds
  /\ pc \in [Adder -> Place]
  /\ found \in [Adder -> Adder \union {None}]
  /\ row \in [Adder -> {"absent", "queued", "available", "failed", "cancelled", "deleted"}]
  /\ docs \subseteq Adder /\ key \in docs \union {None} /\ linked \subseteq docs
  /\ jobs \subseteq Adder
  /\ lock \in [Host -> Adder \union {None}]
  /\ doomed.rows \subseteq Adder /\ doomed.docs \subseteq doomed.rows
  /\ moves \in 0..MaxMoves

\* A process looks at the key and stores under it for one call at a time.
LockExclusive ==
  \A a, b \in Adder : pc[a] \in Inside /\ pc[b] \in Inside /\ HostOf[a] = HostOf[b] => a = b

\* A policy that refuses duplicates has one download of the key at a time, also
\* when two processes add it.
OneDownloadPerKey ==
  policy \in Joining => Cardinality({a \in jobs : row[a] = "queued"}) <= 1

\* A job finds the document of its download, unless another add replaced it.
JobHasDocument ==
  \A a \in jobs : row[a] = "queued" /\ policy # "replace_existing" => a \in linked

\* Every add ends.
AddsEnd == \A a \in Adder : ~At(a, "idle") ~> At(a, "done")
=============================================================================
