--------------------------- MODULE NzbStoreProofs ---------------------------
(***************************************************************************)
(* For every number of calls and processes, and for every policy: the      *)
(* types of NzbStore, the lock of a process, one download per key, and the *)
(* document of every job.                                                  *)
(***************************************************************************)
EXTENDS NzbStore, FiniteSetTheorems, TLAPS

\* Who is between the lock and its release holds it.
Held == \A a \in Adder : pc[a] \in Inside => Holds(a)

\* Which places a policy leads to.
Places ==
  \A a \in Adder :
    /\ pc[a] \in {"remove", "removeRaced", "storeAgain"} => policy = "replace_existing"
    /\ pc[a] = "storeSuffixed" => policy = "download_again_with_suffix"
    /\ pc[a] = "refuse" => policy # "download_again_with_suffix"

\* A row is made after the lookup, a job is the last thing an add makes, and
\* what the cleanup has read is over, or has no document.
Fresh == \A a \in Adder : pc[a] \in {"idle", "create"} => row[a] = "absent"
Last == \A a \in jobs : pc[a] = "done"
Over == /\ \A a \in doomed.rows : row[a] # "absent"
        /\ \A a \in doomed.docs : row[a] \in {"failed", "cancelled", "deleted"}

\* The document of an add that is done, or about to be.
Stored(a) == pc[a] \in {"stored", "queue"} \/ a \in jobs
Documents == \A a \in Adder : Stored(a) /\ row[a] = "queued" /\ policy # "replace_existing" => a \in linked
Keys == \A a \in Adder : (Stored(a) \/ pc[a] = "link") /\ row[a] = "queued" /\ policy \in Joining => key = a

Inv == TypeOK /\ Held /\ Places /\ Fresh /\ Last /\ Over /\ Documents /\ Keys

LEMMA InitInv == Init => Inv
<1> SUFFICES ASSUME Init PROVE Inv
  OBVIOUS
<1> USE Bound DEF Init
<1>1. TypeOK
  BY DEF TypeOK, Place, Nobody
<1>2. Held /\ Places
  BY DEF Held, Places, Inside
<1>3. Fresh /\ Last /\ Over
  BY DEF Fresh, Last, Over, Nobody
<1>4. Documents /\ Keys
  BY DEF Documents, Keys, Stored
<1> QED BY <1>1, <1>2, <1>3, <1>4 DEF Inv

LEMMA TypeNext == TypeOK /\ [Next]_vars => TypeOK'
<1> SUFFICES ASSUME TypeOK, [Next]_vars PROVE TypeOK'
  OBVIOUS
<1> USE DEF TypeOK, setting, store, Goto, Finds, SetRow, At, Place, Nobody
<1>1. ASSUME NEW a \in Adder, Lookup(a) PROVE TypeOK'
  BY <1>1 DEF Lookup
<1>2. ASSUME NEW a \in Adder, Create(a) PROVE TypeOK'
  BY <1>2 DEF Create
<1>3. ASSUME NEW a \in Adder, Read(a) PROVE TypeOK'
  BY <1>3 DEF Read
<1>4. ASSUME NEW a \in Adder, Acquire(a) PROVE TypeOK'
  BY <1>4, Hosts DEF Acquire, Enter
<1>5. ASSUME NEW a \in Adder, Examine(a) PROVE TypeOK'
  BY <1>5 DEF Examine
<1>6. ASSUME NEW a \in Adder, Refuse(a) PROVE TypeOK'
  BY <1>6 DEF Refuse
<1>7. ASSUME NEW a \in Adder, Remove(a) PROVE TypeOK'
  BY <1>7, NoCall DEF Remove, Drop
<1>8. ASSUME NEW a \in Adder, Store(a) PROVE TypeOK'
  BY <1>8 DEF Store
<1>9. ASSUME NEW a \in Adder, StoreSuffixed(a) PROVE TypeOK'
  BY <1>9 DEF StoreSuffixed
<1>10. ASSUME NEW a \in Adder, Race(a) PROVE TypeOK'
  BY <1>10 DEF Race
<1>11. ASSUME NEW a \in Adder, RemoveRaced(a) PROVE TypeOK'
  BY <1>11, NoCall DEF RemoveRaced, Drop
<1>12. ASSUME NEW a \in Adder, Link(a) PROVE TypeOK'
  BY <1>12 DEF Link
<1>13. ASSUME NEW a \in Adder, Release(a) PROVE TypeOK'
  BY <1>13 DEF Release
<1>14. ASSUME NEW a \in Adder, Fallback(a) PROVE TypeOK'
  BY <1>14 DEF Fallback
<1>15. ASSUME NEW a \in Adder, Queue(a) PROVE TypeOK'
  BY <1>15 DEF Queue
<1>16. ASSUME NEW a \in Adder, End(a) PROVE TypeOK'
  BY <1>16 DEF End
<1>17. ASSUME NEW a \in Adder, Delete(a) PROVE TypeOK'
  BY <1>17, Bound DEF Delete
<1>18. ASSUME CleanupReads PROVE TypeOK'
  BY <1>18, Bound DEF CleanupReads
<1>19. ASSUME CleanupDeletes PROVE TypeOK'
  BY <1>19, NoCall DEF CleanupDeletes
<1>20. ASSUME UNCHANGED vars PROVE TypeOK'
  BY <1>20 DEF vars
<1> QED
  BY <1>1, <1>2, <1>3, <1>4, <1>5, <1>6, <1>7, <1>8, <1>9, <1>10, <1>11, <1>12, <1>13, <1>14, <1>15,
     <1>16, <1>17, <1>18, <1>19, <1>20 DEF Next, Step

\* Each action keeps the rest of the invariant.
LEMMA RestNext == Inv /\ [Next]_vars => (Held /\ Places /\ Fresh /\ Last /\ Over /\ Documents /\ Keys)'
<1> SUFFICES ASSUME Inv, [Next]_vars PROVE (Held /\ Places /\ Fresh /\ Last /\ Over /\ Documents /\ Keys)'
  OBVIOUS
<1> DEFINE Rest == Held /\ Places /\ Fresh /\ Last /\ Over /\ Documents /\ Keys
<1> USE DEF Inv, TypeOK, Held, Holds, Places, Fresh, Last, Over, Documents, Keys, Stored, setting, store, Goto, Finds,
            SetRow, At, Inside, Joining
<1>1. ASSUME NEW a \in Adder, Lookup(a) PROVE Rest'
  BY <1>1 DEF Lookup
<1>2. ASSUME NEW a \in Adder, Create(a) PROVE Rest'
  BY <1>2 DEF Create
<1>3. ASSUME NEW a \in Adder, Read(a) PROVE Rest'
  BY <1>3 DEF Read
<1>4. ASSUME NEW a \in Adder, Acquire(a) PROVE Rest'
  BY <1>4, Hosts, NoCall DEF Acquire, Enter
<1>5. ASSUME NEW a \in Adder, Examine(a) PROVE Rest'
  <2>1. CASE SetRow(a, "failed") /\ Goto(a, "refused") /\ UNCHANGED found
    BY <1>5, <2>1, Settings DEF Examine
  <2>2. ASSUME NEW next, Goto(a, next), next \in {"store", "refuse", "remove", "storeSuffixed"},
               next = "refuse" => policy \in Joining, next = "remove" => policy = "replace_existing",
               next = "storeSuffixed" => policy \notin Joining \union {"replace_existing"}, UNCHANGED row
        PROVE  Rest'
    BY <1>5, <2>2, Settings DEF Examine
  <2>3. CASE /\ UNCHANGED row
             /\ Goto(a, CASE key = None -> "store"
                          [] key # None /\ policy \in Joining -> "refuse"
                          [] key # None /\ policy = "replace_existing" -> "remove"
                          [] OTHER -> "storeSuffixed")
    <3> HIDE DEF Inv, TypeOK, Held, Places, Fresh, Last, Over, Documents, Keys, Goto, Rest
    <3>1. CASE key = None
      BY <2>2, <2>3, <3>1
    <3>2. CASE key # None /\ policy \in Joining
      BY <2>2, <2>3, <3>2 DEF Joining
    <3>3. CASE key # None /\ policy = "replace_existing"
      BY <2>2, <2>3, <3>3 DEF Joining
    <3>4. CASE key # None /\ policy \notin Joining /\ policy # "replace_existing"
      BY <2>2, <2>3, <3>4
    <3> QED BY <3>1, <3>2, <3>3, <3>4
  <2> QED BY <1>5, <2>1, <2>3 DEF Examine
<1>6. ASSUME NEW a \in Adder, Refuse(a) PROVE Rest'
  BY <1>6 DEF Refuse
<1>7. ASSUME NEW a \in Adder, Remove(a) PROVE Rest'
  BY <1>7 DEF Remove, Drop
<1>8. ASSUME NEW a \in Adder, Store(a) PROVE Rest'
  BY <1>8, NoCall DEF Store
<1>9. ASSUME NEW a \in Adder, StoreSuffixed(a) PROVE Rest'
  BY <1>9 DEF StoreSuffixed
<1>10. ASSUME NEW a \in Adder, Race(a) PROVE Rest'
  BY <1>10 DEF Race
<1>11. ASSUME NEW a \in Adder, RemoveRaced(a) PROVE Rest'
  BY <1>11 DEF RemoveRaced, Drop
<1>12. ASSUME NEW a \in Adder, Link(a) PROVE Rest'
  BY <1>12 DEF Link
<1>13. ASSUME NEW a \in Adder, Release(a) PROVE Rest'
  BY <1>13, Hosts, NoCall DEF Release
<1>14. ASSUME NEW a \in Adder, Fallback(a) PROVE Rest'
  BY <1>14 DEF Fallback
<1>15. ASSUME NEW a \in Adder, Queue(a) PROVE Rest'
  BY <1>15 DEF Queue
<1>16. ASSUME NEW a \in Adder, End(a) PROVE Rest'
  BY <1>16 DEF End
<1>17. ASSUME NEW a \in Adder, Delete(a) PROVE Rest'
  BY <1>17 DEF Delete
<1>18. ASSUME CleanupReads PROVE Rest'
  BY <1>18 DEF CleanupReads
<1>19. ASSUME CleanupDeletes PROVE Rest'
  BY <1>19 DEF CleanupDeletes, Nobody
<1>20. ASSUME UNCHANGED vars PROVE Rest'
  BY <1>20 DEF vars
<1> QED
  BY <1>1, <1>2, <1>3, <1>4, <1>5, <1>6, <1>7, <1>8, <1>9, <1>10, <1>11, <1>12, <1>13, <1>14, <1>15,
     <1>16, <1>17, <1>18, <1>19, <1>20 DEF Next, Step

LEMMA SpecInv == Spec => []Inv
<1>1. Inv /\ [Next]_vars => Inv'
  BY TypeNext, RestNext DEF Inv
<1> QED BY <1>1, InitInv, PTL DEF Spec

\* The types of the model hold in every state.
THEOREM TypeCorrect == Spec => []TypeOK
<1>1. Inv => TypeOK
  BY DEF Inv
<1> QED BY <1>1, SpecInv, PTL

\* One call of a process at a time is between the lock of a key and its release.
THEOREM LockExcludes == Spec => []LockExclusive
<1>1. Inv => LockExclusive
  BY DEF Inv, Held, Holds, LockExclusive
<1> QED BY <1>1, SpecInv, PTL

\* A policy that refuses duplicates leaves one download of a key queued, however
\* many calls of however many processes add it.
THEOREM OneDownload == Spec => []OneDownloadPerKey
<1>1. ASSUME Inv PROVE OneDownloadPerKey
  <2> SUFFICES ASSUME policy \in Joining PROVE Cardinality({a \in jobs : row[a] = "queued"}) <= 1
    BY DEF OneDownloadPerKey
  <2> DEFINE Q == {a \in jobs : row[a] = "queued"}
  <2>1. Q \subseteq {key}
    BY <1>1 DEF Inv, TypeOK, Keys, Stored
  <2>2. IsFiniteSet({key}) /\ Cardinality({key}) = 1
    BY FS_Singleton
  <2> QED BY <2>1, <2>2, FS_Subset
<1> QED BY <1>1, SpecInv, PTL

\* The job of a queued download finds its document.
THEOREM DocumentOfJob == Spec => []JobHasDocument
<1>1. Inv => JobHasDocument
  BY DEF Inv, TypeOK, Documents, Stored, JobHasDocument
<1> QED BY <1>1, SpecInv, PTL
=============================================================================
