-------------------------- MODULE RequestGrabProofs --------------------------
(***************************************************************************)
(* For every number of releases and callers, and whatever users and the    *)
(* environment do: the types of RequestGrab, and that the entry of a       *)
(* recovery never outlives it.                                             *)
(***************************************************************************)
EXTENDS RequestGrab, TLAPS

\* The rows and sets, and the callers.
Data ==
  /\ row \in [status : Status, rel : Release \union {None}, link : Release \union {None}]
  /\ dl \in [Release -> DownloadState]
  /\ imported \in Release \union {None}
  /\ blocked \subseteq Release
  /\ cool \subseteq {"grab", "wanted"}
  /\ recovering \in BOOLEAN
  /\ moves \in 0..MaxMoves

\* What a caller carries to the places where it is written, and who searches
\* for a recovery: a caller in a grab, never a pass of the cycle.
Writing == {"refuse", "giveBack", "attach", "link", "upsert", "correct", "rewrite"}
Fetching == {"checkRelease", "refuse", "try", "add", "giveBack", "attach", "link", "blocklist", "unlink", "resolve"}
Outside == {"idle", "unlink", "resolve", "release", "defer", "imported", "upsert"}

Sound(p, s) ==
  /\ s \in ProcState
  /\ s.pc \in Writing => s.next \in Status
  /\ s.pc \in Fetching => s.r \in Release
  /\ p = Cycle \/ s.pc \in Outside => s.then # "recovery"

Procs ==
  /\ proc \in [Proc -> ProcState]
  /\ \A p \in Proc : Sound(p, proc[p])

Inv == Data /\ Procs /\ NoLeakedRecovery

LEMMA InitInv == Init => Inv
<1> SUFFICES ASSUME Init PROVE Inv
  OBVIOUS
<1> USE Bounds DEF Init
<1>0. moves \in 0..MaxMoves
  OBVIOUS
<1>1. Data
  BY <1>0 DEF Data, DownloadState, Status, None
<1>2. IdleProc \in ProcState
  BY DEF IdleProc, ProcState, Pc, Then, None
<1>3. \A p \in Proc : Sound(p, IdleProc)
  BY <1>2 DEF IdleProc, Sound, Writing, Fetching, Outside
<1>4. Procs
  BY <1>2, <1>3 DEF Procs
<1> QED BY <1>1, <1>4 DEF Inv, NoLeakedRecovery

\* A grab that throws.
LEMMA ThrowData ==
  ASSUME Data, NEW p \in Proc, proc[p].r \in Release \union {None}, Throw(p)
  PROVE  /\ row' \in [status : Status, rel : Release \union {None}, link : Release \union {None}]
         /\ blocked' \subseteq Release /\ cool' \subseteq {"grab", "wanted"} /\ recovering' \in BOOLEAN
<1> USE DEF Data, Status, None, Stay, SetStatus, Unlinked, Selects
<1>1. CASE proc[p].then = "recovery"
  BY <1>1 DEF Throw, Continue
<1>2. CASE proc[p].then = "webhook"
  BY <1>2 DEF Throw, Continue
<1>3. CASE proc[p].then = "selected"
  BY <1>3 DEF Throw
<1>4. CASE proc[p].then = "dropped"
  BY <1>4 DEF Throw
<1>5. CASE proc[p].then \notin {"recovery", "webhook", "selected", "dropped"}
  BY <1>5 DEF Throw, Continue
<1> QED BY <1>1, <1>2, <1>3, <1>4, <1>5

LEMMA DataNext == Inv /\ [Next]_vars => Data'
<1> SUFFICES ASSUME Inv, [Next]_vars PROVE Data'
  OBVIOUS
<1>0. /\ \A p \in Proc : /\ proc[p].pc \in Pc /\ proc[p].then \in Then /\ proc[p].r \in Release \union {None}
                         /\ proc[p].pc \in Writing => proc[p].next \in Status
                         /\ proc[p].pc \in Fetching => proc[p].r \in Release
      /\ Data
  BY DEF Inv, Procs, Sound, ProcState
<1> HIDE DEF Inv
<1> USE <1>0, Bounds DEF Data, DownloadState, Status, Proc, None, At, Stay, Writing, Fetching
<1>1. ASSUME NEW p \in Proc, CheckBest(p) PROVE Data'
  BY <1>1 DEF CheckBest, Continue
<1>2. ASSUME NEW p \in Proc, ShowImport(p) PROVE Data'
  BY <1>2 DEF ShowImport, Continue
<1>3. ASSUME NEW p \in Proc, Load(p) PROVE Data'
  <2>1. CASE Throw(p)
    BY <1>3, <2>1, ThrowData DEF Load
  <2>2. CASE ~Throw(p)
    BY <1>3, <2>2 DEF Load, Continue
  <2> QED BY <2>1, <2>2
<1>4. ASSUME NEW p \in Proc, Nothing(p) PROVE Data'
  BY <1>4 DEF Nothing, SetStatus, Continue
<1>5. ASSUME NEW p \in Proc, CheckRelease(p) PROVE Data'
  <2>1. CASE Throw(p)
    BY <1>5, <2>1, ThrowData DEF CheckRelease
  <2>2. CASE ~Throw(p)
    BY <1>5, <2>2 DEF CheckRelease, Continue
  <2> QED BY <2>1, <2>2
<1>6. ASSUME NEW p \in Proc, Refuse(p) PROVE Data'
  BY <1>6 DEF Refuse, Continue
<1>7. ASSUME NEW p \in Proc, Try(p) PROVE Data'
  BY <1>7 DEF Try, Only
<1>8. ASSUME NEW p \in Proc, Add(p) PROVE Data'
  BY <1>8 DEF Add, Continue
<1>9. ASSUME NEW p \in Proc, GiveBack(p) PROVE Data'
  BY <1>9 DEF GiveBack, Selects, Continue
<1>10. ASSUME NEW p \in Proc, Attach(p) PROVE Data'
  BY <1>10 DEF Attach
<1>11. ASSUME NEW p \in Proc, Link(p) PROVE Data'
  BY <1>11 DEF Link, Selects, Continue
<1>12. ASSUME NEW p \in Proc, Blocklist(p) PROVE Data'
  <2>1. proc[p].r \in Release
    BY <1>12 DEF Blocklist
  <2>2. row' = row \/ Selects("release_failed", proc[p].r, None)
    BY <1>12 DEF Blocklist
  <2>3. cool' \subseteq {"grab", "wanted"} /\ recovering' = recovering
    BY <1>12 DEF Blocklist
  <2> QED BY <1>12, <2>1, <2>2, <2>3 DEF Blocklist, Selects
<1>13. ASSUME NEW p \in Proc, Exhausted(p) PROVE Data'
  BY <1>13 DEF Exhausted, Unlinked, Continue
<1>14. ASSUME NEW c \in Caller, Unlink(c) PROVE Data'
  <2>1. UNCHANGED row \/ \E status \in Status : Unlinked(status)
    BY <1>14 DEF Unlink
  <2> QED BY <1>14, <2>1 DEF Unlink, Unlinked
<1>15. ASSUME NEW c \in Caller, Resolve(c) PROVE Data'
  BY <1>15 DEF Resolve
<1>16. ASSUME NEW c \in Caller, ReleaseRow(c) PROVE Data'
  BY <1>16 DEF ReleaseRow, Unlinked
<1>17. ASSUME NEW c \in Caller, Defer(c) PROVE Data'
  BY <1>17 DEF Defer, SetStatus
<1>18. ASSUME NEW c \in Caller, AfterImport(c) PROVE Data'
  BY <1>18 DEF AfterImport
<1>19. ASSUME NEW c \in Caller, Upsert(c) PROVE Data'
  BY <1>19 DEF Upsert, Write
<1>20. ASSUME Reconcile PROVE Data'
  BY <1>20 DEF Reconcile, Enter, Only
<1>21. ASSUME Correct PROVE Data'
  BY <1>21 DEF Correct, CycleAt, CycleWrite, Write
<1>22. ASSUME Monitor PROVE Data'
  BY <1>22 DEF Monitor, Enter, Only
<1>23. ASSUME Rewrite PROVE Data'
  BY <1>23 DEF Rewrite, CycleAt, CycleWrite, Write
<1>24. ASSUME Selected PROVE Data'
  BY <1>24 DEF Selected, Enter, Only
<1>25. ASSUME Failed PROVE Data'
  BY <1>25 DEF Failed, Enter, Only
<1>26. ASSUME FailLink PROVE Data'
  BY <1>26 DEF FailLink, Unlinked
<1>27. ASSUME NEW c \in Caller, NEW r \in Release, FailDownload(c, r) PROVE Data'
  BY <1>27 DEF FailDownload
<1>28. ASSUME NEW c \in Caller, NEW r \in Release, FinishDownload(c, r) PROVE Data'
  BY <1>28 DEF FinishDownload
<1>29. ASSUME NEW c \in Caller, UserGrab(c) PROVE Data'
  <2>1. moves < MaxMoves /\ moves' = moves + 1
    BY <1>29 DEF UserGrab, Move
  <2>2. moves' \in 0..MaxMoves
    BY <2>1
  <2> QED BY <1>29, <2>2 DEF UserGrab
<1>30. ASSUME NEW c \in Caller, Sync(c) PROVE Data'
  BY <1>30 DEF Sync, Move
<1>31. ASSUME NEW c \in Caller, SoftTimeout(c) PROVE Data'
  BY <1>31 DEF SoftTimeout
<1>32. ASSUME NEW r \in Release, Delete(r) PROVE Data'
  BY <1>32 DEF Delete, Move
<1>33. ASSUME UserStatus PROVE Data'
  BY <1>33 DEF UserStatus, Move, SetStatus
<1>34. ASSUME LoseImport PROVE Data'
  BY <1>34 DEF LoseImport, Move
<1>35. ASSUME NEW k \in cool, Expire(k) PROVE Data'
  BY <1>35 DEF Expire
<1>36. ASSUME UNCHANGED vars PROVE Data'
  BY <1>36 DEF vars
<1> QED
  BY <1>1, <1>2, <1>3, <1>4, <1>5, <1>6, <1>7, <1>8, <1>9, <1>10, <1>11, <1>12,
     <1>13, <1>14, <1>15, <1>16, <1>17, <1>18, <1>19, <1>20, <1>21, <1>22, <1>23, <1>24,
     <1>25, <1>26, <1>27, <1>28, <1>29, <1>30, <1>31, <1>32, <1>33, <1>34, <1>35, <1>36
     DEF Next, CycleStep, CallerStep, GrabStep, WorkerStep, Pass, EndDownload, Proc

LEMMA SoundFields ==
  ASSUME Procs, NEW p \in Proc
  PROVE  /\ Sound(p, proc[p]) /\ proc[p] \in ProcState /\ proc[p].then \in Then
         /\ proc[p].cached \in BOOLEAN /\ proc[p].best \in BOOLEAN
         /\ proc[p].r \in Release \union {None}
<1>1. Sound(p, proc[p])
  BY DEF Procs
<1>2. proc[p] \in ProcState
  BY <1>1 DEF Sound
<1> QED BY <1>1, <1>2 DEF ProcState

LEMMA StageSound ==
  ASSUME NEW p \in Proc, NEW pc \in Pc, pc \notin Writing, pc \notin Fetching
  PROVE  Sound(p, Stage(pc)) /\ Stage(pc).then = "end" /\ Stage(pc).pc = pc
<1>1. Stage(pc) \in ProcState
  BY DEF Stage, IdleProc, ProcState, Then, None
<1> QED BY <1>1 DEF Sound, Stage, IdleProc

LEMMA IdleSound == \A p \in Proc : Sound(p, IdleProc)
<1> SUFFICES ASSUME NEW p \in Proc PROVE Sound(p, IdleProc)
  OBVIOUS
<1>1. IdleProc \in ProcState
  BY DEF IdleProc, ProcState, Pc, Then, None
<1> QED BY <1>1 DEF IdleProc, Sound, Writing, Fetching

LEMMA GrabSound ==
  ASSUME NEW p \in Proc, NEW pc \in Pc, pc \notin Writing, NEW r \in Release \union {None},
         pc \in Fetching => r \in Release, NEW best \in BOOLEAN, NEW cached \in BOOLEAN,
         NEW then \in Then, p = Cycle \/ pc \in Outside => then # "recovery"
  PROVE  Sound(p, Grab(pc, r, best, cached, then)) /\ Grab(pc, r, best, cached, then).then = then
<1>1. Grab(pc, r, best, cached, then) \in ProcState
  BY DEF Grab, IdleProc, ProcState, None
<1> QED BY <1>1 DEF Sound, Grab, IdleProc

LEMMA SearchSound ==
  ASSUME NEW p \in Proc, NEW cached \in BOOLEAN, NEW then \in Then, p = Cycle => then # "recovery"
  PROVE  Sound(p, SearchBest(cached, then)) /\ SearchBest(cached, then).then = then
<1>1. SearchBest(cached, then) \in ProcState
  BY DEF SearchBest, Grab, IdleProc, ProcState, Pc, None
<1> QED BY <1>1 DEF Sound, SearchBest, Grab, IdleProc, Writing, Fetching, Outside

LEMMA GotoSound ==
  ASSUME NEW p \in Proc, NEW s, Sound(p, s), NEW pc \in Pc, pc \notin Outside,
         pc \in Writing => s.next \in Status, pc \in Fetching => s.r \in Release
  PROVE  Sound(p, [s EXCEPT !.pc = pc]) /\ [s EXCEPT !.pc = pc].then = s.then
<1> DEFINE t == [s EXCEPT !.pc = pc]
<1>1. s \in ProcState
  BY DEF Sound
<1>2. t \in ProcState /\ t.pc = pc /\ t.r = s.r /\ t.next = s.next /\ t.then = s.then
  BY <1>1 DEF ProcState
<1> QED BY <1>2 DEF Sound

\* A step that writes one caller and leaves the recoveries alone.
LEMMA BecomeKeeps ==
  ASSUME Inv, NEW p \in Proc, NEW s, Sound(p, s), Become(p, s), recovering' = recovering,
         proc[p].then = "recovery" => s.then = "recovery"
  PROVE  Procs' /\ NoLeakedRecovery'
<1>1. s \in ProcState /\ proc \in [Proc -> ProcState]
  BY DEF Inv, Procs, Sound
<1>2. Procs'
  BY <1>1 DEF Inv, Procs, Become
<1>3. NoLeakedRecovery'
  BY <1>1 DEF Inv, NoLeakedRecovery, Become, Proc
<1> QED BY <1>2, <1>3

\* The end of a grab: that of a recovery takes its entry away.
LEMMA ContinueKeeps ==
  ASSUME Inv, NEW p \in Proc, NEW grabbed \in BOOLEAN, Continue(p, grabbed)
  PROVE  Procs' /\ NoLeakedRecovery'
<1> DEFINE then == proc[p].then
<1>0. Procs /\ proc \in [Proc -> ProcState]
  BY DEF Inv, Procs
<1>1. /\ Sound(p, SearchBest(FALSE, "active"))
      /\ Sound(p, Stage("selected")) /\ Sound(p, Stage("failed")) /\ Sound(p, IdleProc)
  <2>1. "active" \in Then /\ "active" # "recovery" /\ FALSE \in BOOLEAN
    BY DEF Then
  <2>2. /\ {"selected", "failed"} \subseteq Pc
        /\ \A pc \in {"selected", "failed"} : pc \notin Writing /\ pc \notin Fetching
    BY DEF Pc, Writing, Fetching
  <2> QED BY <2>1, <2>2, SearchSound, StageSound, IdleSound
<1>2. PICK s : Sound(p, s) /\ Become(p, s)
  BY <1>1 DEF Continue
<1>3. CASE then = "recovery"
  <2>1. recovering' = FALSE
    BY <1>3 DEF Continue
  <2>2. s \in ProcState
    BY <1>2 DEF Sound
  <2>3. Procs'
    BY <1>0, <1>2, <2>2 DEF Procs, Become
  <2> QED BY <2>1, <2>3 DEF NoLeakedRecovery
<1>4. CASE then # "recovery"
  <2>1. recovering' = recovering
    BY <1>4 DEF Continue, Inv, Data
  <2> QED BY <1>2, <1>4, <2>1, BecomeKeeps
<1> QED BY <1>3, <1>4

LEMMA ThrowKeeps ==
  ASSUME Inv, NEW p \in Proc, Throw(p)
  PROVE  Procs' /\ NoLeakedRecovery'
<1>0. FALSE \in BOOLEAN
  OBVIOUS
<1>1. CASE proc[p].then \notin {"selected", "dropped"}
  <2>1. Continue(p, FALSE)
    BY <1>1 DEF Throw
  <2> QED BY <1>0, <2>1, ContinueKeeps
<1>2. CASE proc[p].then = "selected"
  <2>1. Become(p, SearchBest(FALSE, "dropped")) /\ recovering' = recovering
    BY <1>2 DEF Throw, Stay
  <2>2. Sound(p, SearchBest(FALSE, "dropped"))
    BY <1>0, SearchSound DEF Then
  <2> QED BY <1>2, <2>1, <2>2, BecomeKeeps
<1>3. CASE proc[p].then = "dropped"
  <2>1. Become(p, Stage("failed")) /\ recovering' = recovering
    BY <1>3 DEF Throw, Stay
  <2>2. Sound(p, Stage("failed"))
    BY StageSound DEF Pc, Writing, Fetching
  <2> QED BY <1>3, <2>1, <2>2, BecomeKeeps
<1> QED BY <1>1, <1>2, <1>3

LEMMA ProcsNext == Inv /\ [Next]_vars => Procs' /\ NoLeakedRecovery'
<1> SUFFICES ASSUME Inv, [Next]_vars PROVE Procs' /\ NoLeakedRecovery'
  OBVIOUS
<1> DEFINE Keeps == Procs' /\ NoLeakedRecovery'
<1>0. /\ Data /\ Procs
      /\ \A p \in Proc : /\ Sound(p, proc[p]) /\ proc[p] \in ProcState /\ proc[p].then \in Then
                         /\ proc[p].r \in Release \union {None}
  BY SoundFields DEF Inv
<1>c. Cycle \in Proc /\ proc[Cycle].then # "recovery" /\ FALSE \in BOOLEAN
  BY <1>0 DEF Sound, Proc
<1>s. \A pc \in {"monitored", "selected", "failed", "failLink", "idle"} : Sound(Cycle, Stage(pc))
  BY <1>c, StageSound DEF Pc, Writing, Fetching
<1>w. \A unsettled \in BOOLEAN : Sound(Cycle, Wanted(unsettled))
  <2>1. Sound(Cycle, SearchBest(TRUE, "cached"))
    BY <1>c, SearchSound DEF Then
  <2> QED BY <2>1, <1>s DEF Wanted
<1>1. ASSUME NEW p \in Proc, CheckBest(p) PROVE Keeps
  <2>1. CASE Become(p, [proc[p] EXCEPT !.pc = "showImport", !.r = ImportLink]) /\ Stay
    <3> DEFINE t == [proc[p] EXCEPT !.pc = "showImport", !.r = ImportLink]
    <3>1. ImportLink \in Release \union {None} \/ imported = None
      BY <1>0 DEF Data, ImportLink
    <3>2. ImportLink \in Release \union {None}
      BY <3>1, <1>0 DEF Data, ImportLink
    <3>3. Sound(p, t) /\ t.then = proc[p].then
      BY <3>2, <1>0 DEF Sound, ProcState, Pc, Writing, Fetching, Outside
    <3> QED BY <2>1, <3>3, BecomeKeeps DEF Stay
  <2>2. CASE Goto(p, "load") /\ Stay
    BY <2>2, <1>0, GotoSound, BecomeKeeps DEF Goto, Stay, Pc, Writing, Fetching, Outside
  <2>3. CASE Continue(p, TRUE) \/ Continue(p, FALSE)
    BY <2>3, ContinueKeeps
  <2> QED BY <1>1, <2>1, <2>2, <2>3 DEF CheckBest
<1>2. ASSUME NEW p \in Proc, ShowImport(p) PROVE Keeps
  BY <1>2, ContinueKeeps DEF ShowImport
<1>3. ASSUME NEW p \in Proc, Load(p) PROVE Keeps
  <2>1. ASSUME NEW r \in Release, Become(p, [proc[p] EXCEPT !.pc = "try", !.r = r]), Stay
        PROVE  Keeps
    <3> DEFINE t == [proc[p] EXCEPT !.pc = "try", !.r = r]
    <3>1. Sound(p, t) /\ t.then = proc[p].then
      BY <1>0 DEF Sound, ProcState, Pc, Writing, Fetching, Outside
    <3> QED BY <2>1, <3>1, BecomeKeeps DEF Stay
  <2>2. CASE Goto(p, "nothing") /\ recovering' = recovering
    BY <2>2, <1>0, GotoSound, BecomeKeeps DEF Goto, Pc, Writing, Fetching, Outside
  <2>3. CASE Continue(p, FALSE)
    BY <2>3, ContinueKeeps
  <2>4. CASE Throw(p)
    BY <2>4, ThrowKeeps
  <2> QED BY <1>3, <2>1, <2>2, <2>3, <2>4 DEF Load
<1>4. ASSUME NEW p \in Proc, Nothing(p) PROVE Keeps
  BY <1>4, ContinueKeeps DEF Nothing
<1>5. ASSUME NEW p \in Proc, CheckRelease(p) PROVE Keeps
  <2>1. ASSUME NEW next \in {"blocklisted_release", "rejected_release"},
               Become(p, [proc[p] EXCEPT !.pc = "refuse", !.next = next]), Stay
        PROVE  Keeps
    <3> DEFINE t == [proc[p] EXCEPT !.pc = "refuse", !.next = next]
    <3>1. proc[p].r \in Release
      BY <1>5, <1>0 DEF CheckRelease, At, Sound, Fetching
    <3>2. Sound(p, t) /\ t.then = proc[p].then
      BY <1>0, <3>1 DEF Sound, ProcState, Status, Pc, Writing, Fetching, Outside
    <3> QED BY <2>1, <3>2, BecomeKeeps DEF Stay
  <2>2. CASE Goto(p, "try") /\ Stay
    <3>1. proc[p].r \in Release
      BY <1>5, <1>0 DEF CheckRelease, At, Sound, Fetching
    <3> QED BY <2>2, <3>1, <1>0, GotoSound, BecomeKeeps DEF Goto, Stay, Pc, Writing, Fetching, Outside
  <2>3. CASE Continue(p, TRUE)
    BY <2>3, ContinueKeeps
  <2>4. CASE Throw(p)
    BY <2>4, ThrowKeeps
  <2> QED BY <1>5, <2>1, <2>2, <2>3, <2>4 DEF CheckRelease
<1>6. ASSUME NEW p \in Proc, Refuse(p) PROVE Keeps
  BY <1>6, ContinueKeeps DEF Refuse
<1>7. ASSUME NEW p \in Proc, Try(p) PROVE Keeps
  <2> DEFINE next == StatusFor(dl[proc[p].r])
             t == [proc[p] EXCEPT !.pc = "link", !.next = next]
             u == [proc[p] EXCEPT !.pc = "add"]
  <2>1. proc[p].r \in Release /\ next \in Status
    BY <1>7, <1>0 DEF Try, At, Sound, Fetching, StatusFor, Status
  <2>2. Sound(p, t) /\ t.then = proc[p].then
    BY <1>0, <2>1 DEF Sound, ProcState, Pc, Writing, Fetching, Outside
  <2>3. Sound(p, u) /\ u.then = proc[p].then
    BY <1>0, <2>1 DEF Sound, ProcState, Pc, Writing, Fetching, Outside
  <2>4. (Become(p, t) \/ Become(p, u)) /\ recovering' = recovering
    BY <1>7 DEF Try, Only
  <2> QED BY <2>2, <2>3, <2>4, BecomeKeeps
<1>8. ASSUME NEW p \in Proc, Add(p) PROVE Keeps
  <2> DEFINE next == StatusFor(dl[proc[p].r])
             t == [proc[p] EXCEPT !.pc = "attach", !.next = next]
             u == [proc[p] EXCEPT !.pc = "giveBack", !.next = "approved"]
  <2>1. proc[p].r \in Release /\ next \in Status
    BY <1>8, <1>0 DEF Add, At, Sound, Fetching, StatusFor, Status
  <2>2. Sound(p, t) /\ t.then = proc[p].then
    BY <1>0, <2>1 DEF Sound, ProcState, Pc, Writing, Fetching, Outside
  <2>3. Sound(p, u) /\ u.then = proc[p].then
    BY <1>0, <2>1 DEF Sound, ProcState, Status, Pc, Writing, Fetching, Outside
  <2>4. \/ (Become(p, t) \/ Become(p, u) \/ Goto(p, "blocklist")) /\ recovering' = recovering
        \/ Continue(p, FALSE)
    BY <1>8 DEF Add, Stay
  <2>5. CASE Goto(p, "blocklist") /\ recovering' = recovering
    BY <2>5, <2>1, <1>0, GotoSound, BecomeKeeps DEF Goto, Pc, Writing, Fetching, Outside
  <2>6. CASE Continue(p, FALSE)
    BY <2>6, ContinueKeeps
  <2> QED BY <2>2, <2>3, <2>4, <2>5, <2>6, BecomeKeeps
<1>9. ASSUME NEW p \in Proc, GiveBack(p) PROVE Keeps
  BY <1>9, ContinueKeeps DEF GiveBack
<1>10. ASSUME NEW p \in Proc, Attach(p) PROVE Keeps
  <2>1. proc[p].r \in Release /\ proc[p].next \in Status
    BY <1>10, <1>0 DEF Attach, At, Sound, Fetching, Writing
  <2>2. Goto(p, "link") /\ recovering' = recovering
    BY <1>10 DEF Attach, Stay
  <2> QED BY <2>1, <2>2, <1>0, GotoSound, BecomeKeeps DEF Goto, Pc, Writing, Fetching, Outside
<1>11. ASSUME NEW p \in Proc, Link(p) PROVE Keeps
  BY <1>11, ContinueKeeps DEF Link
<1>12. ASSUME NEW p \in Proc, Blocklist(p) PROVE Keeps
  <2> DEFINE t == [proc[p] EXCEPT !.pc = "giveBack", !.next = "release_failed"]
  <2>1. proc[p].r \in Release
    BY <1>12, <1>0 DEF Blocklist, At, Sound, Fetching
  <2>2. Sound(p, t) /\ t.then = proc[p].then
    BY <1>0, <2>1 DEF Sound, ProcState, Status, Pc, Writing, Fetching, Outside
  <2>3. /\ Goto(p, "exhausted") \/ Become(p, SearchBest(FALSE, proc[p].then)) \/ Become(p, t)
        /\ recovering' = recovering
    BY <1>12 DEF Blocklist, Stay
  <2>4. CASE Goto(p, "exhausted") /\ recovering' = recovering
    BY <2>4, <1>0, GotoSound, BecomeKeeps DEF Goto, Pc, Writing, Fetching, Outside
  <2>5. Sound(p, SearchBest(FALSE, proc[p].then)) /\ SearchBest(FALSE, proc[p].then).then = proc[p].then
    <3>1. FALSE \in BOOLEAN /\ (p = Cycle => proc[p].then # "recovery")
      BY <1>0 DEF Sound
    <3> QED BY <3>1, <1>0, SearchSound
  <2> QED BY <2>2, <2>3, <2>4, <2>5, BecomeKeeps
<1>13. ASSUME NEW p \in Proc, Exhausted(p) PROVE Keeps
  BY <1>13, ContinueKeeps DEF Exhausted
<1>14. ASSUME NEW c \in Caller, Unlink(c) PROVE Keeps
  <2>0. c \in Proc /\ proc[c].then # "recovery"
    BY <1>14, <1>0 DEF Unlink, At, Sound, Outside, Proc
  <2>1. (Become(c, IdleProc)) /\ recovering' = recovering
    BY <1>14 DEF Unlink
  <2> QED BY <2>0, <2>1, IdleSound, BecomeKeeps
<1>15. ASSUME NEW c \in Caller, Resolve(c) PROVE Keeps
  <2>0. c \in Proc /\ proc[c].then # "recovery"
    BY <1>15, <1>0 DEF Resolve, At, Sound, Outside, Proc
  <2>1. (Become(c, IdleProc) \/ Become(c, Stage("release"))) /\ recovering' = recovering
    BY <1>15 DEF Resolve
  <2>2. Sound(c, Stage("release"))
    BY <2>0, StageSound DEF Pc, Writing, Fetching
  <2> QED BY <2>0, <2>1, <2>2, IdleSound, BecomeKeeps
<1>16. ASSUME NEW c \in Caller, ReleaseRow(c) PROVE Keeps
  <2>0. c \in Proc /\ proc[c].then # "recovery"
    BY <1>16, <1>0 DEF ReleaseRow, At, Sound, Outside, Proc
  <2>1. CASE Become(c, SearchBest(FALSE, "recovery")) /\ recovering' = TRUE
    <3>1. c # Cycle /\ c \in Caller /\ FALSE \in BOOLEAN
      BY Apart DEF Cycle
    <3>2. Sound(c, SearchBest(FALSE, "recovery")) /\ SearchBest(FALSE, "recovery").then = "recovery"
      BY <2>0, <3>1, SearchSound DEF Then
    <3>3. SearchBest(FALSE, "recovery") \in ProcState
      BY <3>2 DEF Sound
    <3>4. Procs'
      BY <2>0, <2>1, <3>2, <3>3, <1>0 DEF Procs, Become
    <3>5. proc'[c].then = "recovery"
      BY <2>0, <2>1, <3>2, <1>0 DEF Procs, Become
    <3> QED BY <3>4, <3>5 DEF NoLeakedRecovery
  <2>2. CASE Become(c, Stage("defer")) /\ recovering' = recovering
    <3>1. Sound(c, Stage("defer"))
      BY <2>0, StageSound DEF Pc, Writing, Fetching
    <3> QED BY <2>0, <2>2, <3>1, BecomeKeeps
  <2> QED BY <1>16, <2>1, <2>2 DEF ReleaseRow
<1>17. ASSUME NEW c \in Caller, Defer(c) PROVE Keeps
  <2>0. c \in Proc /\ proc[c].then # "recovery"
    BY <1>17, <1>0 DEF Defer, At, Sound, Outside, Proc
  <2>1. (Become(c, IdleProc)) /\ recovering' = recovering
    BY <1>17 DEF Defer
  <2> QED BY <2>0, <2>1, IdleSound, BecomeKeeps
<1>18. ASSUME NEW c \in Caller, AfterImport(c) PROVE Keeps
  <2>0. c \in Proc /\ proc[c].then # "recovery"
    BY <1>18, <1>0 DEF AfterImport, At, Sound, Outside, Proc
  <2>1. (Become(c, IdleProc)) /\ recovering' = recovering
    BY <1>18 DEF AfterImport
  <2> QED BY <2>0, <2>1, IdleSound, BecomeKeeps
<1>19. ASSUME NEW c \in Caller, Upsert(c) PROVE Keeps
  <2>0. c \in Proc /\ proc[c].then # "recovery"
    BY <1>19, <1>0 DEF Upsert, At, Sound, Outside, Proc
  <2>1. (Become(c, SearchBest(FALSE, "webhook")) \/ Become(c, IdleProc)) /\ recovering' = recovering
    BY <1>19 DEF Upsert
  <2>2. FALSE \in BOOLEAN
    OBVIOUS
  <2>3. Sound(c, SearchBest(FALSE, "webhook"))
    BY <2>0, <2>2, SearchSound DEF Then
  <2> QED BY <2>0, <2>1, <2>3, IdleSound, BecomeKeeps
<1>20. ASSUME Reconcile PROVE Keeps
  <2> DEFINE next == Effective(row.status, Linked(row.link))
             t == [Stage("correct") EXCEPT !.next = next, !.clear = Dead(row.link)]
  <2>1. (Become(Cycle, Stage("monitored")) \/ Become(Cycle, t)) /\ recovering' = recovering
    BY <1>20 DEF Reconcile, Enter, Only
  <2>2. next \in Status
    BY <1>0 DEF Data, Effective, Status
  <2>3. Dead(row.link) \in BOOLEAN
    BY DEF Dead
  <2>4. t \in ProcState
    BY <2>2, <2>3 DEF Stage, IdleProc, ProcState, Pc, Then, None
  <2>5. Sound(Cycle, t)
    BY <2>2, <2>4 DEF Stage, IdleProc, Sound, Writing, Fetching, Outside
  <2> QED BY <2>1, <2>5, <1>c, <1>s, BecomeKeeps
<1>21. ASSUME Correct PROVE Keeps
  BY <1>21, <1>c, <1>s, BecomeKeeps DEF Correct, CycleWrite
<1>22. ASSUME Monitor PROVE Keeps
  <2> DEFINE unsettled == imported = None /\ Dead(row.link)
             t == [Stage("rewrite") EXCEPT !.next = Desired[1], !.clear = Desired[2], !.best = unsettled]
  <2>1. /\ Become(Cycle, Stage("selected")) \/ Become(Cycle, Wanted(unsettled)) \/ Become(Cycle, t)
        /\ recovering' = recovering
    BY <1>22 DEF Monitor, Enter, Only
  <2>2. Desired[1] \in Status /\ Desired[2] \in BOOLEAN
    BY <1>0 DEF Data, Desired, Status
  <2>3. unsettled \in BOOLEAN
    BY DEF Dead
  <2>4. t \in ProcState
    BY <2>2, <2>3 DEF Stage, IdleProc, ProcState, Pc, Then, None
  <2>5. Sound(Cycle, t)
    BY <2>2, <2>4 DEF Stage, IdleProc, Sound, Writing, Fetching, Outside
  <2> QED BY <2>1, <2>5, <1>c, <1>s, <1>w, BecomeKeeps
<1>23. ASSUME Rewrite PROVE Keeps
  <2>1. Become(Cycle, Wanted(proc[Cycle].best)) /\ recovering' = recovering
    BY <1>23 DEF Rewrite, CycleWrite
  <2>2. proc[Cycle].best \in BOOLEAN
    BY <1>0, <1>c DEF ProcState
  <2>3. Sound(Cycle, Wanted(proc[Cycle].best))
    BY <2>2, <1>w
  <2> QED BY <2>1, <2>3, <1>c, BecomeKeeps
<1>24. ASSUME Selected PROVE Keeps
  <2>1. /\ \/ Become(Cycle, Stage("failed"))
           \/ Become(Cycle, Grab("showImport", ImportLink, FALSE, FALSE, "selected"))
           \/ row.rel # None /\ Become(Cycle, Grab("checkRelease", row.rel, FALSE, FALSE, "selected"))
        /\ recovering' = recovering
    BY <1>24 DEF Selected, Enter, Only
  <2>2. ImportLink \in Release \union {None} /\ (row.rel # None => row.rel \in Release)
    BY <1>0 DEF Data, ImportLink
  <2>3. Sound(Cycle, Grab("showImport", ImportLink, FALSE, FALSE, "selected"))
    BY <2>2, <1>c DEF Sound, Grab, IdleProc, ProcState, Pc, Then, None, Writing, Fetching, Outside
  <2>4. row.rel # None => Sound(Cycle, Grab("checkRelease", row.rel, FALSE, FALSE, "selected"))
    BY <2>2, <1>c DEF Sound, Grab, IdleProc, ProcState, Pc, Then, None, Writing, Fetching, Outside
  <2> QED BY <2>1, <2>3, <2>4, <1>c, <1>s, BecomeKeeps
<1>25. ASSUME Failed PROVE Keeps
  <2>1. (Become(Cycle, Stage("failLink")) \/ Become(Cycle, Stage("idle"))) /\ recovering' = recovering
    BY <1>25 DEF Failed, Enter, Only
  <2> QED BY <2>1, <1>c, <1>s, BecomeKeeps
<1>26. ASSUME FailLink PROVE Keeps
  <2>1. Sound(Cycle, SearchBest(FALSE, "last"))
    BY <1>c, SearchSound DEF Then
  <2> QED BY <1>26, <2>1, <1>c, BecomeKeeps DEF FailLink
<1>27. ASSUME NEW c \in Caller, NEW r \in Release, FailDownload(c, r) PROVE Keeps
  <2>0. c \in Proc /\ proc[c].then # "recovery"
    BY <1>27, <1>0 DEF FailDownload, At, Sound, Outside, Proc
  <2> DEFINE t == [IdleProc EXCEPT !.pc = "unlink", !.r = r]
             u == [IdleProc EXCEPT !.pc = "resolve", !.r = r]
  <2>1. (Become(c, t) \/ Become(c, u)) /\ recovering' = recovering
    BY <1>27 DEF FailDownload
  <2>2. Sound(c, t) /\ Sound(c, u)
    BY DEF IdleProc, Sound, ProcState, Pc, Then, None, Writing, Fetching, Outside
  <2> QED BY <2>0, <2>1, <2>2, BecomeKeeps
<1>28. ASSUME NEW c \in Caller, NEW r \in Release, FinishDownload(c, r) PROVE Keeps
  <2>0. c \in Proc /\ proc[c].then # "recovery"
    BY <1>28, <1>0 DEF FinishDownload, At, Sound, Outside, Proc
  <2> DEFINE t == [IdleProc EXCEPT !.pc = "imported", !.r = r]
  <2>1. Become(c, t) /\ recovering' = recovering
    BY <1>28 DEF FinishDownload
  <2>2. Sound(c, t)
    BY DEF IdleProc, Sound, ProcState, Pc, Then, None, Writing, Fetching, Outside
  <2> QED BY <2>0, <2>1, <2>2, BecomeKeeps
<1>29. ASSUME NEW c \in Caller, UserGrab(c) PROVE Keeps
  <2>0. c \in Proc /\ proc[c].then # "recovery"
    BY <1>29, <1>0 DEF UserGrab, At, Sound, Outside, Proc
  <2>1. recovering' = recovering
    BY <1>29 DEF UserGrab
  <2>2. CASE Become(c, SearchBest(FALSE, "end"))
    <3>1. Sound(c, SearchBest(FALSE, "end"))
      BY <2>0, SearchSound DEF Then
    <3> QED BY <2>0, <2>1, <2>2, <3>1, BecomeKeeps
  <2>3. ASSUME NEW r \in Release, Become(c, Grab("checkRelease", r, FALSE, FALSE, "end")) PROVE Keeps
    <3>1. Sound(c, Grab("checkRelease", r, FALSE, FALSE, "end"))
      BY DEF Sound, Grab, IdleProc, ProcState, Pc, Then, None, Writing, Fetching, Outside
    <3> QED BY <2>0, <2>1, <2>3, <3>1, BecomeKeeps
  <2> QED BY <1>29, <2>2, <2>3 DEF UserGrab
<1>30. ASSUME NEW c \in Caller, Sync(c) PROVE Keeps
  <2>0. c \in Proc /\ proc[c].then # "recovery"
    BY <1>30, <1>0 DEF Sync, At, Sound, Outside, Proc
  <2> DEFINE live == Linked(row.link) # "absent"
             next == IF live THEN row.status ELSE "approved"
             clear == row.link # None /\ ~live
             t == [IdleProc EXCEPT !.pc = "upsert", !.next = next, !.clear = clear]
  <2>1. Become(c, t) /\ recovering' = recovering
    BY <1>30 DEF Sync
  <2>2. next \in Status /\ clear \in BOOLEAN
    BY <1>0 DEF Data, Status
  <2>3. t \in ProcState
    BY <2>2 DEF IdleProc, ProcState, Pc, Then, None
  <2>4. Sound(c, t)
    BY <2>2, <2>3 DEF IdleProc, Sound, Writing, Fetching, Outside
  <2> QED BY <2>0, <2>1, <2>4, BecomeKeeps
<1>31. ASSUME NEW c \in Caller, SoftTimeout(c) PROVE Keeps
  <2>0. c \in Proc /\ proc[c].then # "recovery"
    BY <1>31, <1>0 DEF SoftTimeout, At, Sound, Outside, Proc
  <2> DEFINE t == [proc[Cycle] EXCEPT !.then = "end"]
             u == IF proc[Cycle].then = "cached" THEN SearchBest(FALSE, "active") ELSE Stage("selected")
  <2>1. proc' = [proc EXCEPT ![c] = t, ![Cycle] = u] /\ recovering' = recovering
    BY <1>31 DEF SoftTimeout
  <2>2. Sound(c, t) /\ t \in ProcState
    BY <1>0, <1>c DEF Sound, ProcState, Then
  <2>3. Sound(Cycle, SearchBest(FALSE, "active"))
    BY <1>c, SearchSound DEF Then
  <2>4. Sound(Cycle, u) /\ u \in ProcState
    BY <2>3, <1>s DEF Sound
  <2>5. Procs'
    BY <2>0, <2>1, <2>2, <2>4, <1>0, <1>c DEF Procs
  <2>6. \A d \in Caller : proc[d].then = "recovery" => proc'[d].then = "recovery"
    BY <2>0, <2>1, <1>0, Apart DEF Procs, Cycle, Proc
  <2> QED BY <2>1, <2>5, <2>6, <1>0 DEF NoLeakedRecovery, Inv
<1>32. ASSUME NEW r \in Release, Delete(r) PROVE Keeps
  BY <1>32, <1>0 DEF Delete, Procs, NoLeakedRecovery, Inv
<1>33. ASSUME UserStatus PROVE Keeps
  BY <1>33, <1>0 DEF UserStatus, Procs, NoLeakedRecovery, Inv
<1>34. ASSUME LoseImport PROVE Keeps
  BY <1>34, <1>0 DEF LoseImport, Procs, NoLeakedRecovery, Inv
<1>35. ASSUME NEW k \in cool, Expire(k) PROVE Keeps
  BY <1>35, <1>0 DEF Expire, Procs, NoLeakedRecovery, Inv
<1>36. ASSUME UNCHANGED vars PROVE Keeps
  BY <1>36, <1>0 DEF vars, Procs, NoLeakedRecovery, Inv
<1> QED
  BY <1>1, <1>2, <1>3, <1>4, <1>5, <1>6, <1>7, <1>8, <1>9, <1>10, <1>11, <1>12,
     <1>13, <1>14, <1>15, <1>16, <1>17, <1>18, <1>19, <1>20, <1>21, <1>22, <1>23, <1>24,
     <1>25, <1>26, <1>27, <1>28, <1>29, <1>30, <1>31, <1>32, <1>33, <1>34, <1>35, <1>36
     DEF Next, CycleStep, CallerStep, GrabStep, WorkerStep, Pass, EndDownload, Proc

LEMMA SpecInv == Spec => []Inv
<1>1. Inv /\ [Next]_vars => Inv'
  BY DataNext, ProcsNext DEF Inv
<1> QED BY <1>1, InitInv, PTL DEF Spec

\* The types of the model hold in every state.
THEOREM TypeCorrect == Spec => []TypeOK
<1>1. Inv => TypeOK
  BY DEF Inv, Data, Procs, TypeOK
<1> QED BY <1>1, SpecInv, PTL

\* However many downloads of a request fail at once, the entry that turns
\* further recoveries away is gone when none is in progress.
THEOREM RecoveryEnds == Spec => []NoLeakedRecovery
<1>1. Inv => NoLeakedRecovery
  BY DEF Inv
<1> QED BY <1>1, SpecInv, PTL
=============================================================================
