-------------------------- MODULE SyncManagerProofs --------------------------
(***************************************************************************)
(* Theorems about the synchronization window, for any folders and servers, *)
(* any first settings and any number of commands and faults.               *)
(***************************************************************************)
EXTENDS SyncManager, SequenceFacts

-----------------------------------------------------------------------------
(* The invariant. *)

Alive == at \notin Defects

\* What an accepted start is about: a folder of the list, or a server.
Aimed(s) ==
    /\ s.act \in FolderJob => s.index \in 1 .. Count
    /\ s.act \notin FolderJob => s.index = 0
    /\ s.act \in Admin \ {"RESTORE"} => s.target \in Server

\* Ordinary work and an unfinished migration exclude each other; nobody edits
\* the folder that is being disconnected.
Undisturbed(s) ==
    /\ s.act \in Ordinary => journal = None /\ ~window.pending
    /\ s.act = "UNBIND" => ~window.editing

\* The job is about the folder that still has its index, and brings what its
\* action can bring.
JobInv ==
    Alive /\ job # None =>
        /\ Aimed(job) /\ Undisturbed(job)
        /\ job.act \in FolderJob => job.folder = settings.pairs[job.index]
        /\ job.act = "MIGRATE" => settings.auto = {}
        /\ job.switched => job.act \in Admin \ {"RESTORE"}
        /\ job.changes => job.act \in Compares
        /\ job.result = "TRUST" => job.host \in Server

\* A job of the timer: nobody edits, no batch is under way.
TimerInv ==
    Alive /\ job # None /\ ~job.interactive =>
        job.act = "RUN" /\ ~window.editing /\ window.batch = "NONE"

\* Where the interface thread is, and what it finds there.
PlaceInv ==
    /\ at \in {"next", "again", "closed"} => job = None
    /\ at \in {"trust", "shell"} => job # None
    /\ at = "trust" => job.at = "done" /\ job.result = "TRUST" /\ job.interactive
    /\ at = "shell" => job.at = "recycle"
    /\ at = "next" => window.batch # "NONE"
    /\ at = "again" => window.again # "NONE" /\ (window.again = "UNBIND" => ~window.editing)

\* Under an open dialog only the timer starts a job.
DialogInv ==
    /\ at \in {"next", "again", "closed", "trust", "exit"} => dialog = None /\ ~importing
    /\ dialog # None => ~importing
    /\ Alive /\ (dialog # None \/ importing) /\ job # None => ~job.interactive
    /\ Alive /\ dialog # None =>
          dialog.start.interactive /\ Aimed(dialog.start) /\ Undisturbed(dialog.start)

\* The editor is about a folder of the list, or about a new one behind it.
EditorInv ==
    Alive => /\ window.draft => window.editing /\ window.selected = Count + 1
             /\ window.editing /\ ~window.draft => window.selected \in 1 .. Count

\* The window knows of the ticket; while there is one nothing is automatic.
JournalInv ==
    Alive => /\ journal # None => settings.auto = {}
             /\ job = None /\ at \notin {"exit", "closed"} => (window.pending <=> journal # None)

\* Folders differ, and none that failed is synchronized automatically.
SettingsInv == Distinct(settings.pairs) /\ settings.auto \cap failed = {}

ManagerInv ==
    /\ TypeOK /\ JobInv /\ TimerInv /\ PlaceInv /\ DialogInv
    /\ EditorInv /\ JournalInv /\ SettingsInv /\ ComparisonsAreCurrent


-----------------------------------------------------------------------------
LEMMA TypeFacts ==
    ASSUME TypeOK
    PROVE  /\ settings.pairs \in Seq(Folder) /\ settings.auto \subseteq Folder
           /\ settings.server \in Server /\ Count \in 0 .. MaxPairs
           /\ settings = [pairs |-> settings.pairs, auto |-> settings.auto, server |-> settings.server]
           /\ window.selected \in 0 .. MaxPairs /\ window.editing \in BOOLEAN
           /\ window.draft \in BOOLEAN /\ window.batch \in Batches \union {"NONE"}
           /\ window.next \in Nat /\ window.scope \subseteq Index
           /\ window.again \in Action \union {"NONE"} /\ window.pending \in BOOLEAN
           /\ MaxPairs \in Nat \ {0}
BY ManagerAssumption DEF TypeOK, Count, Settings, Window

LEMMA JobFacts ==
    ASSUME TypeOK, job # None
    PROVE  /\ job \in Job
           /\ job.act \in Action /\ job.index \in 0 .. MaxPairs /\ job.interactive \in BOOLEAN
           /\ job.target \in Server \union {None} /\ job.server \in Server
           /\ job.folder \in Folder \union {None} /\ job.cancel \in BOOLEAN
           /\ job.at \in {"run", "recycle", "done", "silent"}
           /\ job.result \in {"NONE", "OK", "FAILED", "NETWORK", "CANCELLED", "TRUST"}
           /\ job.switched \in BOOLEAN /\ job.host \in Server \union {None}
           /\ job.changes \in BOOLEAN
BY DEF TypeOK, Job

LEMMA DialogFacts ==
    ASSUME TypeOK, dialog # None
    PROVE  /\ dialog.start \in Opening /\ dialog.from \in {"user", "again", "next"}
           /\ dialog.start.act \in Action /\ dialog.start.index \in 0 .. MaxPairs
           /\ dialog.start.interactive \in BOOLEAN
           /\ dialog.start.target \in Server \union {None}
BY DEF TypeOK, Opening

LEMMA JobCancelled ==
    ASSUME NEW j \in Job
    PROVE  LET k == [j EXCEPT !.cancel = TRUE] IN
           /\ k \in Job /\ k.cancel = TRUE /\ k.at = j.at
           /\ k.act = j.act /\ k.index = j.index /\ k.interactive = j.interactive
           /\ k.target = j.target /\ k.server = j.server /\ k.folder = j.folder
           /\ k.switched = j.switched /\ k.changes = j.changes
           /\ k.result = j.result /\ k.host = j.host
BY DEF Job

LEMMA WindowSet ==
    ASSUME NEW w \in Window, NEW n \in 0 .. MaxPairs, NEW d \in BOOLEAN, NEW e \in BOOLEAN
    PROVE  LET u == [w EXCEPT !.selected = n, !.draft = d, !.editing = e] IN
           /\ u \in Window /\ u.selected = n /\ u.draft = d /\ u.editing = e
           /\ u.pending = w.pending /\ u.batch = w.batch
BY DEF Window

\* Without a job or a dialog only the editor, the ticket and the folders count.
LEMMA Resting ==
    ASSUME at' = "loop", job' = None, dialog' = None, ~importing'
    PROVE  JobInv' /\ TimerInv' /\ PlaceInv' /\ DialogInv'
BY DEF JobInv, TimerInv, PlaceInv, DialogInv

-----------------------------------------------------------------------------
(* Commands. *)

WindowCommand == (\E i \in Index : Select(i)) \/ Edit \/ New \/ CancelDraft

LEMMA WindowCommandKeeps == ASSUME ManagerInv, WindowCommand PROVE ManagerInv'
<1>0. TypeOK /\ EditorInv /\ JournalInv /\ SettingsInv /\ ComparisonsAreCurrent
  BY DEF ManagerInv
<1>1. /\ job = None /\ dialog = None /\ ~importing /\ at = "loop" /\ acts' = acts + 1
      /\ UNCHANGED <<settings, plans, job, dialog, importing, at, journal, pins, failed, faults>>
  BY DEF WindowCommand, Select, Edit, New, CancelDraft, Idle, Enabled, Acted
<1>2. /\ window' \in Window /\ window'.pending = window.pending
      /\ window'.draft => window'.editing /\ window'.selected = Count + 1
      /\ window'.editing /\ ~window'.draft => window'.selected \in 1 .. Count
  <2>1. CASE \E i \in Index : Select(i)
    <3>1. PICK i \in 1 .. Count : ~window.editing /\ window' = [window EXCEPT !.selected = i]
      BY <2>1 DEF Select
    <3>2. i \in 0 .. MaxPairs /\ window \in Window
      BY <1>0, TypeFacts DEF TypeOK
    <3>3. /\ window' \in Window /\ window'.pending = window.pending
          /\ window'.draft = window.draft /\ window'.editing = window.editing
      BY <3>1, <3>2 DEF Window
    <3>4. ~window.draft
      BY <1>0, <1>1, <3>1 DEF EditorInv, Alive, Defects
    <3>5. QED BY <3>1, <3>3, <3>4
  <2>2. CASE Edit
    BY <1>0, <1>1, <2>2, TypeFacts DEF Edit, Window, TypeOK
  <2>3. CASE New
    <3>1. Count + 1 \in 0 .. MaxPairs /\ window \in Window
      BY <1>0, <2>3, TypeFacts DEF New, TypeOK
    <3>2. QED BY <3>1, <2>3, WindowSet, ZenonT(40) DEF New
  <2>4. CASE CancelDraft
    <3>1. (IF Count = 0 THEN 0 ELSE 1) \in 0 .. MaxPairs /\ window \in Window
      BY <1>0, TypeFacts DEF TypeOK
    <3>2. QED BY <3>1, <2>4, WindowSet DEF CancelDraft
  <2>5. QED BY <2>1, <2>2, <2>3, <2>4 DEF WindowCommand
<1>3. TypeOK'
  BY <1>0, <1>1, <1>2 DEF TypeOK, Count
<1>4. EditorInv' /\ JournalInv'
  BY <1>0, <1>1, <1>2 DEF EditorInv, JournalInv, Count, Alive, Defects
<1>5. SettingsInv' /\ ComparisonsAreCurrent'
  BY <1>0, <1>1 DEF SettingsInv, ComparisonsAreCurrent, Count
<1>6. QED
  BY <1>1, <1>3, <1>4, <1>5, Resting DEF ManagerInv

LEMMA OpenImportKeeps == ASSUME ManagerInv, OpenImport PROVE ManagerInv'
<1> USE DEF OpenImport, Idle, Enabled, Acted
<1>0. TypeOK
  BY DEF ManagerInv
<1>1. TypeOK'
  BY <1>0 DEF TypeOK, Count
<1>2. JobInv' /\ TimerInv' /\ PlaceInv' /\ DialogInv'
  BY DEF JobInv, TimerInv, PlaceInv, DialogInv
<1>3. EditorInv' /\ JournalInv'
  BY DEF ManagerInv, EditorInv, JournalInv, Count, Alive
<1>4. SettingsInv' /\ ComparisonsAreCurrent'
  BY DEF ManagerInv, SettingsInv, ComparisonsAreCurrent, Count
<1>5. QED
  BY <1>1, <1>2, <1>3, <1>4 DEF ManagerInv

LEMMA CancelKeeps == ASSUME ManagerInv, Cancel PROVE ManagerInv'
<1> USE DEF Cancel, Enabled, Acted
<1>0. TypeOK
  BY DEF ManagerInv
<1>1. /\ job' \in Job /\ job' # None
      /\ job'.act = job.act /\ job'.index = job.index /\ job'.interactive = job.interactive
      /\ job'.target = job.target /\ job'.folder = job.folder /\ job'.switched = job.switched
      /\ job'.changes = job.changes /\ job'.result = job.result /\ job'.host = job.host
  BY <1>0, JobFacts, JobCancelled, ManagerAssumption
<1>2. /\ window' \in Window /\ window'.selected = window.selected
      /\ window'.editing = window.editing /\ window'.draft = window.draft
      /\ window'.pending = window.pending /\ window'.batch = "NONE"
  BY <1>0, TypeFacts DEF TypeOK, Window, NoBatch
<1>3. TypeOK'
  BY <1>0, <1>1, <1>2 DEF TypeOK, Count
<1>4. JobInv'
  BY <1>1, <1>2 DEF ManagerInv, JobInv, Alive, Aimed, Undisturbed, Count
<1>5. TimerInv' /\ PlaceInv' /\ DialogInv'
  BY <1>1, <1>2 DEF ManagerInv, TimerInv, PlaceInv, DialogInv, Alive
<1>6. EditorInv' /\ JournalInv'
  BY <1>1, <1>2 DEF ManagerInv, EditorInv, JournalInv, Count, Alive
<1>7. SettingsInv' /\ ComparisonsAreCurrent'
  BY DEF ManagerInv, SettingsInv, ComparisonsAreCurrent, Count
<1>8. QED
  BY <1>3, <1>4, <1>5, <1>6, <1>7 DEF ManagerInv

-----------------------------------------------------------------------------
(* The worker, and the handlers that only wait for it. *)

\* What stays of a job from its start to its end.
SameWork(k, j) ==
    /\ k.act = j.act /\ k.index = j.index /\ k.interactive = j.interactive
    /\ k.target = j.target /\ k.server = j.server /\ k.folder = j.folder

LEMMA JobMoved ==
    ASSUME NEW j \in Job, NEW a \in {"run", "recycle", "done", "silent"}
    PROVE  LET k == [j EXCEPT !.at = a] IN
           /\ k \in Job /\ k.at = a /\ SameWork(k, j)
           /\ k.switched = j.switched /\ k.changes = j.changes
           /\ k.result = j.result /\ k.host = j.host
BY DEF Job, SameWork

LEMMA JobAnswered ==
    ASSUME NEW j \in Job, NEW s \in BOOLEAN, NEW c \in BOOLEAN,
           NEW r \in {"NONE", "OK", "FAILED", "NETWORK", "CANCELLED", "TRUST"}
    PROVE  LET k == [j EXCEPT !.result = r, !.switched = s, !.changes = c] IN
           /\ k \in Job /\ SameWork(k, j)
           /\ k.switched = s /\ k.changes = c /\ k.result = r /\ k.host = j.host
BY ZenonT(40) DEF Job, SameWork

LEMMA JobUntrusted ==
    ASSUME NEW j \in Job, NEW h \in Server
    PROVE  LET k == [j EXCEPT !.result = "TRUST", !.host = h] IN
           /\ k \in Job /\ SameWork(k, j)
           /\ k.switched = j.switched /\ k.changes = j.changes /\ k.result = "TRUST" /\ k.host = h
BY DEF Job, SameWork

LEMMA WriteJournalKeeps == ASSUME ManagerInv, WriteJournal PROVE ManagerInv'
<1> USE DEF WriteJournal, Running
<1>0. TypeOK
  BY DEF ManagerInv
<1>1. TypeOK'
  <2>1. journal' \in Ticket
    BY <1>0, JobFacts DEF ManagerInv, JobInv, Alive, Aimed, Admin, Ticket
  <2>2. QED BY <1>0, <2>1 DEF TypeOK, Count
<1>2. JobInv' /\ TimerInv' /\ PlaceInv'
  BY DEF ManagerInv, JobInv, TimerInv, PlaceInv, Alive, Aimed, Undisturbed, Count, Ordinary, FolderJob, Compares
<1>3. DialogInv'
  BY <1>0, JobFacts DEF ManagerInv, DialogInv, TimerInv, Alive
<1>4. EditorInv' /\ JournalInv'
  BY DEF ManagerInv, EditorInv, JournalInv, JobInv, Count, Alive
<1>5. SettingsInv' /\ ComparisonsAreCurrent'
  BY DEF ManagerInv, SettingsInv, ComparisonsAreCurrent, Count
<1>6. QED
  BY <1>1, <1>2, <1>3, <1>4, <1>5 DEF ManagerInv

\* A job that goes on with its work leaves the rest as it is.
Progress ==
    /\ job # None /\ job' \in Job /\ SameWork(job', job)
    /\ job'.switched => job.act \in Admin \ {"RESTORE"}
    /\ job'.changes => job.act \in Compares
    /\ job'.result = "TRUST" => job'.host \in Server
    /\ journal' = journal \/ journal' = None
    /\ at \notin Defects /\ at' \notin Defects /\ faults' \in Nat
    /\ at' \in {"exit", "trust"} => at' = at
    /\ at' = "trust" => job'.at = "done" /\ job'.result = "TRUST"
    /\ at' = "shell" => job'.at = "recycle"
    /\ at' \in {"loop", "exit", "trust", "shell"}
    /\ UNCHANGED <<settings, window, plans, dialog, importing, pins, failed, acts>>

LEMMA ProgressKeeps == ASSUME ManagerInv, Progress PROVE ManagerInv'
<1> USE DEF Progress, SameWork
<1>0. TypeOK /\ job' # None
  BY ManagerAssumption DEF ManagerInv
<1>1. TypeOK'
  BY <1>0 DEF TypeOK, Count
<1>2. JobInv'
  BY <1>0 DEF ManagerInv, JobInv, Alive, Aimed, Undisturbed, Count
<1>3. TimerInv'
  BY <1>0 DEF ManagerInv, TimerInv, Alive
<1>4. PlaceInv'
  BY <1>0 DEF ManagerInv, PlaceInv
<1>5. DialogInv'
  BY <1>0 DEF ManagerInv, DialogInv, Alive, Aimed, Undisturbed, Count
<1>6. EditorInv' /\ JournalInv'
  BY <1>0 DEF ManagerInv, EditorInv, JournalInv, Count, Alive
<1>7. SettingsInv' /\ ComparisonsAreCurrent'
  BY DEF ManagerInv, SettingsInv, ComparisonsAreCurrent, Count
<1>8. QED
  BY <1>1, <1>2, <1>3, <1>4, <1>5, <1>6, <1>7 DEF ManagerInv

LEMMA AskRecycleKeeps == ASSUME ManagerInv, AskRecycle PROVE ManagerInv'
<1>0. TypeOK /\ job # None /\ job.at = "run" /\ at \notin Defects
  BY DEF ManagerInv, AskRecycle, Running
<1>1. at \in {"loop", "exit"}
  BY <1>0 DEF TypeOK, ManagerInv, PlaceInv
<1>2. Progress
  BY <1>0, <1>1, JobFacts, JobMoved DEF AskRecycle, Progress, ManagerInv, JobInv, Alive, TypeOK
<1>3. QED BY <1>2, ProgressKeeps

LEMMA RecycleKeeps == ASSUME ManagerInv, Recycle \/ ShellReturns PROVE ManagerInv'
<1>0. TypeOK /\ job # None
  BY DEF ManagerInv, PlaceInv, Recycle, ShellReturns
<1>1. CASE /\ job' = [job EXCEPT !.at = "run"]
           /\ at \in {"loop", "exit", "shell"} /\ at' = IF at = "shell" THEN "loop" ELSE at
  <2>1. at' \in {"loop", "exit"} /\ (at' = "exit" => at = "exit") /\ at \notin Defects
    BY <1>1 DEF Defects
  <2>2. UNCHANGED <<settings, window, plans, dialog, importing, journal, pins, failed, acts, faults>>
    BY DEF Recycle, ShellReturns
  <2>3. Progress
    BY <1>0, <1>1, <2>1, <2>2, JobFacts, JobMoved DEF Progress, ManagerInv, JobInv, Alive, TypeOK, Defects
  <2>4. QED BY <2>3, ProgressKeeps
<1>2. CASE job' = job /\ at' = "shell" /\ job.at = "recycle" /\ at \in {"loop", "exit"}
  <2>1. UNCHANGED <<settings, window, plans, dialog, importing, journal, pins, failed, acts, faults>>
    BY DEF Recycle, ShellReturns
  <2>2. Progress
    BY <1>0, <1>2, <2>1, JobFacts DEF Progress, SameWork, ManagerInv, JobInv, Alive, TypeOK, Defects
  <2>3. QED BY <2>2, ProgressKeeps
<1>3. QED BY <1>1, <1>2 DEF Recycle, ShellReturns

LEMMA AskTrustKeeps == ASSUME ManagerInv, AskTrust PROVE ManagerInv'
<1> USE DEF AskTrust, Untrusted
<1>0. TypeOK
  BY DEF ManagerInv
<1>1. TypeOK'
  BY <1>0 DEF TypeOK, Count
<1>2. JobInv' /\ TimerInv' /\ PlaceInv'
  BY DEF ManagerInv, JobInv, TimerInv, PlaceInv, Alive, Aimed, Undisturbed, Count, Defects
<1>3. DialogInv'
  BY <1>0, JobFacts DEF ManagerInv, DialogInv, Alive, Defects, TypeOK
<1>4. EditorInv' /\ JournalInv'
  BY DEF ManagerInv, EditorInv, JournalInv, Count, Alive, Defects
<1>5. SettingsInv' /\ ComparisonsAreCurrent'
  BY DEF ManagerInv, SettingsInv, ComparisonsAreCurrent, Count, Defects
<1>6. QED
  BY <1>1, <1>2, <1>3, <1>4, <1>5 DEF ManagerInv

LEMMA ReturnKeeps == ASSUME ManagerInv, Return PROVE ManagerInv'
<1>0. /\ TypeOK /\ job # None /\ job.at = "run" /\ at \notin Defects
      /\ UNCHANGED <<settings, window, plans, dialog, importing, at, pins, failed, acts>>
  BY DEF ManagerInv, Return, Running
<1>1. at \in {"loop", "exit"}
  BY <1>0 DEF TypeOK, ManagerInv, PlaceInv
<1>2. ASSUME NEW done \in Job, Answer(done), SameWork(done, job),
             done.switched => job.act \in Admin \ {"RESTORE"},
             done.changes => job.act \in Compares,
             done.result = "TRUST" => done.host \in Server
      PROVE  Progress
  <2>1. PICK a \in {"done", "silent"} : job' = [done EXCEPT !.at = a]
    BY <1>2 DEF Answer
  <2>2. /\ job' \in Job /\ SameWork(job', done) /\ job'.switched = done.switched
        /\ job'.changes = done.changes /\ job'.result = done.result /\ job'.host = done.host
    <3>1. a \in {"run", "recycle", "done", "silent"}
      OBVIOUS
    <3>2. QED BY <1>2, <2>1, <3>1, JobMoved
  <2>3. faults' \in Nat /\ (journal' = journal \/ journal' = None)
    BY <1>0, <1>2 DEF Answer, Fault, TypeOK
  <2>4. QED BY <1>0, <1>1, <1>2, <2>2, <2>3 DEF Progress, SameWork
<1>3. ASSUME \E r \in Results : \E s \in Switches(r), c \in Changes(r) :
                Answer([job EXCEPT !.result = r, !.switched = s, !.changes = c])
      PROVE  Progress
  <2>1. PICK r \in Results : \E s \in Switches(r), c \in Changes(r) :
              Answer([job EXCEPT !.result = r, !.switched = s, !.changes = c])
    BY <1>3
  <2>2. PICK s \in Switches(r), c \in Changes(r) :
              Answer([job EXCEPT !.result = r, !.switched = s, !.changes = c])
    BY <2>1
  <2>3. r \in {"OK", "FAILED", "NETWORK", "CANCELLED"}
    BY DEF Results
  <2>4. s \in BOOLEAN /\ (s => job.act \in Admin \ {"RESTORE"})
    <3>1. CASE r # "OK"
      BY <2>2, <3>1 DEF Switches
    <3>2. CASE r = "OK" /\ job.act = "DEPLOY"
      BY <2>2, <3>2 DEF Switches, Admin
    <3>3. CASE r = "OK" /\ job.act # "DEPLOY"
      <4>1. s = (job.act \in {"ATTACH", "MIGRATE"})
        BY <2>2, <3>3 DEF Switches
      <4>2. CASE job.act \in {"ATTACH", "MIGRATE"}
        BY <4>2 DEF Admin, Switches
      <4>3. CASE job.act \notin {"ATTACH", "MIGRATE"}
        <5>1. (job.act \in {"ATTACH", "MIGRATE"}) = FALSE
          BY <4>3
        <5>2. s = FALSE
          BY <4>1, <5>1
        <5>3. QED BY <5>2
      <4>4. QED BY <4>2, <4>3
    <3>4. QED BY <3>1, <3>2, <3>3
  <2>5. c \in BOOLEAN /\ (c => job.act \in Compares)
    BY DEF Changes
  <2>6. PICK done : done = [job EXCEPT !.result = r, !.switched = s, !.changes = c]
    OBVIOUS
  <2>7. /\ done \in Job /\ SameWork(done, job)
        /\ done.switched = s /\ done.changes = c /\ done.result = r
    <3>1. job \in Job
      BY <1>0, JobFacts
    <3>2. s \in BOOLEAN
      BY <2>4
    <3>3. c \in BOOLEAN
      BY <2>5
    <3>4. r \in {"NONE", "OK", "FAILED", "NETWORK", "CANCELLED", "TRUST"}
      BY <2>3
    <3>5. QED BY <2>6, <3>1, <3>2, <3>3, <3>4, ZenonT(40) DEF Job, SameWork
  <2>8. Answer(done)
    BY <2>2, <2>6 DEF Answer
  <2>9. /\ done.switched => job.act \in Admin \ {"RESTORE"}
        /\ done.changes => job.act \in Compares
    BY <2>4, <2>5, <2>7
  <2>10. done.result # "TRUST"
    BY <2>3, <2>7
  <2>11. QED BY <1>2, <2>7, <2>8, <2>9, <2>10
<1>4. ASSUME \E host \in Endpoints \ pins :
                Answer([job EXCEPT !.result = "TRUST", !.host = host])
      PROVE  Progress
  <2>1. PICK host \in Endpoints \ pins : Answer([job EXCEPT !.result = "TRUST", !.host = host])
    BY <1>4
  <2>2. host \in Server
    BY <1>0, JobFacts DEF Endpoints
  <2>3. /\ job.switched => job.act \in Admin \ {"RESTORE"}
        /\ job.changes => job.act \in Compares
    BY <1>0 DEF ManagerInv, JobInv, Alive
  <2>4. PICK done : done = [job EXCEPT !.result = "TRUST", !.host = host]
    OBVIOUS
  <2>5. /\ done \in Job /\ SameWork(done, job) /\ done.switched = job.switched
        /\ done.changes = job.changes /\ done.host = host
    BY <1>0, <2>2, <2>4, JobFacts, JobUntrusted, ZenonT(40)
  <2>6. Answer(done)
    BY <2>1, <2>4 DEF Answer
  <2>7. QED BY <1>2, <2>2, <2>3, <2>5, <2>6
<1>5. Progress
  BY <1>3, <1>4 DEF Return
<1>6. QED BY <1>5, ProgressKeeps

-----------------------------------------------------------------------------
(* Leaving and opening the window. *)

LEMMA ShutKeeps == ASSUME ManagerInv, Shut, Alive, UNCHANGED <<settings, window, journal, pins, failed, acts, faults>>
                   PROVE ManagerInv'
<1> USE DEF Shut
<1>0. TypeOK
  BY DEF ManagerInv
<1>1. TypeOK'
  BY <1>0 DEF TypeOK, Count, NoPlans
<1>2. JobInv' /\ TimerInv' /\ PlaceInv' /\ DialogInv'
  BY DEF JobInv, TimerInv, PlaceInv, DialogInv
<1>3. EditorInv' /\ JournalInv' /\ SettingsInv'
  BY DEF ManagerInv, EditorInv, JournalInv, SettingsInv, Count, Alive
<1>5. ComparisonsAreCurrent'
  BY DEF ComparisonsAreCurrent, NoPlans
<1>6. QED
  BY <1>1, <1>2, <1>3, <1>5 DEF ManagerInv

LEMMA ExitKeeps == ASSUME ManagerInv, Exit \/ ExitDone PROVE ManagerInv'
<1>0. /\ TypeOK
      /\ UNCHANGED <<settings, window, journal, pins, failed, acts, faults>>
  BY DEF ManagerInv, Exit, ExitDone
<1>1. CASE Shut /\ Alive
  BY <1>0, <1>1, ShutKeeps
<1>2. CASE /\ at = "loop" /\ job # None /\ job' = [job EXCEPT !.cancel = TRUE]
           /\ dialog' = None /\ importing' = FALSE /\ at' = "exit" /\ plans' = plans
  <2>1. /\ job' \in Job /\ job' # None /\ SameWork(job', job) /\ job'.switched = job.switched
        /\ job'.changes = job.changes /\ job'.result = job.result /\ job'.host = job.host
    BY <1>0, <1>2, JobFacts, JobCancelled, ManagerAssumption DEF SameWork
  <2>2. TypeOK'
    BY <1>0, <1>2, <2>1 DEF TypeOK, Count
  <2>3. JobInv' /\ TimerInv'
    BY <1>0, <1>2, <2>1 DEF ManagerInv, JobInv, TimerInv, Alive, Aimed, Undisturbed, Count, Defects, SameWork
  <2>4. PlaceInv' /\ DialogInv'
    BY <1>2 DEF PlaceInv, DialogInv
  <2>5. EditorInv' /\ JournalInv' /\ SettingsInv' /\ ComparisonsAreCurrent'
    BY <1>0, <1>2 DEF ManagerInv, EditorInv, JournalInv, SettingsInv, ComparisonsAreCurrent, Count, Alive, Defects
  <2>6. QED
    BY <2>2, <2>3, <2>4, <2>5 DEF ManagerInv
<1>3. CASE at' \in Defects /\ UNCHANGED <<job, dialog, importing, plans>>
  <2>1. TypeOK'
    BY <1>0, <1>3 DEF TypeOK, Count
  <2>2. JobInv' /\ TimerInv' /\ PlaceInv' /\ EditorInv' /\ JournalInv' /\ ComparisonsAreCurrent'
    BY <1>3 DEF JobInv, TimerInv, PlaceInv, EditorInv, JournalInv, ComparisonsAreCurrent, Alive, Defects
  <2>3. DialogInv' /\ SettingsInv'
    BY <1>0, <1>3 DEF ManagerInv, DialogInv, SettingsInv, Alive, Defects
  <2>4. QED
    BY <2>1, <2>2, <2>3 DEF ManagerInv
<1>4. QED BY <1>1, <1>2, <1>3 DEF Exit, ExitDone, Alive, Defects

LEMMA FreshWindow ==
    ASSUME NEW pairs \in Seq(Folder)
    PROVE  /\ Fresh(pairs) \in Window /\ Fresh(pairs).pending = (journal # None)
           /\ ~Fresh(pairs).draft /\ ~Fresh(pairs).editing
BY ManagerAssumption DEF Fresh, Window

LEMMA OpenKeeps == ASSUME ManagerInv, Open PROVE ManagerInv'
<1> USE DEF Open, Acted
<1>0. TypeOK /\ settings.pairs \in Seq(Folder)
  BY TypeFacts DEF ManagerInv
<1>1. TypeOK'
  BY <1>0, FreshWindow DEF TypeOK, Count
<1>2. job = None /\ dialog = None /\ ~importing
  BY DEF ManagerInv, PlaceInv, DialogInv
<1>3. EditorInv' /\ JournalInv'
  BY <1>0, FreshWindow DEF ManagerInv, EditorInv, JournalInv, Count, Alive, Defects
<1>4. SettingsInv' /\ ComparisonsAreCurrent'
  BY DEF ManagerInv, SettingsInv, ComparisonsAreCurrent, Count, Defects
<1>5. QED
  BY <1>1, <1>2, <1>3, <1>4, Resting DEF ManagerInv

-----------------------------------------------------------------------------
(* The comparisons that a handler drops. *)

LEMMA Forgotten ==
    ASSUME TypeOK, SettingsInv, ComparisonsAreCurrent, Alive, NEW k \in Index, NEW f,
           k \in 1 .. Count => f = settings.pairs[k],
           k \notin 1 .. Count => f \notin Range(settings.pairs)
    PROVE  LET p == Invalidated(Outdated({f}), {k}) IN
           /\ p \in [Index -> Plan \union {None}]
           /\ \A i \in Index : p[i] # None => /\ i # k /\ i <= Count /\ p[i] = plans[i]
                                              /\ plans[i].of = settings.pairs[i] /\ plans[i].current
<1> DEFINE p == Invalidated(Outdated({f}), {k})
<1>1. ASSUME NEW i \in Index, plans[i] # None, i # k PROVE p[i] = plans[i]
  <2>1. i \in 1 .. Count /\ plans[i].of = settings.pairs[i]
    BY <1>1, ManagerAssumption DEF ComparisonsAreCurrent, Alive, Index
  <2>2. settings.pairs[i] # f
    <3>1. settings.pairs \in Seq(Folder) /\ Count = Len(settings.pairs)
      BY TypeFacts DEF Count
    <3>2. CASE k \in 1 .. Count
      BY <1>1, <2>1, <3>1, <3>2 DEF SettingsInv, Distinct
    <3>3. CASE k \notin 1 .. Count
      BY <2>1, <3>1, <3>3 DEF Range
    <3>4. QED BY <3>2, <3>3
  <2>3. QED BY <1>1, <2>1, <2>2 DEF Invalidated, Outdated
<1>2. ASSUME NEW i \in Index, plans[i] = None PROVE p[i] = None
  BY <1>2 DEF Invalidated, Outdated
<1>3. p[k] = None
  BY DEF Invalidated
<1>4. p = [i \in Index |-> p[i]]
  BY DEF Invalidated
<1> HIDE DEF p
<1>5. ASSUME NEW i \in Index PROVE p[i] \in Plan \union {None}
  BY <1>1, <1>2, <1>3 DEF TypeOK
<1>6. ASSUME NEW i \in Index, p[i] # None
      PROVE  /\ i # k /\ i <= Count /\ p[i] = plans[i]
             /\ plans[i].of = settings.pairs[i] /\ plans[i].current
  <2>1. i # k /\ plans[i] # None
    BY <1>2, <1>3, <1>6
  <2>2. QED BY <1>1, <2>1 DEF ComparisonsAreCurrent, Alive
<1>7. QED BY <1>4, <1>5, <1>6 DEF p

LEMMA AllForgotten ==
    ASSUME TypeOK, ComparisonsAreCurrent, Alive, NEW S, 1 .. Count \subseteq S
    PROVE  LET p == Invalidated(Outdated(Folder), S) IN
           /\ p \in [Index -> Plan \union {None}] /\ \A i \in Index : p[i] = None
<1> DEFINE p == Invalidated(Outdated(Folder), S)
<1>1. ASSUME NEW i \in Index PROVE p[i] = None
  <2>1. CASE i \in S
    BY <2>1 DEF Invalidated
  <2>2. CASE i \notin S
    <3>1. ~ (i <= Count)
      BY <2>2, TypeFacts DEF Index
    <3>2. plans[i] = None
      BY <3>1 DEF ComparisonsAreCurrent, Alive
    <3>3. QED BY <2>2, <3>2 DEF Invalidated, Outdated
  <2>3. QED BY <2>1, <2>2
<1>2. p = [i \in Index |-> p[i]]
  BY DEF Invalidated
<1> HIDE DEF p
<1>3. QED BY <1>1, <1>2 DEF p

-----------------------------------------------------------------------------
(* The commands that save the settings. *)



\* Removing folders from automatic work keeps the rest of the settings.
LEMMA SettingsAuto ==
    ASSUME TypeOK, NEW S, S \subseteq Folder
    PROVE  LET t == [settings EXCEPT !.auto = S] IN
           t \in Settings /\ t.pairs = settings.pairs /\ t.auto = S /\ t.server = settings.server
BY TypeFacts DEF TypeOK, Settings

LEMMA SettingsPaused ==
    ASSUME TypeOK
    PROVE  LET t == [settings EXCEPT !.auto = {}] IN
           t \in Settings /\ t.pairs = settings.pairs /\ t.auto = {} /\ t.server = settings.server
BY TypeFacts DEF TypeOK, Settings

LEMMA SettingsPairs ==
    ASSUME TypeOK, NEW q \in Seq(Folder)
    PROVE  LET t == [settings EXCEPT !.pairs = q] IN
           t \in Settings /\ t.pairs = q /\ t.auto = settings.auto /\ t.server = settings.server
BY TypeFacts DEF TypeOK, Settings

LEMMA ToggleKeeps == ASSUME ManagerInv, Toggle PROVE ManagerInv'
<1> USE DEF Toggle, Idle, Enabled, Acted
<1> DEFINE f == settings.pairs[window.selected]
           S == IF f \in settings.auto THEN settings.auto \ {f} ELSE settings.auto \union {f}
<1>0. TypeOK
  BY DEF ManagerInv
<1>1. f \in Folder /\ S \subseteq Folder /\ S \intersect (failed \ {f}) = {}
      /\ settings.auto \intersect (failed \ {f}) = {}
  BY <1>0, TypeFacts DEF Count, ManagerInv, SettingsInv
<1>2. Persist([settings EXCEPT !.auto = S]) /\ failed' = failed \ {f}
  OBVIOUS
<1> HIDE DEF f, S
<1>3. /\ settings' \in Settings /\ settings'.pairs = settings.pairs /\ faults' \in Nat
      /\ settings'.auto \in {S, settings.auto}
  <2>1. faults' \in Nat /\ (settings' = [settings EXCEPT !.auto = S] \/ settings' = settings)
    BY <1>0, <1>2 DEF Persist, Fault, TypeOK
  <2>2. QED BY <1>0, <1>1, <2>1, SettingsAuto, ZenonT(40) DEF TypeOK
<1>4. TypeOK'
  BY <1>0, <1>2, <1>3 DEF TypeOK, Count
<1>5. EditorInv' /\ JournalInv'
  BY <1>0, <1>3 DEF ManagerInv, EditorInv, JournalInv, Count, Alive, Defects
<1>6. SettingsInv' /\ ComparisonsAreCurrent'
  BY <1>1, <1>2, <1>3 DEF ManagerInv, SettingsInv, ComparisonsAreCurrent, Count
<1>7. QED
  BY <1>4, <1>5, <1>6, Resting DEF ManagerInv

LEMMA SaveKeeps == ASSUME ManagerInv, NEW f \in Folder, Save(f) PROVE ManagerInv'
<1> USE DEF Save, Idle, Enabled, Acted
<1>0. /\ TypeOK /\ SettingsInv /\ ComparisonsAreCurrent /\ Alive /\ EditorInv /\ JournalInv
      /\ job = None /\ dialog = None /\ ~importing /\ window.editing
      /\ settings.pairs \in Seq(Folder) /\ Count = Len(settings.pairs) /\ Count \in 0 .. MaxPairs
      /\ window \in Window /\ faults \in Nat /\ acts' \in Nat
  BY TypeFacts DEF ManagerInv, Alive, Defects, Count, TypeOK
<1>1. /\ window.selected \in Index
      /\ window.draft => window.selected = Count + 1 /\ f \notin Range(settings.pairs)
      /\ ~window.draft => window.selected \in 1 .. Count /\ f = settings.pairs[window.selected]
  BY <1>0, TypeFacts DEF EditorInv, Index
<1>2. CASE faults' = faults
  <2>1. /\ settings' = Saved(f) /\ at' = "again"
        /\ window' = [window EXCEPT !.draft = FALSE, !.editing = FALSE, !.again = "BIND"]
        /\ plans' = Invalidated(Outdated({f}), {window.selected})
    BY <1>0, <1>2 DEF Persist, Fault
  <2>2. /\ settings' \in Settings /\ settings'.auto \subseteq settings.auto
        /\ Len(settings'.pairs) <= MaxPairs /\ Count <= Len(settings'.pairs)
        /\ \A i \in 1 .. Count : settings'.pairs[i] = settings.pairs[i]
        /\ Distinct(settings'.pairs)
    <3>1. CASE window.draft
      <4>1. /\ settings'.pairs = Append(settings.pairs, f) /\ settings'.auto = settings.auto
            /\ settings' \in Settings
        <5>1. Append(settings.pairs, f) \in Seq(Folder)
          BY <1>0
        <5>2. settings' = [settings EXCEPT !.pairs = Append(settings.pairs, f)]
          BY <2>1, <3>1 DEF Saved, WithDraft
        <5>3. QED BY <1>0, <5>1, <5>2, SettingsPairs
      <4>2. /\ Len(settings'.pairs) = Count + 1 /\ settings'.pairs[Count + 1] = f
            /\ \A i \in 1 .. Count : settings'.pairs[i] = settings.pairs[i]
        BY <1>0, <4>1
      <4>3. \A i \in 1 .. Count : settings.pairs[i] # f
        BY <1>0, <1>1, <3>1 DEF Range
      <4>4. Distinct(settings'.pairs)
        <5>1. DOMAIN settings'.pairs = 1 .. Count + 1
          BY <1>0, <4>1, <4>2
        <5>2. \A i, j \in 1 .. Count : settings.pairs[i] = settings.pairs[j] => i = j
          BY <1>0 DEF SettingsInv, Distinct
        <5>3. QED BY <1>0, <4>2, <4>3, <5>1, <5>2, SMTT(20) DEF Distinct
      <4>5. QED BY <1>0, <1>1, <3>1, <4>1, <4>2, <4>4, TypeFacts DEF Index
    <3>2. CASE ~window.draft
      <4>1. settings.auto \ {f} \subseteq Folder
        BY <1>0, TypeFacts
      <4>2. /\ settings' \in Settings /\ settings'.pairs = settings.pairs
            /\ settings'.auto = settings.auto \ {f}
        BY <1>0, <2>1, <3>2, <4>1, SettingsAuto DEF Saved, WithPath
      <4>3. QED BY <1>0, <4>2 DEF SettingsInv
    <3>3. QED BY <3>1, <3>2
  <2>3. /\ plans' \in [Index -> Plan \union {None}]
        /\ \A i \in Index : plans'[i] # None =>
              /\ i <= Count /\ plans'[i].of = settings.pairs[i] /\ plans'[i].current
    <3>1. /\ window.selected \in 1 .. Count => f = settings.pairs[window.selected]
          /\ window.selected \notin 1 .. Count => f \notin Range(settings.pairs)
      BY <1>0, <1>1
    <3>5. PICK k : k = window.selected
      OBVIOUS
    <3> DEFINE p == Invalidated(Outdated({f}), {k})
    <3>6. /\ TypeOK /\ SettingsInv /\ ComparisonsAreCurrent /\ Alive /\ k \in Index
          /\ k \in 1 .. Count => f = settings.pairs[k]
          /\ k \notin 1 .. Count => f \notin Range(settings.pairs)
      BY <1>0, <1>1, <3>1, <3>5
    <3>2. /\ p \in [Index -> Plan \union {None}]
          /\ \A i \in Index : p[i] # None => /\ i # k /\ i <= Count /\ p[i] = plans[i]
                                             /\ plans[i].of = settings.pairs[i] /\ plans[i].current
      BY <3>6, Forgotten, ZenonT(60)
    <3>3. plans' = p
      BY <2>1, <3>5
    <3> HIDE DEF p
    <3>4. QED BY <3>2, <3>3
  <2>4. /\ window' \in Window /\ window'.pending = window.pending /\ window'.again = "BIND"
        /\ ~window'.draft /\ ~window'.editing
    BY <1>0, <2>1 DEF Window, Action, Ordinary, FolderJob
  <2>5. TypeOK'
    BY <1>0, <1>2, <2>1, <2>2, <2>3, <2>4 DEF TypeOK, Count
  <2>6. JobInv' /\ TimerInv' /\ PlaceInv' /\ DialogInv'
    BY <1>0, <2>1, <2>4 DEF JobInv, TimerInv, PlaceInv, DialogInv
  <2>7. EditorInv' /\ JournalInv'
    BY <1>0, <2>1, <2>2, <2>4 DEF EditorInv, JournalInv, Alive
  <2>8. SettingsInv'
    BY <1>0, <2>2 DEF SettingsInv
  <2>9. ComparisonsAreCurrent'
    BY <1>0, <2>2, <2>3 DEF ComparisonsAreCurrent, Count, Index
  <2>10. QED BY <2>5, <2>6, <2>7, <2>8, <2>9 DEF ManagerInv
<1>3. CASE faults' # faults
  <2>1. UNCHANGED <<settings, window, plans, at, job, dialog, importing, journal, pins, failed>> /\ faults' \in Nat
    BY <1>0, <1>3 DEF Persist, Fault
  <2>2. TypeOK'
    BY <1>0, <2>1 DEF TypeOK, Count
  <2>3. EditorInv' /\ JournalInv' /\ SettingsInv' /\ ComparisonsAreCurrent'
    BY <1>0, <2>1 DEF EditorInv, JournalInv, SettingsInv, ComparisonsAreCurrent, Count, Alive
  <2>4. QED BY <1>0, <2>1, <2>2, <2>3, Resting DEF ManagerInv
<1>4. QED BY <1>2, <1>3

-----------------------------------------------------------------------------
(* Starting a job. *)

\* The start leaves the editor and the ticket alone, and at most ends a batch.
SameView ==
    /\ window' \in Window /\ window'.selected = window.selected /\ window'.draft = window.draft
    /\ window'.editing = window.editing /\ window'.pending = window.pending
    /\ window'.batch \in {window.batch, "NONE"}

LEMMA ViewSteps ==
    ASSUME NEW w \in Window, NEW n \in Nat
    PROVE  /\ [w EXCEPT !.next = n] \in Window /\ NoBatch(w) \in Window
           /\ [w EXCEPT !.again = "NONE"] \in Window
           /\ NoBatch(w).selected = w.selected /\ NoBatch(w).draft = w.draft
           /\ NoBatch(w).editing = w.editing /\ NoBatch(w).pending = w.pending
           /\ NoBatch(w).batch = "NONE"
BY DEF Window, NoBatch

\* What start_job has checked before it shows a dialog.
Wanted(s) ==
    /\ s \in Opening /\ Aimed(s) /\ Undisturbed(s)

LEMMA NewJobFacts ==
    ASSUME TypeOK, NEW s \in Opening, Aimed(s)
    PROVE  LET j == NewJob(s) IN
           /\ j \in Job /\ j.act = s.act /\ j.index = s.index /\ j.interactive = s.interactive
           /\ j.target = s.target /\ j.at = "run" /\ j.result = "NONE"
           /\ j.switched = FALSE /\ j.changes = FALSE
           /\ s.act \in FolderJob => j.folder = settings.pairs[s.index]
<1>0. /\ s.act \in Action /\ s.index \in 0 .. MaxPairs /\ s.interactive \in BOOLEAN
      /\ s.target \in Server \union {None} /\ settings.server \in Server
  BY TypeFacts DEF Opening
<1>1. (IF s.index > 0 THEN settings.pairs[s.index] ELSE None) \in Folder \union {None}
  BY <1>0, TypeFacts DEF Aimed, Count
<1>2. s.act \in FolderJob => s.index > 0
  BY <1>0 DEF Aimed
<1>3. PICK f : f = IF s.index > 0 THEN settings.pairs[s.index] ELSE None
  OBVIOUS
<1>4. NewJob(s) = [act |-> s.act, index |-> s.index, interactive |-> s.interactive,
                   target |-> s.target, server |-> settings.server, folder |-> f,
                   cancel |-> FALSE, at |-> "run", result |-> "NONE", switched |-> FALSE,
                   host |-> None, changes |-> FALSE]
  BY <1>3 DEF NewJob
<1>5. QED BY <1>0, <1>1, <1>2, <1>3, <1>4 DEF Job

LEMMA LaunchKeeps ==
    ASSUME ManagerInv, at \in {"loop", "next", "again"}, job = None, NEW s, Wanted(s), Launch(s), SameView,
           ~s.interactive => s.act = "RUN" /\ ~window.editing /\ window'.batch = "NONE",
           s.interactive => dialog' = None /\ ~importing,
           dialog' \in {dialog, None}, acts' \in Nat
    PROVE  ManagerInv'
<1>0. /\ TypeOK /\ SettingsInv /\ ComparisonsAreCurrent /\ DialogInv /\ EditorInv /\ JournalInv
      /\ s \in Opening /\ Aimed(s) /\ Undisturbed(s)
      /\ settings.pairs \in Seq(Folder) /\ Count = Len(settings.pairs) /\ Count \in 0 .. MaxPairs
  BY TypeFacts DEF ManagerInv, Wanted, Count
<1>1. /\ job' \in Job /\ job' # None /\ job'.act = s.act /\ job'.index = s.index
      /\ job'.interactive = s.interactive /\ job'.target = s.target /\ job'.at = "run"
      /\ job'.result = "NONE" /\ job'.switched = FALSE /\ job'.changes = FALSE
      /\ s.act \in FolderJob => job'.folder = settings.pairs[s.index]
  BY <1>0, NewJobFacts, ManagerAssumption DEF Launch
<1>2. /\ at' = "loop" /\ UNCHANGED <<importing, journal, pins, failed, faults>>
  BY DEF Launch
<1>3. /\ settings' \in Settings /\ settings'.pairs = settings.pairs
      /\ settings'.auto \subseteq settings.auto /\ (s.act = "MIGRATE" => settings'.auto = {})
  <2>1. CASE s.act = "MIGRATE"
    <3>1. settings' = [settings EXCEPT !.auto = {}]
      BY <2>1 DEF Launch, PausedForMigration
    <3>2. settings' \in Settings /\ settings'.pairs = settings.pairs /\ settings'.auto = {}
      BY <1>0, <3>1, SettingsPaused
    <3>3. QED BY <3>2
  <2>2. CASE s.act # "MIGRATE"
    <3>1. settings' = settings
      BY <2>2 DEF Launch, PausedForMigration
    <3>2. QED BY <1>0, <2>2, <3>1 DEF TypeOK
  <2>3. QED BY <2>1, <2>2
<1>4. /\ plans' \in [Index -> Plan \union {None}]
      /\ \A i \in Index : plans'[i] # None =>
            /\ i <= Count /\ plans'[i].of = settings.pairs[i] /\ plans'[i].current
  <2>1. CASE s.act \in Compares
    <3>1. PICK k : k = s.index
      OBVIOUS
    <3>2. PICK f : f = settings.pairs[k]
      OBVIOUS
    <3> DEFINE p == Invalidated(Outdated({f}), {k})
    <3>3. k \in 1 .. Count /\ k \in Index
      BY <1>0, <2>1, <3>1, TypeFacts DEF Aimed, FolderJob, Index
    <3>4. /\ p \in [Index -> Plan \union {None}]
          /\ \A i \in Index : p[i] # None => /\ i # k /\ i <= Count /\ p[i] = plans[i]
                                             /\ plans[i].of = settings.pairs[i] /\ plans[i].current
      <4>1. /\ TypeOK /\ SettingsInv /\ ComparisonsAreCurrent /\ Alive /\ k \in Index
            /\ k \in 1 .. Count => f = settings.pairs[k]
            /\ k \notin 1 .. Count => f \notin Range(settings.pairs)
        BY <1>0, <3>2, <3>3 DEF Alive, Defects
      <4>2. QED BY <4>1, Forgotten
    <3>5. plans' = p
      BY <2>1, <3>1, <3>2 DEF Launch, ComparisonsAtStart
    <3> HIDE DEF p
    <3>6. QED BY <3>4, <3>5
  <2>2. CASE s.act \notin Compares
    <3>1. plans' = plans
      BY <2>2 DEF Launch, ComparisonsAtStart
    <3>2. QED BY <1>0, <3>1 DEF TypeOK, ComparisonsAreCurrent, Defects
  <2>3. QED BY <2>1, <2>2
<1>5. TypeOK'
  BY <1>0, <1>1, <1>2, <1>3, <1>4 DEF TypeOK, Count, SameView
<1>6. JobInv' /\ TimerInv'
  BY <1>0, <1>1, <1>2, <1>3 DEF JobInv, TimerInv, Aimed, Undisturbed, Count, SameView
<1>7. PlaceInv'
  BY <1>2 DEF PlaceInv
<1>8. DialogInv'
  BY <1>0, <1>1, <1>2, <1>3 DEF DialogInv, Alive, Aimed, Undisturbed, Count, SameView, Defects
<1>9. EditorInv' /\ JournalInv' /\ SettingsInv'
  BY <1>0, <1>1, <1>2, <1>3 DEF EditorInv, JournalInv, SettingsInv, Alive, Count, SameView, Defects
<1>10. ComparisonsAreCurrent'
  BY <1>0, <1>3, <1>4 DEF ComparisonsAreCurrent, Count
<1>11. QED
  BY <1>5, <1>6, <1>7, <1>8, <1>9, <1>10 DEF ManagerInv

LEMMA AskKeeps ==
    ASSUME ManagerInv, at \in {"loop", "next", "again"}, job = None, dialog = None, ~importing, NEW s, Wanted(s),
           NEW from \in {"user", "again", "next"}, Ask(s, from), SameView, acts' \in Nat
    PROVE  ManagerInv'
<1>0. /\ TypeOK /\ SettingsInv /\ ComparisonsAreCurrent /\ EditorInv /\ JournalInv
      /\ s \in Opening /\ Aimed(s) /\ Undisturbed(s) /\ s.interactive
  BY DEF ManagerInv, Wanted, Ask
<1>1. /\ dialog' = [start |-> s, from |-> from] /\ at' = "loop"
      /\ UNCHANGED <<settings, plans, job, importing, journal, pins, failed, faults>>
  BY DEF Ask
<1>2. TypeOK'
  BY <1>0, <1>1 DEF TypeOK, Count, SameView
<1>3. JobInv' /\ TimerInv' /\ PlaceInv'
  BY <1>1 DEF JobInv, TimerInv, PlaceInv
<1>4. DialogInv'
  BY <1>0, <1>1 DEF DialogInv, Aimed, Undisturbed, Count, SameView
<1>5. EditorInv' /\ JournalInv'
  <2>1. at \notin {"exit", "closed"} => (window.pending <=> journal # None)
    BY <1>0 DEF JournalInv, Alive, Defects
  <2>2. QED BY <1>0, <1>1, <2>1 DEF EditorInv, JournalInv, Alive, Count, SameView, Defects
<1>6. SettingsInv' /\ ComparisonsAreCurrent'
  BY <1>0, <1>1 DEF SettingsInv, ComparisonsAreCurrent, Count, Defects
<1>7. QED
  BY <1>2, <1>3, <1>4, <1>5, <1>6 DEF ManagerInv

\* A start that is refused or cancelled: one folder fewer may be automatic.
LEMMA NotStartedKeeps ==
    ASSUME ManagerInv, at \in {"loop", "next", "again"}, NEW w, NEW from, NEW i, NotStarted(w, from, i),
           SameView, dialog' \in {dialog, None},
           from = "timer" => i \in 1 .. Count
    PROVE  ManagerInv'
<1>0. /\ TypeOK /\ SettingsInv /\ ComparisonsAreCurrent /\ DialogInv /\ EditorInv /\ JournalInv
      /\ JobInv /\ TimerInv
      /\ at' = "loop" /\ UNCHANGED <<plans, job, importing, journal, pins, failed, acts>>
  BY DEF ManagerInv, NotStarted
<1>1. /\ settings' \in Settings /\ settings'.pairs = settings.pairs
      /\ settings'.auto \subseteq settings.auto /\ faults' \in Nat
  <2>1. CASE from = "timer"
    <3>1. settings.auto \ {settings.pairs[i]} \subseteq Folder
      BY <1>0, TypeFacts
    <3>2. /\ faults' \in Nat
          /\ \/ settings' = [settings EXCEPT !.auto = settings.auto \ {settings.pairs[i]}]
             \/ settings' = settings
      BY <1>0, <2>1 DEF NotStarted, Persist, Fault, TypeOK
    <3>3. QED BY <1>0, <3>1, <3>2, SettingsAuto, ZenonT(40) DEF TypeOK
  <2>2. CASE from # "timer"
    BY <1>0, <2>2 DEF NotStarted, TypeOK
  <2>3. QED BY <2>1, <2>2
<1>2. TypeOK'
  BY <1>0, <1>1 DEF TypeOK, Count, SameView
<1>3. JobInv' /\ TimerInv'
  BY <1>0, <1>1 DEF JobInv, TimerInv, Aimed, Undisturbed, Alive, Count, SameView, Defects
<1>4. PlaceInv'
  BY <1>0 DEF PlaceInv
<1>5. DialogInv'
  BY <1>0, <1>1 DEF DialogInv, Alive, Aimed, Undisturbed, Count, SameView, Defects
<1>6. EditorInv' /\ SettingsInv' /\ ComparisonsAreCurrent'
  BY <1>0, <1>1 DEF EditorInv, SettingsInv, ComparisonsAreCurrent, Alive, Count, SameView, Defects
<1>7. JournalInv'
  <2>1. job = None => (window.pending <=> journal # None)
    BY <1>0 DEF JournalInv, Alive, Defects
  <2>2. journal # None => settings'.auto = {}
    BY <1>0, <1>1 DEF JournalInv, Alive, Defects
  <2>3. QED BY <1>0, <2>1, <2>2 DEF JournalInv, SameView
<1>8. QED
  BY <1>2, <1>3, <1>4, <1>5, <1>6, <1>7 DEF ManagerInv

LEMMA StartFacts ==
    ASSUME ManagerInv, at \in {"loop", "next", "again"}, NEW act \in Action, NEW i \in 0 .. MaxPairs,
           NEW b \in BOOLEAN, ~Refused(act, i), act = "UNBIND" => ~window.editing,
           NEW s \in Starts(act, i, b)
    PROVE  job = None /\ Wanted(s) /\ s.interactive = b /\ s.act = act
<1>0. TypeOK /\ job = None /\ JournalInv
  BY DEF ManagerInv, Refused
<1>1. window.pending <=> journal # None
  BY <1>0 DEF JournalInv, Alive, Defects
<1>2. PICK t \in IF act \in Admin \ {"RESTORE"} THEN Targets ELSE {None} : s = Start(act, i, b, t)
  BY DEF Starts
<1>3. t \in Server \union {None} /\ (act \in Admin \ {"RESTORE"} => t \in Server)
  <2>1. window.pending => journal \in Ticket /\ journal.dst \in Server
    BY <1>0, <1>1 DEF TypeOK, Ticket
  <2>2. QED BY <1>2, <2>1 DEF Targets
<1>4. act \in FolderJob => i \in 1 .. Count
  BY DEF Refused
<1>5. PICK k : k = IF act \in FolderJob THEN i ELSE 0
  OBVIOUS
<1>6. s = [act |-> act, index |-> k, interactive |-> b, target |-> t]
  BY <1>2, <1>5 DEF Start
<1>7. s \in Opening /\ s.act = act /\ s.index = k /\ s.interactive = b /\ s.target = t
  BY <1>3, <1>5, <1>6, ManagerAssumption DEF Opening
<1>8. Aimed(s)
  BY <1>3, <1>4, <1>5, <1>7 DEF Aimed
<1>9. act \in Ordinary => ~window.pending
  BY DEF Refused
<1>10. Undisturbed(s)
  BY <1>1, <1>7, <1>9 DEF Undisturbed
<1>11. QED BY <1>0, <1>7, <1>8, <1>10 DEF Wanted

LEMMA CommandKeeps == ASSUME ManagerInv, NEW act \in Action, Command(act) PROVE ManagerInv'
<1>0. /\ TypeOK /\ at = "loop" /\ dialog = None /\ ~importing /\ acts' \in Nat
      /\ window' = window /\ window.selected \in 0 .. MaxPairs /\ ~Refused(act, window.selected)
      /\ act = "UNBIND" => ~window.editing
  BY TypeFacts DEF ManagerInv, Command, Idle, Enabled, Acted, MayCommand, TypeOK
<1>1. SameView
  BY <1>0 DEF SameView, TypeOK
<1>2. PICK s \in Starts(act, window.selected, TRUE) :
          \/ Launch(s) /\ UNCHANGED dialog
          \/ Ask(s, "user")
  BY DEF Command
<1>3. job = None /\ Wanted(s) /\ s.interactive = TRUE /\ s.act = act
  BY <1>0, StartFacts
<1>4. CASE Launch(s) /\ UNCHANGED dialog
  BY <1>0, <1>1, <1>3, <1>4, LaunchKeeps
<1>5. CASE Ask(s, "user")
  BY <1>0, <1>1, <1>3, <1>5, AskKeeps
<1>6. QED BY <1>2, <1>4, <1>5

\* The starts of the timer, of a batch, and of what follows a finished job.
LEMMA StartJobKeeps ==
    ASSUME ManagerInv, at \in {"loop", "next", "again"}, NEW act \in Action, NEW i \in 0 .. MaxPairs,
           NEW b \in BOOLEAN, NEW from \in {"timer", "again", "next"}, NEW w \in Window,
           act = "UNBIND" => ~window.editing,
           from = "timer" => i \in 1 .. Count,
           b = (from # "timer"),
           ~b => act = "RUN" /\ ~window.editing /\ w.batch = "NONE",
           b => dialog = None /\ ~importing,
           w.selected = window.selected, w.draft = window.draft, w.editing = window.editing,
           w.pending = window.pending, w.batch = window.batch,
           StartJob(w, act, i, b, from)
    PROVE  ManagerInv'
<1>1. CASE NotStarted(w, from, i) /\ UNCHANGED dialog
  <2>1. window' = NoBatch(w) \/ window' = w
    BY <1>1 DEF NotStarted
  <2>2. SameView
    BY <2>1, ViewSteps DEF SameView
  <2>3. QED BY <1>1, <2>2, NotStartedKeeps
<1>2. ASSUME ~Refused(act, i), NEW s \in Starts(act, i, b), window' = w, UNCHANGED acts,
             (Launch(s) /\ UNCHANGED dialog) \/ Ask(s, from)
      PROVE  ManagerInv'
  <2>1. job = None /\ Wanted(s) /\ s.interactive = b /\ s.act = act
    BY <1>2, StartFacts, ZenonT(60)
  <2>2. SameView /\ acts' \in Nat
    BY <1>2 DEF SameView, ManagerInv, TypeOK
  <2>3. CASE Launch(s) /\ UNCHANGED dialog
    BY <1>2, <2>1, <2>2, <2>3, LaunchKeeps
  <2>4. CASE Ask(s, from)
    <3>1. s.interactive = TRUE /\ b = TRUE /\ from \in {"user", "again", "next"}
      BY <2>1, <2>4 DEF Ask
    <3>2. QED BY <2>1, <2>2, <2>4, <3>1, AskKeeps
  <2>5. QED BY <1>2, <2>3, <2>4
<1>3. QED BY <1>1, <1>2 DEF StartJob

\* A handler that is cut off leaves only the saved state and the types.
LEMMA CutOff ==
    ASSUME ManagerInv, at' \in Defects, dialog' \in {dialog, None},
           UNCHANGED <<settings, window, plans, job, importing, journal, pins, failed, acts, faults>>
    PROVE  ManagerInv'
<1>0. TypeOK /\ SettingsInv /\ DialogInv
  BY DEF ManagerInv
<1>1. TypeOK'
  BY <1>0 DEF TypeOK, Count
<1>2. JobInv' /\ TimerInv' /\ PlaceInv' /\ EditorInv' /\ JournalInv' /\ ComparisonsAreCurrent'
  BY DEF JobInv, TimerInv, PlaceInv, EditorInv, JournalInv, ComparisonsAreCurrent, Alive, Defects
<1>3. DialogInv' /\ SettingsInv'
  BY <1>0 DEF DialogInv, SettingsInv, Alive, Defects
<1>4. QED
  BY <1>1, <1>2, <1>3 DEF ManagerInv

LEMMA DialogsKeep == ASSUME ManagerInv, Dialogs PROVE ManagerInv'
<1>0. /\ TypeOK /\ at = "loop" /\ dialog # None /\ ~importing /\ dialog' = None /\ acts \in Nat
      /\ Alive /\ window \in Window
  BY DEF ManagerInv, Dialogs, DialogAccepted, DialogCancelled, TypeOK, Alive, Defects
<1>1. Wanted(dialog.start) /\ dialog.start.interactive
  BY <1>0, DialogFacts DEF Wanted, ManagerInv, DialogInv
<1>2. CASE DialogAccepted /\ job = None
  <2>1. Launch(dialog.start) /\ UNCHANGED <<window, acts>>
    BY <1>2 DEF DialogAccepted
  <2>2. SameView
    BY <1>0, <2>1 DEF SameView
  <2>3. QED BY <1>0, <1>1, <1>2, <2>1, <2>2, LaunchKeeps
<1>3. CASE DialogAccepted /\ job # None
  BY <1>0, <1>3, CutOff DEF DialogAccepted, Defects
<1>4. CASE DialogCancelled
  <2>1. /\ NotStarted(window, dialog.from, dialog.start.index) /\ dialog.from # "timer"
    BY <1>0, <1>4, DialogFacts DEF DialogCancelled
  <2>2. window' = NoBatch(window) \/ window' = window
    BY <2>1 DEF NotStarted
  <2>3. SameView
    BY <1>0, <2>2, ViewSteps DEF SameView
  <2>4. QED BY <1>0, <2>1, <2>3, NotStartedKeeps
<1>5. QED BY <1>2, <1>3, <1>4 DEF Dialogs

LEMMA TimerKeeps == ASSUME ManagerInv, Timer PROVE ManagerInv'
<1>0. /\ window \in Window /\ at = "loop" /\ ~window.editing /\ window.batch = "NONE"
  BY DEF ManagerInv, TypeOK, Timer, MayRunAutomatically
<1>1. PICK i \in Due : StartJob(window, "RUN", i, FALSE, "timer")
  BY DEF Timer
<1>2. i \in 1 .. Count /\ i \in 0 .. MaxPairs
  BY <1>1, TypeFacts DEF Due, ManagerInv
<1>3. "RUN" \in Action
  BY DEF Action, Ordinary, FolderJob, Compares
<1>4. QED BY <1>0, <1>1, <1>2, <1>3, StartJobKeeps

LEMMA AgainKeeps == ASSUME ManagerInv, Again PROVE ManagerInv'
<1>0. /\ TypeOK /\ window \in Window /\ at = "again" /\ dialog = None /\ ~importing
      /\ window.again \in Action /\ (window.again = "UNBIND" => ~window.editing)
      /\ window.selected \in 0 .. MaxPairs
  BY TypeFacts DEF ManagerInv, TypeOK, Again, PlaceInv, DialogInv
<1>1. PICK w : w = [window EXCEPT !.again = "NONE"]
  OBVIOUS
<1>2. /\ w \in Window /\ w.selected = window.selected /\ w.draft = window.draft
      /\ w.editing = window.editing /\ w.pending = window.pending /\ w.batch = window.batch
  BY <1>0, <1>1 DEF Window
<1>3. StartJob(w, window.again, window.selected, TRUE, "again")
  BY <1>1 DEF Again
<1>4. QED BY <1>0, <1>2, <1>3, StartJobKeeps

LEMMA BatchEndsKeeps == ASSUME ManagerInv, BatchEnds PROVE ManagerInv'
<1>0. /\ TypeOK /\ window \in Window /\ EditorInv /\ JournalInv /\ SettingsInv /\ ComparisonsAreCurrent
      /\ at = "next" /\ job = None /\ dialog = None /\ ~importing /\ at' = "loop"
      /\ UNCHANGED <<settings, plans, job, dialog, importing, journal, pins, failed, acts, faults>>
  BY DEF ManagerInv, TypeOK, BatchEnds, PlaceInv, DialogInv
<1>1. SameView
  BY <1>0, ViewSteps DEF SameView, BatchEnds
<1>2. TypeOK'
  BY <1>0, <1>1 DEF TypeOK, Count, SameView
<1>3. EditorInv' /\ JournalInv'
  BY <1>0, <1>1 DEF EditorInv, JournalInv, Alive, Count, SameView, Defects
<1>4. SettingsInv' /\ ComparisonsAreCurrent'
  BY <1>0 DEF SettingsInv, ComparisonsAreCurrent, Count, Defects
<1>5. QED
  BY <1>0, <1>2, <1>3, <1>4, Resting DEF ManagerInv

LEMMA ContinueBatchKeeps == ASSUME ManagerInv, ContinueBatch PROVE ManagerInv'
<1>0. /\ TypeOK /\ window \in Window /\ at = "next" /\ dialog = None /\ ~importing
      /\ window.batch \in Batches
  BY DEF ManagerInv, TypeOK, ContinueBatch, PlaceInv, DialogInv, Window
<1>1. PICK i : i = First(Remaining)
  OBVIOUS
<1>2. i \in Remaining
  <2>1. Remaining # {} /\ Remaining \subseteq Nat
    BY <1>0, TypeFacts DEF ContinueBatch, Remaining, Index
  <2>2. \E k \in Remaining : \A m \in Remaining : k <= m
    BY <2>1, LeastNat
  <2>3. QED BY <1>1, <2>2 DEF First
<1>3. i \in 0 .. MaxPairs
  BY <1>0, <1>2, TypeFacts DEF Remaining, Index
<1>4. PICK w : w = [window EXCEPT !.next = i + 1]
  OBVIOUS
<1>5. /\ w \in Window /\ w.selected = window.selected /\ w.draft = window.draft
      /\ w.editing = window.editing /\ w.pending = window.pending /\ w.batch = window.batch
  BY <1>0, <1>3, <1>4 DEF Window
<1>6. StartJob(w, window.batch, i, TRUE, "next")
  BY <1>1, <1>4 DEF ContinueBatch
<1>7. window.batch \in Action /\ window.batch # "UNBIND"
  BY <1>0 DEF Batches, Action, Ordinary, FolderJob, Compares
<1>8. QED BY <1>0, <1>3, <1>5, <1>6, <1>7, StartJobKeeps

LEMMA BatchKeeps ==
    ASSUME ManagerInv, NEW act \in Batches, NEW checked \in SUBSET (1 .. Count), Batch(act, checked)
    PROVE  ManagerInv'
<1>0. /\ TypeOK /\ window \in Window /\ EditorInv /\ JournalInv /\ SettingsInv /\ ComparisonsAreCurrent
      /\ at = "loop" /\ job = None /\ dialog = None /\ ~importing /\ at' = "next" /\ acts' \in Nat
      /\ UNCHANGED <<settings, plans, job, dialog, importing, journal, pins, failed, faults>>
  BY DEF ManagerInv, TypeOK, Batch, Idle, Enabled, Acted
<1>1. checked \subseteq Index
  BY <1>0, TypeFacts DEF Index
<1>2. /\ window' \in Window /\ window'.batch = act /\ window'.selected = window.selected
      /\ window'.draft = window.draft /\ window'.editing = window.editing
      /\ window'.pending = window.pending
  BY <1>0, <1>1 DEF Batch, Window
<1>3. TypeOK'
  BY <1>0, <1>2 DEF TypeOK, Count
<1>4. EditorInv' /\ JournalInv'
  BY <1>0, <1>2 DEF EditorInv, JournalInv, Alive, Count, Defects
<1>5. SettingsInv' /\ ComparisonsAreCurrent'
  BY <1>0 DEF SettingsInv, ComparisonsAreCurrent, Count, Defects
<1>6. JobInv' /\ TimerInv' /\ PlaceInv' /\ DialogInv'
  BY <1>0, <1>2 DEF JobInv, TimerInv, PlaceInv, DialogInv, Batches
<1>7. QED
  BY <1>3, <1>4, <1>5, <1>6 DEF ManagerInv

LEMMA FirstPairs ==
    ASSUME NEW n \in 1 .. Len(Initial)
    PROVE  LET q == SubSeq(Initial, 1, n) IN
           q \in Seq(Folder) /\ Len(q) = n /\ n <= MaxPairs /\ Distinct(q)
<1>1. Initial \in Seq(Folder) /\ Len(Initial) <= MaxPairs /\ MaxPairs \in Nat
  BY ManagerAssumption
<1>2. \A i, j \in 1 .. Len(Initial) : Initial[i] = Initial[j] => i = j
  BY <1>1, ManagerAssumption DEF Distinct
<1> DEFINE q == SubSeq(Initial, 1, n)
<1>3. q \in Seq(Folder) /\ Len(q) = n /\ \A k \in 1 .. n : q[k] = Initial[k]
  BY <1>1
<1> HIDE DEF q
<1>4. DOMAIN q = 1 .. n
  BY <1>3
<1>5. Distinct(q)
  BY <1>1, <1>2, <1>3, <1>4 DEF Distinct
<1>6. QED BY <1>1, <1>3, <1>5 DEF q

LEMMA ImportKeeps == ASSUME ManagerInv, Import PROVE ManagerInv'
<1>0. /\ TypeOK /\ SettingsInv /\ ComparisonsAreCurrent /\ JobInv /\ TimerInv /\ DialogInv /\ EditorInv
      /\ JournalInv /\ Alive /\ at = "loop" /\ importing /\ importing' = FALSE /\ dialog = None
      /\ UNCHANGED <<job, dialog, journal, pins, acts>> /\ faults \in Nat /\ window \in Window
  BY DEF ManagerInv, Import, DialogInv, Alive, Defects, TypeOK
<1>1. CASE UNCHANGED <<settings, window, plans, at, failed, faults>>
  <2>1. TypeOK'
    BY <1>0, <1>1 DEF TypeOK, Count
  <2>2. JobInv' /\ TimerInv' /\ PlaceInv' /\ DialogInv'
    BY <1>0, <1>1 DEF JobInv, TimerInv, PlaceInv, DialogInv, Aimed, Undisturbed, Count, Alive
  <2>3. EditorInv' /\ JournalInv' /\ SettingsInv' /\ ComparisonsAreCurrent'
    BY <1>0, <1>1 DEF EditorInv, JournalInv, SettingsInv, ComparisonsAreCurrent, Count, Alive
  <2>4. QED BY <2>1, <2>2, <2>3 DEF ManagerInv
<1>2. ASSUME NEW pairs \in {SubSeq(Initial, 1, n) : n \in 1 .. Len(Initial)}, NEW s \in Server,
             Persist([pairs |-> pairs, auto |-> {}, server |-> s]),
             IF faults' = faults
             THEN /\ window' = [window EXCEPT !.selected = 1, !.draft = FALSE]
                  /\ plans' = Invalidated(Outdated(Folder), Index)
                  /\ at' = IF job = None THEN "loop" ELSE "replaced"
                  /\ failed' = {}
             ELSE UNCHANGED <<window, plans, at, failed>>
      PROVE  ManagerInv'
  <2>1. CASE faults' # faults
    <3>1. UNCHANGED <<settings, window, plans, at, failed>> /\ faults' \in Nat
      BY <1>0, <1>2, <2>1 DEF Persist, Fault
    <3>2. TypeOK'
      BY <1>0, <3>1 DEF TypeOK, Count
    <3>3. JobInv' /\ TimerInv' /\ PlaceInv' /\ DialogInv'
      BY <1>0, <3>1 DEF JobInv, TimerInv, PlaceInv, DialogInv, Aimed, Undisturbed, Count, Alive
    <3>4. EditorInv' /\ JournalInv' /\ SettingsInv' /\ ComparisonsAreCurrent'
      BY <1>0, <3>1 DEF EditorInv, JournalInv, SettingsInv, ComparisonsAreCurrent, Count, Alive
    <3>5. QED BY <3>2, <3>3, <3>4 DEF ManagerInv
  <2>2. CASE faults' = faults
    <3>1. /\ settings' = [pairs |-> pairs, auto |-> {}, server |-> s] /\ failed' = {}
          /\ window' = [window EXCEPT !.selected = 1, !.draft = FALSE]
          /\ plans' = Invalidated(Outdated(Folder), Index)
          /\ at' = IF job = None THEN "loop" ELSE "replaced"
      BY <1>0, <1>2, <2>2 DEF Persist, Fault
    <3>2. PICK n \in 1 .. Len(Initial) : pairs = SubSeq(Initial, 1, n)
      OBVIOUS
    <3>3. pairs \in Seq(Folder) /\ Len(pairs) = n /\ n <= MaxPairs /\ Distinct(pairs)
      BY <3>2, FirstPairs
    <3>4. /\ settings' \in Settings /\ settings'.pairs = pairs /\ settings'.auto = {}
      BY <3>1, <3>3 DEF Settings
    <3>5. n \in Nat /\ n >= 1 /\ 1 \in 0 .. MaxPairs
      BY ManagerAssumption
    <3>6. /\ window' \in Window /\ window'.selected = 1 /\ window'.draft = FALSE
          /\ window'.pending = window.pending
      BY <1>0, <3>1, <3>5 DEF Window
    <3>7. 1 .. Count \subseteq Index
      BY <1>0, TypeFacts DEF Index
    <3>8. plans' \in [Index -> Plan \union {None}] /\ \A i \in Index : plans'[i] = None
      BY <1>0, <3>1, <3>7, AllForgotten
    <3>9. TypeOK'
      BY <1>0, <2>2, <3>1, <3>3, <3>4, <3>6, <3>8 DEF TypeOK, Count, Defects
    <3>10. JobInv' /\ TimerInv' /\ PlaceInv' /\ DialogInv'
      BY <1>0, <3>1 DEF JobInv, TimerInv, PlaceInv, DialogInv, Alive, Defects
    <3>11. EditorInv'
      BY <3>3, <3>4, <3>5, <3>6 DEF EditorInv, Count
    <3>12. JournalInv'
      BY <1>0, <3>4, <3>6 DEF JournalInv
    <3>13. SettingsInv' /\ ComparisonsAreCurrent'
      BY <3>1, <3>3, <3>4, <3>8 DEF SettingsInv, ComparisonsAreCurrent
    <3>14. QED BY <3>9, <3>10, <3>11, <3>12, <3>13 DEF ManagerInv
  <2>3. QED BY <2>1, <2>2
<1>3. QED BY <1>1, <1>2 DEF Import

-----------------------------------------------------------------------------
(* The end of a job. *)

\* The handler that ends the job: of DONE_MESSAGE, or of the answered question.
Ending(retry) ==
    /\ job # None /\ job.at = "done" /\ retry \in BOOLEAN
    /\ (at = "loop" /\ ~retry) \/ at = "trust"

\* What the ways to finish have in common; w is the window they go on with.
Finished(w) ==
    /\ w \in Window /\ w.batch = window.batch /\ (job.act = "UNBIND" => ~w.editing)
    /\ settings' \in Settings /\ Len(settings'.pairs) <= MaxPairs
    /\ Distinct(settings'.pairs) /\ settings'.auto \intersect failed' = {}
    /\ plans' \in [Index -> Plan \union {None}]
    /\ \A i \in Index : plans'[i] # None =>
          /\ i <= Len(settings'.pairs) /\ plans'[i].of = settings'.pairs[i] /\ plans'[i].current
    /\ journal' \in Ticket \union {None} /\ failed' \subseteq Folder \union {None} /\ faults' \in Nat
    /\ w.draft => w.editing /\ w.selected = Len(settings'.pairs) + 1
    /\ w.editing /\ ~w.draft => w.selected \in 1 .. Len(settings'.pairs)
    /\ journal' # None => settings'.auto = {}
    /\ w.pending <=> journal' # None
    /\ dialog # None => /\ Len(settings'.pairs) = Count /\ journal' = journal
                        /\ w.editing = window.editing /\ w.pending = window.pending

LEMMA FinishedKeeps ==
    ASSUME ManagerInv, NEW retry, Ending(retry), NEW w, NEW result, Finished(w), After(w, result, retry),
           pins' \subseteq Server, UNCHANGED <<dialog, importing, acts>>
    PROVE  ManagerInv'
<1>0. /\ TypeOK /\ JobInv /\ TimerInv /\ PlaceInv /\ DialogInv /\ Alive /\ job # None
      /\ w \in Window /\ job.act \in Action /\ job.interactive \in BOOLEAN
  BY JobFacts DEF ManagerInv, Ending, Finished, Alive, Defects
<1>1. /\ job' = None /\ at' \in {"again", "next", "loop"}
      /\ at' = "again" => retry /\ window'.again = job.act
      /\ at' = "next" => window'.batch # "NONE"
      /\ window' \in Window /\ window'.selected = w.selected /\ window'.draft = w.draft
      /\ window'.editing = w.editing /\ window'.pending = w.pending
      /\ window'.batch \in {w.batch, "NONE"}
  <2>1. CASE retry
    BY <1>0, <2>1 DEF After, Window
  <2>2. CASE ~retry /\ result \in Fatal
    BY <1>0, <2>2, ViewSteps DEF After
  <2>3. CASE ~retry /\ result \notin Fatal
    BY <1>0, <2>3 DEF After
  <2>4. QED BY <2>1, <2>2, <2>3
<1>2. at' \in {"next", "again"} => dialog = None /\ ~importing
  <2>1. CASE at' = "again"
    BY <1>0, <1>1, <2>1 DEF Ending, DialogInv
  <2>2. CASE at' = "next"
    <3>1. window.batch # "NONE"
      BY <1>1, <2>2 DEF Finished
    <3>2. job.interactive
      BY <1>0, <3>1 DEF TimerInv
    <3>3. QED BY <1>0, <3>2 DEF DialogInv
  <2>3. QED BY <1>1, <2>1, <2>2
<1>3. TypeOK'
  BY <1>0, <1>1 DEF TypeOK, Finished, Count
<1>4. JobInv' /\ TimerInv'
  BY <1>1 DEF JobInv, TimerInv
<1>5. PlaceInv'
  <2>1. job.act # "NONE" /\ (job.act = "UNBIND" => ~window'.editing)
    BY <1>0, <1>1 DEF Finished, Action, Ordinary, FolderJob, Compares, Admin
  <2>2. QED BY <1>1, <2>1 DEF PlaceInv
<1>6. DialogInv'
  <2>1. dialog # None => ~importing
    BY <1>0 DEF DialogInv
  <2>2. dialog # None => dialog.start.interactive /\ Aimed(dialog.start)' /\ Undisturbed(dialog.start)'
    BY <1>0, <1>1 DEF DialogInv, Finished, Aimed, Undisturbed, Count
  <2>3. QED BY <1>1, <1>2, <2>1, <2>2 DEF DialogInv
<1>7. EditorInv' /\ JournalInv'
  BY <1>1 DEF EditorInv, JournalInv, Finished, Count
<1>8. SettingsInv' /\ ComparisonsAreCurrent'
  BY DEF SettingsInv, ComparisonsAreCurrent, Finished, Count
<1>9. QED
  BY <1>3, <1>4, <1>5, <1>6, <1>7, <1>8 DEF ManagerInv

LEMMA EndingFacts ==
    ASSUME ManagerInv, NEW retry, Ending(retry)
    PROVE  /\ TypeOK /\ SettingsInv /\ ComparisonsAreCurrent /\ EditorInv /\ JournalInv /\ Alive
           /\ job # None /\ job.act \in Action /\ job.index \in 0 .. MaxPairs
           /\ Aimed(job) /\ Undisturbed(job)
           /\ job.act \in FolderJob => job.folder = settings.pairs[job.index]
           /\ job.switched => job.act \in Admin \ {"RESTORE"} /\ job.target \in Server
           /\ job.changes => job.act \in Compares
           /\ dialog # None => job.act = "RUN"
           /\ settings.pairs \in Seq(Folder) /\ Count = Len(settings.pairs) /\ Count \in 0 .. MaxPairs
           /\ window \in Window /\ faults \in Nat /\ settings \in Settings
<1>1. TypeOK /\ JobInv /\ TimerInv /\ DialogInv /\ Alive /\ job # None
  BY DEF ManagerInv, Ending, Alive, Defects
<1>2. job.act \in Action /\ job.index \in 0 .. MaxPairs
  BY <1>1, JobFacts
<1>3. dialog # None => job.act = "RUN"
  BY <1>1 DEF DialogInv, TimerInv
<1>4. job.switched => job.act \in Admin \ {"RESTORE"} /\ job.target \in Server
  BY <1>1 DEF JobInv, Aimed
<1>5. QED BY <1>1, <1>2, <1>3, <1>4, TypeFacts DEF ManagerInv, JobInv, Count, TypeOK

LEMMA WindowPending ==
    ASSUME NEW w \in Window, NEW b \in BOOLEAN
    PROVE  LET u == [w EXCEPT !.pending = b] IN
           /\ u \in Window /\ u.pending = b /\ u.selected = w.selected /\ u.draft = w.draft
           /\ u.editing = w.editing /\ u.batch = w.batch
BY DEF Window

LEMMA SwitchFinished ==
    ASSUME ManagerInv, NEW retry, Ending(retry), FinishSwitch
    PROVE  \E w, result : Finished(w) /\ After(w, result, FALSE)
<1>0. /\ TypeOK /\ SettingsInv /\ ComparisonsAreCurrent /\ EditorInv /\ JournalInv /\ Alive
      /\ job.act \in Admin /\ job.act # "UNBIND" /\ job.target \in Server /\ dialog = None
      /\ settings.pairs \in Seq(Folder) /\ Count = Len(settings.pairs) /\ Count \in 0 .. MaxPairs
      /\ window \in Window /\ faults \in Nat /\ settings \in Settings /\ failed' = failed
  BY EndingFacts DEF FinishSwitch, Admin
<1>1. CASE faults' = faults
  <2>1. /\ settings' = [settings EXCEPT !.server = job.target] /\ journal' = None
        /\ plans' = Invalidated(Outdated(Folder), Index)
        /\ After([window EXCEPT !.pending = FALSE], "OK", FALSE)
    <3>1. settings' = [settings EXCEPT !.server = job.target]
      BY <1>0, <1>1 DEF FinishSwitch, Persist, Fault
    <3>2. /\ journal' = None /\ plans' = Invalidated(Outdated(Folder), Index)
          /\ After([window EXCEPT !.pending = FALSE], "OK", FALSE)
      BY <1>1, Zenon DEF FinishSwitch
    <3>3. QED BY <3>1, <3>2
  <2>2. /\ settings' \in Settings /\ settings'.pairs = settings.pairs /\ settings'.auto = settings.auto
    BY <1>0, <2>1 DEF Settings
  <2>3. 1 .. Count \subseteq Index
    BY <1>0, TypeFacts DEF Index
  <2>4. plans' \in [Index -> Plan \union {None}] /\ \A i \in Index : plans'[i] = None
    BY <1>0, <2>1, <2>3, AllForgotten
  <2>5. PICK w : w = [window EXCEPT !.pending = FALSE]
    OBVIOUS
  <2>6. /\ w \in Window /\ w.pending = FALSE /\ w.selected = window.selected /\ w.draft = window.draft
        /\ w.editing = window.editing /\ w.batch = window.batch
    BY <1>0, <2>5, WindowPending
  <2>7. Finished(w)
    BY <1>0, <1>1, <2>1, <2>2, <2>4, <2>6 DEF Finished, TypeOK, SettingsInv, EditorInv
  <2>8. QED BY <2>1, <2>5, <2>7
<1>2. CASE faults' # faults
  <2>1. /\ settings' = settings /\ journal' = journal /\ plans' = plans /\ faults' \in Nat
        /\ After([window EXCEPT !.pending = journal # None], "STORAGE", FALSE)
    <3>1. settings' = settings /\ faults' \in Nat
      BY <1>0, <1>2 DEF FinishSwitch, Persist, Fault
    <3>2. /\ UNCHANGED <<plans, journal>>
          /\ After([window EXCEPT !.pending = journal # None], "STORAGE", FALSE)
      BY <1>2, Zenon DEF FinishSwitch
    <3>3. QED BY <3>1, <3>2
  <2>2. PICK w : w = [window EXCEPT !.pending = journal # None]
    OBVIOUS
  <2>3. /\ w \in Window /\ w.pending = (journal # None) /\ w.selected = window.selected
        /\ w.draft = window.draft /\ w.editing = window.editing /\ w.batch = window.batch
    BY <1>0, <2>2, WindowPending
  <2>4. Finished(w)
    BY <1>0, <2>1, <2>3 DEF Finished, TypeOK, SettingsInv, EditorInv, JournalInv, ComparisonsAreCurrent, Alive
  <2>5. QED BY <2>1, <2>2, <2>4
<1>3. QED BY <1>1, <1>2

LEMMA AdminFinished ==
    ASSUME ManagerInv, NEW retry, Ending(retry), FinishAdmin(retry), job.act \in Admin
    PROVE  \E w, result : Finished(w) /\ After(w, result, retry)
<1>0. /\ TypeOK /\ SettingsInv /\ ComparisonsAreCurrent /\ EditorInv /\ JournalInv /\ Alive
      /\ job.act # "UNBIND" /\ dialog = None
      /\ settings.pairs \in Seq(Folder) /\ Count = Len(settings.pairs) /\ Count \in 0 .. MaxPairs
      /\ window \in Window /\ settings \in Settings
      /\ UNCHANGED <<settings, plans, journal, failed, faults>>
      /\ After([window EXCEPT !.pending = journal # None], job.result, retry)
  BY EndingFacts DEF FinishAdmin, Admin
<1>1. PICK w : w = [window EXCEPT !.pending = journal # None]
  OBVIOUS
<1>2. /\ w \in Window /\ w.pending = (journal # None) /\ w.selected = window.selected
      /\ w.draft = window.draft /\ w.editing = window.editing /\ w.batch = window.batch
  BY <1>0, <1>1, WindowPending
<1>3. Finished(w)
  BY <1>0, <1>2 DEF Finished, TypeOK, SettingsInv, EditorInv, JournalInv, ComparisonsAreCurrent, Alive
<1>4. QED BY <1>0, <1>1, <1>3

\* The comparison of a finished job is about the folder that has its index.
LEMMA ShownPlans ==
    ASSUME ManagerInv, NEW retry, Ending(retry)
    PROVE  /\ Shown(plans) \in [Index -> Plan \union {None}]
           /\ \A i \in Index : Shown(plans)[i] # None =>
                 /\ i <= Count /\ Shown(plans)[i].of = settings.pairs[i] /\ Shown(plans)[i].current
<1>0. /\ TypeOK /\ ComparisonsAreCurrent /\ Alive /\ job.index \in 0 .. MaxPairs
      /\ job.act \in FolderJob => job.folder = settings.pairs[job.index]
      /\ job.changes => job.act \in Compares
      /\ settings.pairs \in Seq(Folder) /\ Count = Len(settings.pairs) /\ Count \in 0 .. MaxPairs
  BY EndingFacts
<1>1. plans \in [Index -> Plan \union {None}]
  BY <1>0 DEF TypeOK
<1>2. \A i \in Index : plans[i] # None =>
         i <= Count /\ plans[i].of = settings.pairs[i] /\ plans[i].current
  BY <1>0 DEF ComparisonsAreCurrent, Alive
<1>3. CASE InRange /\ job.changes
  <2>1. PICK k : k = job.index
    OBVIOUS
  <2>2. PICK q : q = [of |-> job.folder, current |-> TRUE]
    OBVIOUS
  <2>3. k \in 1 .. Count /\ k \in Index /\ job.folder = settings.pairs[k] /\ job.folder \in Folder
    BY <1>0, <1>3, <2>1, TypeFacts DEF InRange, Index, FolderJob
  <2>4. q \in Plan /\ q.of = settings.pairs[k] /\ q.current
    BY <2>2, <2>3 DEF Plan
  <2>5. PICK p : p = [plans EXCEPT ![k] = q]
    OBVIOUS
  <2>6. /\ p \in [Index -> Plan \union {None}] /\ p[k] = q
        /\ \A i \in Index : i # k => p[i] = plans[i]
    BY <1>1, <2>3, <2>4, <2>5
  <2>7. Shown(plans) = p
    BY <1>3, <2>1, <2>2, <2>5 DEF Shown
  <2>8. ASSUME NEW i \in Index, p[i] # None
        PROVE  i <= Count /\ p[i].of = settings.pairs[i] /\ p[i].current
    <3>1. CASE i = k
      BY <2>3, <2>4, <2>6, <3>1
    <3>2. CASE i # k
      BY <1>2, <2>6, <2>8, <3>2
    <3>3. QED BY <3>1, <3>2
  <2>9. QED BY <2>6, <2>7, <2>8
<1>4. CASE ~ (InRange /\ job.changes)
  BY <1>1, <1>2, <1>4 DEF Shown
<1>5. QED BY <1>3, <1>4

LEMMA OkFinished ==
    ASSUME ManagerInv, NEW retry, Ending(retry), FinishOk, job.act \in Ordinary \ {"UNBIND"},
           journal' = journal
    PROVE  \E w, result : Finished(w) /\ After(w, result, FALSE)
<1>0. /\ TypeOK /\ SettingsInv /\ ComparisonsAreCurrent /\ EditorInv /\ JournalInv /\ Alive
      /\ journal = None /\ ~window.pending
      /\ settings.pairs \in Seq(Folder) /\ Count = Len(settings.pairs) /\ Count \in 0 .. MaxPairs
      /\ window \in Window /\ settings \in Settings
      /\ UNCHANGED <<settings, failed, faults>> /\ After(window, "OK", FALSE)
  BY EndingFacts DEF FinishOk, Undisturbed
<1>1. /\ plans' \in [Index -> Plan \union {None}]
      /\ \A i \in Index : plans'[i] # None =>
            i <= Count /\ plans'[i].of = settings.pairs[i] /\ plans'[i].current
  <2>1. CASE job.act = "REFRESH"
    <3>1. plans' = Invalidated(Outdated(Folder), 1 .. Count)
      BY <2>1 DEF FinishOk
    <3>2. plans' \in [Index -> Plan \union {None}] /\ \A i \in Index : plans'[i] = None
      BY <1>0, <3>1, AllForgotten
    <3>3. QED BY <3>2
  <2>2. CASE job.act # "REFRESH"
    BY <2>2, ShownPlans DEF FinishOk
  <2>3. QED BY <2>1, <2>2
<1>2. Finished(window)
  BY <1>0, <1>1 DEF Finished, TypeOK, SettingsInv, EditorInv
<1>3. QED BY <1>0, <1>2

LEMMA FailedFinished ==
    ASSUME ManagerInv, NEW retry, Ending(retry), FinishFailed(retry), job.act \in Ordinary,
           journal' = journal
    PROVE  \E w, result : Finished(w) /\ After(w, result, retry)
<1>0. /\ TypeOK /\ SettingsInv /\ ComparisonsAreCurrent /\ EditorInv /\ JournalInv /\ Alive
      /\ journal = None /\ ~window.pending /\ (job.act = "UNBIND" => ~window.editing)
      /\ job.act \in FolderJob => job.folder = settings.pairs[job.index]
      /\ job.act \notin FolderJob => job.index = 0
      /\ settings.pairs \in Seq(Folder) /\ Count = Len(settings.pairs) /\ Count \in 0 .. MaxPairs
      /\ window \in Window /\ settings \in Settings /\ faults \in Nat
      /\ plans' = Shown(plans) /\ After(window, job.result, retry)
  BY EndingFacts DEF FinishFailed, Undisturbed, Aimed
<1>1. /\ plans' \in [Index -> Plan \union {None}]
      /\ \A i \in Index : plans'[i] # None =>
            i <= Count /\ plans'[i].of = settings.pairs[i] /\ plans'[i].current
  BY <1>0, ShownPlans
<1>2. /\ settings' \in Settings /\ settings'.pairs = settings.pairs
      /\ settings'.auto \subseteq settings.auto /\ settings'.auto \intersect failed' = {}
      /\ failed' \subseteq Folder \union {None} /\ faults' \in Nat
  <2>1. CASE UNCHANGED <<settings, faults, failed>>
    BY <1>0, <2>1 DEF TypeOK, SettingsInv
  <2>2. CASE /\ InRange /\ Persist(PausedFolder)
             /\ failed' = IF faults' = faults THEN failed \union {job.folder} ELSE failed
    <3>1. PICK f : f = settings.pairs[job.index]
      OBVIOUS
    <3>2. job.folder = f /\ f \in Folder
      BY <1>0, <2>2, <3>1 DEF InRange
    <3>3. CASE faults' = faults
      <4>1. settings' = [settings EXCEPT !.auto = settings.auto \ {f}]
        BY <1>0, <2>2, <3>1, <3>3 DEF Persist, Fault, PausedFolder
      <4>2. settings.auto \ {f} \subseteq Folder
        BY <1>0, TypeFacts
      <4>3. /\ settings' \in Settings /\ settings'.pairs = settings.pairs
            /\ settings'.auto = settings.auto \ {f}
        BY <1>0, <4>1, <4>2, SettingsAuto
      <4>4. failed' = failed \union {f}
        BY <2>2, <3>2, <3>3
      <4>5. QED BY <1>0, <3>2, <3>3, <4>3, <4>4 DEF TypeOK, SettingsInv
    <3>4. CASE faults' # faults
      <4>1. settings' = settings /\ failed' = failed /\ faults' \in Nat
        BY <1>0, <2>2, <3>4 DEF Persist, Fault
      <4>2. QED BY <1>0, <4>1 DEF TypeOK, SettingsInv
    <3>5. QED BY <3>3, <3>4
  <2>3. QED BY <2>1, <2>2 DEF FinishFailed
<1>3. Finished(window)
  BY <1>0, <1>1, <1>2 DEF Finished, TypeOK, SettingsInv, EditorInv
<1>4. QED BY <1>0, <1>3

\* The list without the folder at i, and the comparisons that move up with it.
LEMMA WithoutPairs ==
    ASSUME TypeOK, SettingsInv, NEW i \in 1 .. Count
    PROVE  /\ WithoutFolder(i) \in Settings
           /\ WithoutFolder(i).auto = settings.auto \ {settings.pairs[i]}
           /\ Len(WithoutFolder(i).pairs) = Count - 1
           /\ \A k \in 1 .. Count - 1 :
                 WithoutFolder(i).pairs[k] = IF k < i THEN settings.pairs[k] ELSE settings.pairs[k + 1]
           /\ Distinct(WithoutFolder(i).pairs)
<1>0. /\ settings.pairs \in Seq(Folder) /\ Count = Len(settings.pairs) /\ Count \in 0 .. MaxPairs
      /\ settings \in Settings /\ settings.auto \subseteq Folder
  BY TypeFacts DEF TypeOK, Count
<1>1. PICK r : r = SubSeq(settings.pairs, 1, i - 1) \o SubSeq(settings.pairs, i + 1, Len(settings.pairs))
  OBVIOUS
<1>2. /\ r \in Seq(Folder) /\ Len(r) = Count - 1
      /\ \A k \in 1 .. Count - 1 : r[k] = IF k < i THEN settings.pairs[k] ELSE settings.pairs[k + 1]
  BY <1>0, <1>1, WithoutElement
<1>3. PICK a : a = settings.auto \ {settings.pairs[i]}
  OBVIOUS
<1>4. WithoutFolder(i) = [settings EXCEPT !.pairs = r, !.auto = a]
  BY <1>1, <1>3 DEF WithoutFolder, RemoveAt
<1>5. /\ WithoutFolder(i) \in Settings /\ WithoutFolder(i).pairs = r /\ WithoutFolder(i).auto = a
  BY <1>0, <1>2, <1>3, <1>4 DEF Settings
<1>6. Distinct(r)
  <2>1. DOMAIN r = 1 .. Count - 1
    BY <1>0, <1>2
  <2>2. \A m, n \in 1 .. Count : settings.pairs[m] = settings.pairs[n] => m = n
    BY <1>0 DEF SettingsInv, Distinct
  <2>3. ASSUME NEW m \in 1 .. Count - 1, NEW n \in 1 .. Count - 1, r[m] = r[n] PROVE m = n
    <3>1. /\ m \in 1 .. Count /\ m + 1 \in 1 .. Count /\ n \in 1 .. Count /\ n + 1 \in 1 .. Count
      BY <1>0
    <3>2. PICK x : x = IF m < i THEN m ELSE m + 1
      OBVIOUS
    <3>3. PICK y : y = IF n < i THEN n ELSE n + 1
      OBVIOUS
    <3>4. x \in 1 .. Count /\ y \in 1 .. Count /\ settings.pairs[x] = settings.pairs[y]
      BY <1>2, <2>3, <3>1, <3>2, <3>3
    <3>5. x = y
      BY <2>2, <3>4
    <3>6. QED BY <1>0, <3>2, <3>3, <3>5
  <2>4. QED BY <2>1, <2>3 DEF Distinct
<1>7. QED BY <1>2, <1>3, <1>5, <1>6

LEMMA ShiftedPlans ==
    ASSUME TypeOK, ComparisonsAreCurrent, Alive, SettingsInv, NEW i \in 1 .. Count
    PROVE  /\ Shifted(plans, i) \in [Index -> Plan \union {None}]
           /\ \A k \in Index : Shifted(plans, i)[k] # None =>
                 /\ k <= Count - 1 /\ Shifted(plans, i)[k].of = WithoutFolder(i).pairs[k]
                 /\ Shifted(plans, i)[k].current
<1>0. /\ plans \in [Index -> Plan \union {None}] /\ Count \in 0 .. MaxPairs /\ MaxPairs \in Nat \ {0}
  BY TypeFacts DEF TypeOK
<1>1. \A k \in Index : plans[k] # None =>
         k <= Count /\ plans[k].of = settings.pairs[k] /\ plans[k].current
  BY DEF ComparisonsAreCurrent, Alive
<1>2. \A k \in 1 .. Count - 1 :
         WithoutFolder(i).pairs[k] = IF k < i THEN settings.pairs[k] ELSE settings.pairs[k + 1]
  BY WithoutPairs
<1>3. PICK p : p = Shifted(plans, i)
  OBVIOUS
<1>4. ASSUME NEW k \in Index
      PROVE  /\ p[k] \in Plan \union {None}
             /\ p[k] # None => /\ k <= Count - 1 /\ p[k].of = WithoutFolder(i).pairs[k]
                               /\ p[k].current
  <2>1. CASE k < i
    <3>1. p[k] = plans[k]
      BY <1>3, <2>1 DEF Shifted
    <3>2. k \in 1 .. Count - 1
      BY <1>0, <2>1 DEF Index
    <3>3. QED BY <1>0, <1>1, <1>2, <2>1, <3>1, <3>2
  <2>2. CASE ~ (k < i) /\ k < MaxPairs
    <3>1. p[k] = plans[k + 1] /\ k + 1 \in Index
      BY <1>0, <1>3, <2>2 DEF Shifted, Index
    <3>2. ASSUME p[k] # None
          PROVE  k <= Count - 1 /\ p[k].of = WithoutFolder(i).pairs[k] /\ p[k].current
      <4>1. k + 1 <= Count /\ plans[k + 1].of = settings.pairs[k + 1] /\ plans[k + 1].current
        BY <1>1, <3>1, <3>2
      <4>2. k \in 1 .. Count - 1
        BY <1>0, <4>1 DEF Index
      <4>3. QED BY <1>0, <1>2, <2>2, <3>1, <4>1, <4>2
    <3>3. QED BY <1>0, <3>1, <3>2
  <2>3. CASE ~ (k < i) /\ ~ (k < MaxPairs)
    BY <1>3, <2>3 DEF Shifted
  <2>4. QED BY <2>1, <2>2, <2>3
<1>5. p = [k \in Index |-> p[k]]
  BY <1>3 DEF Shifted
<1>6. QED BY <1>3, <1>4, <1>5

LEMMA UnbindFinished ==
    ASSUME ManagerInv, NEW retry, Ending(retry), FinishUnbind, job.act = "UNBIND", journal' = journal
    PROVE  \E w, result : Finished(w) /\ After(w, result, FALSE)
<1>0. /\ TypeOK /\ SettingsInv /\ ComparisonsAreCurrent /\ EditorInv /\ Alive
      /\ journal = None /\ ~window.pending /\ ~window.editing /\ dialog = None
      /\ job.index \in 1 .. Count /\ job.folder = settings.pairs[job.index]
      /\ settings.pairs \in Seq(Folder) /\ Count = Len(settings.pairs) /\ Count \in 0 .. MaxPairs
      /\ window \in Window /\ settings \in Settings /\ faults \in Nat
      /\ failed' = failed \ {job.folder}
  BY EndingFacts DEF FinishUnbind, Undisturbed, Aimed, Ordinary, FolderJob
<1>1. ~window.draft /\ window.selected \in 0 .. MaxPairs
  BY <1>0, TypeFacts DEF EditorInv
<1>2. PICK n : n = IF window.selected < Len(settings'.pairs) THEN window.selected ELSE Len(settings'.pairs)
  OBVIOUS
<1>3. PICK w : w = [window EXCEPT !.selected = n]
  OBVIOUS
<1>4. CASE faults' = faults
  <2>1. PICK i \in 1 .. Count : i = job.index
    BY <1>0
  <2>2. settings' = WithoutFolder(i)
    BY <1>0, <1>4, <2>1 DEF FinishUnbind, Persist, Fault
  <2>3. /\ settings' \in Settings /\ settings'.auto \subseteq settings.auto
        /\ Len(settings'.pairs) = Count - 1 /\ Distinct(settings'.pairs)
    BY <1>0, <2>2, WithoutPairs
  <2>4. plans' = Shifted(plans, i)
    BY <1>4, <2>1 DEF FinishUnbind
  <2>5. /\ plans' \in [Index -> Plan \union {None}]
        /\ \A k \in Index : plans'[k] # None =>
              k <= Count - 1 /\ plans'[k].of = settings'.pairs[k] /\ plans'[k].current
    BY <1>0, <2>2, <2>4, ShiftedPlans
  <2>6. n \in 0 .. MaxPairs
    BY <1>0, <1>1, <1>2, <2>1, <2>3, ManagerAssumption
  <2>7. PICK u : u = [w EXCEPT !.editing = FALSE, !.draft = FALSE]
    OBVIOUS
  <2>8. w \in Window /\ w.pending = window.pending /\ w.batch = window.batch
    BY <1>0, <1>3, <2>6 DEF Window
  <2>9. /\ u \in Window /\ u.pending = window.pending /\ u.batch = window.batch
        /\ u.editing = FALSE /\ u.draft = FALSE
    BY <2>7, <2>8 DEF Window
  <2>10. After(u, "OK", FALSE)
    BY <1>2, <1>3, <1>4, <2>7 DEF FinishUnbind
  <2>11. Len(settings'.pairs) <= MaxPairs
    BY <1>0, <2>3, ManagerAssumption
  <2>12. Finished(u)
    BY <1>0, <1>4, <2>3, <2>5, <2>9, <2>11 DEF Finished, TypeOK, SettingsInv
  <2>13. QED BY <2>10, <2>12
<1>5. CASE faults' # faults
  <2>1. settings' = settings /\ plans' = plans /\ faults' \in Nat
    BY <1>0, <1>5 DEF FinishUnbind, Persist, Fault
  <2>2. n \in 0 .. MaxPairs
    BY <1>0, <1>1, <1>2, <2>1
  <2>3. /\ w \in Window /\ w.pending = window.pending /\ w.batch = window.batch
        /\ w.editing = window.editing /\ w.draft = window.draft
    BY <1>0, <1>3, <2>2 DEF Window
  <2>4. After(w, "STORAGE", FALSE)
    BY <1>2, <1>3, <1>5 DEF FinishUnbind
  <2>5. Finished(w)
    BY <1>0, <1>1, <2>1, <2>3 DEF Finished, TypeOK, SettingsInv, ComparisonsAreCurrent, Alive
  <2>6. QED BY <2>4, <2>5
<1>6. QED BY <1>4, <1>5

LEMMA FinishKeeps == ASSUME ManagerInv, Done \/ Trust PROVE ManagerInv'
<1>1. PICK retry \in BOOLEAN : Ending(retry) /\ Finish(retry)
  BY DEF Done, Trust, Ending, ManagerInv, PlaceInv
<1>2. Ending(FALSE)
  BY <1>1 DEF Ending
<1>3. pins' \subseteq Server /\ UNCHANGED <<dialog, importing, acts>>
  <2>1. pins \subseteq Server
    BY DEF ManagerInv, TypeOK
  <2>2. retry => job.host \in Server
    BY <1>1 DEF Ending, ManagerInv, PlaceInv, JobInv, Alive, Defects
  <2>3. QED BY <1>1, <2>1, <2>2 DEF Finish
<1>4. CASE job.act \in Admin /\ FinishSwitch
  BY <1>1, <1>2, <1>3, <1>4, SwitchFinished, FinishedKeeps
<1>5. CASE job.act \in Admin /\ FinishAdmin(retry)
  BY <1>1, <1>3, <1>5, AdminFinished, FinishedKeeps
<1>6. CASE job.act \in Ordinary /\ job.result # "OK" /\ FinishFailed(retry) /\ UNCHANGED journal
  BY <1>1, <1>3, <1>6, FailedFinished, FinishedKeeps
<1>7. CASE job.act = "UNBIND" /\ FinishUnbind /\ UNCHANGED journal
  BY <1>1, <1>2, <1>3, <1>7, UnbindFinished, FinishedKeeps
<1>8. CASE job.act \in Ordinary \ {"UNBIND"} /\ FinishOk /\ UNCHANGED journal
  BY <1>1, <1>2, <1>3, <1>8, OkFinished, FinishedKeeps
<1>9. QED BY <1>1, <1>4, <1>5, <1>6, <1>7, <1>8 DEF Finish

-----------------------------------------------------------------------------
(* The invariant holds. *)

LEMMA InitKeeps == Init => ManagerInv
<1> SUFFICES ASSUME Init PROVE ManagerInv
  OBVIOUS
<1>1. PICK on \in SUBSET Range(Initial) :
         settings = [pairs |-> Initial, auto |-> on, server |-> CHOOSE s \in Server : TRUE]
  BY DEF Init
<1>2. /\ Initial \in Seq(Folder) /\ Len(Initial) <= MaxPairs /\ Distinct(Initial)
      /\ (CHOOSE s \in Server : TRUE) \in Server
  BY ManagerAssumption
<1>3. /\ settings \in Settings /\ settings.pairs = Initial
  <2>1. Range(Initial) \subseteq Folder
    BY <1>2 DEF Range
  <2>2. QED BY <1>1, <1>2, <2>1 DEF Settings
<1>4. /\ window \in Window /\ window.pending = (journal # None) /\ ~window.draft /\ ~window.editing
  BY <1>2, FreshWindow DEF Init
<1>5. TypeOK
  BY <1>2, <1>3, <1>4 DEF Init, TypeOK, Count, NoPlans
<1>6. JobInv /\ TimerInv /\ PlaceInv /\ DialogInv
  BY DEF Init, JobInv, TimerInv, PlaceInv, DialogInv
<1>7. EditorInv /\ JournalInv
  BY <1>4 DEF Init, EditorInv, JournalInv
<1>8. SettingsInv /\ ComparisonsAreCurrent
  BY <1>2, <1>3 DEF Init, SettingsInv, ComparisonsAreCurrent, NoPlans
<1>9. QED
  BY <1>5, <1>6, <1>7, <1>8 DEF ManagerInv

LEMMA StutterKeeps == ASSUME ManagerInv, UNCHANGED vars PROVE ManagerInv'
<1> USE DEF vars
<1>1. TypeOK'
  BY DEF ManagerInv, TypeOK, Count
<1>2. JobInv' /\ TimerInv' /\ PlaceInv' /\ DialogInv'
  BY DEF ManagerInv, JobInv, TimerInv, PlaceInv, DialogInv, Aimed, Undisturbed, Alive, Count
<1>3. EditorInv' /\ JournalInv' /\ SettingsInv' /\ ComparisonsAreCurrent'
  BY DEF ManagerInv, EditorInv, JournalInv, SettingsInv, ComparisonsAreCurrent, Alive, Count
<1>4. QED BY <1>1, <1>2, <1>3 DEF ManagerInv

LEMMA NextKeeps == ManagerInv /\ [Next]_vars => ManagerInv'
<1> SUFFICES ASSUME ManagerInv, [Next]_vars PROVE ManagerInv'
  OBVIOUS
<1>1. CASE User
  <2>1. CASE WindowCommand
    BY <2>1, WindowCommandKeeps
  <2>2. CASE \E act \in Action : Command(act)
    BY <2>2, CommandKeeps
  <2>3. CASE \E act \in Batches : \E checked \in SUBSET (1 .. Count) : Batch(act, checked)
    BY <2>3, BatchKeeps
  <2>4. CASE \E f \in Folder : Save(f)
    BY <2>4, SaveKeeps
  <2>5. CASE Toggle \/ Cancel \/ OpenImport
    BY <2>5, ToggleKeeps, CancelKeeps, OpenImportKeeps
  <2>6. CASE Exit \/ Open
    BY <2>6, ExitKeeps, OpenKeeps
  <2>7. QED BY <1>1, <2>1, <2>2, <2>3, <2>4, <2>5, <2>6 DEF User, WindowCommand
<1>2. CASE Timer
  BY <1>2, TimerKeeps
<1>3. CASE Worker
  BY <1>3, WriteJournalKeeps, AskRecycleKeeps, ReturnKeeps DEF Worker
<1>4. CASE Interface
  BY <1>4, RecycleKeeps, AskTrustKeeps, FinishKeeps, ExitKeeps, AgainKeeps, BatchEndsKeeps,
     ContinueBatchKeeps DEF Interface
<1>5. CASE Dialogs
  BY <1>5, DialogsKeep
<1>6. CASE Import
  BY <1>6, ImportKeeps
<1>7. CASE UNCHANGED vars
  BY <1>7, StutterKeeps
<1>8. QED BY <1>1, <1>2, <1>3, <1>4, <1>5, <1>6, <1>7 DEF Next

LEMMA ManagerAlways == Spec => []ManagerInv
BY InitKeeps, NextKeeps, PTL DEF Spec

-----------------------------------------------------------------------------
(* Theorems. *)

\* Every variable keeps its type, and no list of folders outgrows its limit.
THEOREM ManagerTypeCorrect == Spec => []TypeOK
<1>1. ManagerInv => TypeOK
  BY DEF ManagerInv
<1>2. QED BY <1>1, ManagerAlways, PTL

\* The comparison shown for a folder is about that folder and nothing has
\* happened since that invalidates it, through retries, nested dialogs and folders that
\* leave the list (start_job_impl, finish_job, forget_folder_view, save_pair).
THEOREM ComparisonsCurrent == Spec => []ComparisonsAreCurrent
<1>1. ManagerInv => ComparisonsAreCurrent
  BY DEF ManagerInv
<1>2. QED BY <1>1, ManagerAlways, PTL

\* While a migration is unfinished nothing is synchronized, automatically or by
\* hand, also after a restart (migration_pending, start_job_impl).
THEOREM MigrationIsQuiet == Spec => []MigrationQuiet
<1>1. ManagerInv => MigrationQuiet
  <2>1. ASSUME ManagerInv, journal # None, at \notin Defects
        PROVE  settings.auto = {} /\ (job # None => job.act \in Admin)
    <3>1. TypeOK /\ Alive /\ settings.auto = {}
      BY <2>1 DEF ManagerInv, JournalInv, Alive
    <3>2. ASSUME job # None PROVE job.act \in Admin
      <4>1. job.act \in Action /\ job.act \notin Ordinary
        BY <2>1, <3>1, <3>2, JobFacts DEF ManagerInv, JobInv, Undisturbed
      <4>2. QED BY <4>1 DEF Action
    <3>3. QED BY <3>1, <3>2
  <2>2. QED BY <2>1 DEF MigrationQuiet
<1>2. QED BY <1>1, ManagerAlways, PTL

\* No folder is edited while automatic work runs, and none starts then: neither
\* the timer nor a handler under an open dialog (window_proc WM_TIMER, controls).
THEOREM EditingIsUndisturbed == Spec => []EditingUndisturbed
<1>1. ManagerInv => EditingUndisturbed
  BY JobFacts DEF ManagerInv, TimerInv, EditingUndisturbed, Alive
<1>2. QED BY <1>1, ManagerAlways, PTL

\* The job that a launch makes, and what it is about.
LEMMA LaunchedJob ==
    ASSUME ManagerInv, NEW s, Wanted(s), Launch(s)
    PROVE  /\ job'.interactive = s.interactive
           /\ s.act \in FolderJob => job'.folder = settings.pairs[s.index]
BY NewJobFacts DEF ManagerInv, Wanted, Launch

\* A job begins in a start, and only the timer begins one unasked.
LEMMA Unasked ==
    ASSUME ManagerInv, Next, job = None, job' # None, ~job'.interactive
    PROVE  Timer
<1>1. CASE \E act \in Action : Command(act)
  <2>1. PICK act \in Action : Command(act)
    BY <1>1
  <2>2. /\ at = "loop" /\ window.selected \in 0 .. MaxPairs /\ ~Refused(act, window.selected)
        /\ act = "UNBIND" => ~window.editing
    BY <2>1, TypeFacts DEF ManagerInv, Command, Idle, Enabled, MayCommand
  <2>3. PICK s \in Starts(act, window.selected, TRUE) : Launch(s)
    BY <2>1 DEF Command, Ask
  <2>4. Wanted(s) /\ s.interactive = TRUE
    BY <2>2, StartFacts
  <2>5. QED BY <2>3, <2>4, LaunchedJob
<1>2. CASE DialogAccepted
  <2>1. Launch(dialog.start)
    BY <1>2 DEF DialogAccepted
  <2>2. Wanted(dialog.start) /\ dialog.start.interactive
    BY <1>2, DialogFacts DEF Wanted, ManagerInv, DialogInv, DialogAccepted, Alive, Defects
  <2>3. QED BY <2>1, <2>2, LaunchedJob
<1>3. CASE Again \/ ContinueBatch
  <2>1. PICK w, act, i, from : StartJob(w, act, i, TRUE, from)
    BY <1>3 DEF Again, ContinueBatch
  <2>2. PICK s \in Starts(act, i, TRUE) : Launch(s)
    BY <2>1 DEF StartJob, NotStarted, Ask
  <2>3. s.interactive = TRUE
    BY <2>2 DEF Starts, Start
  <2>4. job'.interactive = s.interactive
    BY <2>2 DEF Launch, NewJob
  <2>5. QED BY <2>3, <2>4
<1>4. CASE Timer
  BY <1>4
<1>5. QED
  <2>1. CASE User
    BY <1>1, <2>1 DEF User, Select, Batch, Save, Edit, New, CancelDraft, Toggle, Cancel, OpenImport,
                      Exit, Shut, Open
  <2>2. CASE Worker
    BY <2>2 DEF Worker, WriteJournal, AskRecycle, Return, Running
  <2>3. CASE Interface
    BY <1>3, <2>3 DEF Interface, Recycle, ShellReturns, AskTrust, Trust, Done, ExitDone, Shut, BatchEnds,
                      ManagerInv, PlaceInv, Finish, FinishSwitch, FinishAdmin, FinishOk, FinishUnbind,
                      FinishFailed, After
  <2>4. CASE Dialogs \/ Import
    BY <1>2, <2>4 DEF Dialogs, DialogCancelled, NotStarted, Import
  <2>5. QED BY <1>4, <2>1, <2>2, <2>3, <2>4 DEF Next

\* A failed transfer whose pause was saved (sync_manager.c 800-803) stops automatic
\* work for the folder: no automatic run starts on it before the user asked for it
\* (finish_job, WM_TIMER).
THEOREM NoUnaskedRetry == Spec => NoAutoAfterFailure
<1>1. ManagerInv /\ [Next]_vars =>
         [(job = None /\ job' # None /\ ~job'.interactive) => job'.folder \notin failed]_vars
  <2>1. ASSUME ManagerInv, Next, job = None, job' # None, ~job'.interactive
        PROVE  job'.folder \notin failed
    <3>1. Timer
      BY <2>1, Unasked
    <3>2. PICK i \in Due : StartJob(window, "RUN", i, FALSE, "timer")
      BY <3>1 DEF Timer
    <3>3. at = "loop" /\ i \in 1 .. Count /\ i \in 0 .. MaxPairs /\ settings.pairs[i] \in settings.auto
      BY <2>1, <3>1, <3>2, TypeFacts DEF Timer, Due, ManagerInv
    <3>4. PICK s \in Starts("RUN", i, FALSE) : Launch(s) /\ ~Refused("RUN", i)
      BY <2>1, <3>2 DEF StartJob, NotStarted, Ask
    <3>5. "RUN" \in FolderJob /\ "RUN" \in Action
      BY DEF Action, Ordinary, FolderJob, Compares
    <3>6. Wanted(s) /\ s.act = "RUN" /\ s.index = i
      <4>1. Wanted(s)
        BY <2>1, <3>3, <3>4, <3>5, StartFacts
      <4>2. QED BY <3>4, <3>5, <4>1 DEF Starts, Start
    <3>7. job'.folder = settings.pairs[i]
      BY <2>1, <3>4, <3>5, <3>6, LaunchedJob
    <3>8. QED BY <2>1, <3>3, <3>7 DEF ManagerInv, SettingsInv
  <2>2. QED BY <2>1
<1>2. QED BY <1>1, ManagerAlways, PTL DEF Spec, NoAutoAfterFailure
=============================================================================
