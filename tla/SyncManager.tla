----------------------------- MODULE SyncManager -----------------------------
(***************************************************************************)
(* The synchronization window of NOVA (src/ui/sync_manager.c): one job at  *)
(* a time in a worker thread, batches over checked folders, the timer that *)
(* starts automatic work, the comparisons it shows and the checkpoint of a *)
(* server migration.  All handlers run on the interface thread, but every  *)
(* dialog dispatches messages while its handler waits, so handlers nest.   *)
(***************************************************************************)
EXTENDS Integers, Sequences, SequencesExt

CONSTANTS
    Folder,        \* local folders
    Server,        \* server profiles
    None,
    Initial,       \* the bound folders at first, a sequence
    Offered,       \* the actions the user takes in this instance
    MaxPairs,      \* SYNC_PAIR_LIMIT
    MaxActs,       \* commands of the user
    MaxFaults      \* saves and messages that fail

Compares  == {"CHECK", "RUN", "PUSH", "PULL", "RESOLVE"}
FolderJob == Compares \union {"BIND", "UNBIND"}
Ordinary  == FolderJob \union {"REFRESH"}
Admin     == {"DEPLOY", "ATTACH", "MIGRATE", "RESTORE"}
Action    == Ordinary \union Admin

\* struct job, for the worker and for finish_job
Job == [act : Action, index : 0 .. MaxPairs, interactive : BOOLEAN,
        target : Server \union {None}, server : Server, folder : Folder \union {None},
        cancel : BOOLEAN, at : {"run", "recycle", "done", "silent"},
        result : {"NONE", "OK", "FAILED", "NETWORK", "CANCELLED", "TRUST"},
        switched : BOOLEAN, host : Server \union {None}, changes : BOOLEAN]

\* Settings with one directory twice are not loaded or saved (sync_model.c 67-70).
Distinct(pairs) == \A i, j \in DOMAIN pairs : pairs[i] = pairs[j] => i = j

ASSUME ManagerAssumption ==
    /\ Initial \in Seq(Folder) /\ Len(Initial) <= MaxPairs /\ Distinct(Initial)
    /\ Server # {} /\ None \notin Folder \union Server /\ None \notin Job
    /\ Offered \subseteq Action
    /\ MaxPairs \in Nat \ {0} /\ MaxActs \in Nat /\ MaxFaults \in Nat

VARIABLES
    settings,  \* pairs, auto: the folders not paused, server: server_id; saved
    window,    \* selected, editing, draft, batch, next, scope, again, pending
    plans,     \* the comparison shown for each index
    job,       \* the running job and its worker
    dialog,    \* the start_job whose server or login dialog is open
    importing, \* the file dialog of import_legacy is open
    at,        \* what the interface thread is doing
    journal,   \* server-migration.json on disk
    pins,      \* hosts whose key is trusted, in the credential store
    failed,    \* history: folders whose last transfer failed
    acts, faults

vars == <<settings, window, plans, job, dialog, importing, at, journal, pins,
          failed, acts, faults>>

Index  == 1 .. MaxPairs
Count  == Len(settings.pairs)
Batches == {"CHECK", "RUN", "PUSH", "PULL"}

\* What a handler that never returns, or returns into a freed job, leaves.
Defects == {"overrun", "replaced", "freed", "hung"}

\* Mistake: an unfinished migration is not looked for when the window is made.
FreshUnaware(pairs) ==
    [selected |-> IF pairs = <<>> THEN 0 ELSE 1, editing |-> FALSE,
     draft |-> FALSE, batch |-> "NONE", next |-> 1, scope |-> {},
     again |-> "NONE", pending |-> FALSE]

\* Everything window creation and shutdown reset.
Fresh(pairs) ==
    [selected |-> IF pairs = <<>> THEN 0 ELSE 1, editing |-> FALSE,
     draft |-> FALSE, batch |-> "NONE", next |-> 1, scope |-> {},
     again |-> "NONE", pending |-> journal # None]

NoPlans == [i \in Index |-> None]

Init ==
    /\ \E on \in SUBSET Range(Initial) :
          settings = [pairs |-> Initial, auto |-> on, server |-> CHOOSE s \in Server : TRUE]
    /\ journal = None /\ pins \in SUBSET Server
    /\ window = Fresh(Initial)
    /\ plans = NoPlans
    /\ job = None /\ dialog = None /\ importing = FALSE
    /\ at = "loop"
    /\ failed = {}
    /\ acts = 0 /\ faults = 0

Fault == faults < MaxFaults /\ faults' = faults + 1

\* persist: the settings are saved whole and adopted, or neither.
Persist(next) ==
    \/ settings' = next /\ UNCHANGED faults
    \/ UNCHANGED settings /\ Fault

\* History: the comparisons of these folders are no longer true.
Outdated(folders) ==
    [i \in Index |-> IF plans[i] # None /\ plans[i].of \in folders
                     THEN [plans[i] EXCEPT !.current = FALSE] ELSE plans[i]]

\* invalidate_comparison
Invalidated(shown, indices) == [i \in Index |-> IF i \in indices THEN None ELSE shown[i]]

\* Mistake: the comparisons of the folders behind are not moved up.
NotShifted(shown, index) == Invalidated(shown, {index})

\* forget_folder_view
Shifted(shown, index) ==
    [i \in Index |-> IF i < index THEN shown[i]
                     ELSE IF i < MaxPairs THEN shown[i + 1] ELSE None]

-----------------------------------------------------------------------------
\* Starting a job: start_job_impl.

Refused(act, i) ==
    \/ job # None
    \/ act \in Ordinary /\ window.pending
    \/ act \in FolderJob /\ i \notin 1 .. Count
    \/ act = "RESOLVE" /\ plans[i] = None

\* The dialogs for target and login come before the job exists.
Start(act, i, interactive, target) ==
    [act |-> act, index |-> IF act \in FolderJob THEN i ELSE 0,
     interactive |-> interactive, target |-> target]

\* A pending migration fixes the target that select_server may offer.
Targets == IF window.pending THEN {journal.dst} ELSE Server

Starts(act, i, interactive) ==
    {Start(act, i, interactive, t) :
        t \in IF act \in Admin \ {"RESTORE"} THEN Targets ELSE {None}}

NewJob(s) ==
    [act |-> s.act, index |-> s.index, interactive |-> s.interactive,
     target |-> s.target, server |-> settings.server,
     folder |-> IF s.index > 0 THEN settings.pairs[s.index] ELSE None,
     cancel |-> FALSE, at |-> "run", result |-> "NONE", switched |-> FALSE,
     host |-> None, changes |-> FALSE]

ComparisonsAtStart(s) ==
    IF s.act \in Compares
    THEN Invalidated(Outdated({settings.pairs[s.index]}), {s.index})
    ELSE plans

PausedForMigration(s) ==
    IF s.act = "MIGRATE" THEN [settings EXCEPT !.auto = {}] ELSE settings

Launch(s) ==
    /\ job' = NewJob(s)
    /\ plans' = ComparisonsAtStart(s)
    /\ settings' = PausedForMigration(s)
    /\ at' = "loop"
    /\ UNCHANGED <<importing, journal, pins, failed, faults>>

NoBatch(w) == [w EXCEPT !.batch = "NONE", !.next = 1, !.scope = {}]

\* start_job returned FALSE to the timer, to continue_batch or to a command.
NotStarted(w, from, i) ==
    /\ at' = "loop"
    /\ IF from = "timer"
       THEN Persist([settings EXCEPT !.auto = @ \ {settings.pairs[i]}])
       ELSE UNCHANGED <<settings, faults>>
    /\ window' = IF from = "next" THEN NoBatch(w) ELSE w
    /\ UNCHANGED <<plans, job, importing, journal, pins, failed, acts>>

\* The dialogs are shown only to a start the user asked for.
Ask(s, from) ==
    /\ s.interactive
    /\ dialog' = [start |-> s, from |-> from]
    /\ at' = "loop"
    /\ UNCHANGED <<settings, plans, job, importing, journal, pins, failed, faults>>

StartJob(w, act, i, interactive, from) ==
    \/ NotStarted(w, from, i) /\ UNCHANGED dialog
    \/ /\ ~Refused(act, i)
       /\ \E s \in Starts(act, i, interactive) :
             \/ Launch(s) /\ UNCHANGED dialog
             \/ Ask(s, from)
       /\ window' = w
       /\ UNCHANGED acts

\* The dialog returns into start_job_impl, which does not look at job again.
DialogAccepted ==
    /\ at = "loop" /\ dialog # None /\ ~importing
    /\ dialog' = None
    /\ IF job = None
       THEN /\ dialog.start.act = "RESOLVE" => plans[dialog.start.index] # None
            /\ Launch(dialog.start)
            /\ UNCHANGED <<window, acts>>
       ELSE /\ at' = "overrun"
            /\ UNCHANGED <<settings, window, plans, job, importing, journal,
                           pins, failed, acts, faults>>

DialogCancelled ==
    /\ at = "loop" /\ dialog # None /\ ~importing
    /\ dialog' = None
    /\ NotStarted(window, dialog.from, dialog.start.index)

-----------------------------------------------------------------------------
\* Commands.  controls() disables nearly all of them while a job runs, and a
\* dialog disables the window.

Enabled == at = "loop" /\ dialog = None /\ ~importing /\ acts < MaxActs
Idle    == Enabled /\ job = None
Acted   == acts' = acts + 1

Select(i) ==
    /\ Idle /\ ~window.editing
    /\ i \in 1 .. Count /\ i # window.selected
    /\ Acted
    /\ window' = [window EXCEPT !.selected = i]
    /\ UNCHANGED <<settings, plans, job, dialog, importing, at, journal, pins, failed, faults>>

\* The buttons of one action, for the selected folder or the servers page.
MayCommand(act) ==
    /\ act \in Offered \ {"CHECK", "PUSH", "PULL"}
    /\ act \in {"RUN", "BIND", "RESOLVE"} => ~window.pending
    /\ act \in {"BIND", "UNBIND", "RESOLVE"} => ~window.editing
    /\ act = "RESTORE" => window.pending

Command(act) ==
    /\ Idle /\ MayCommand(act)
    /\ ~Refused(act, window.selected)
    /\ Acted
    /\ \E s \in Starts(act, window.selected, TRUE) :
          \/ Launch(s) /\ UNCHANGED dialog
          \/ Ask(s, "user")
    /\ UNCHANGED window

\* start_batch, for the boxes that are checked now; Check all takes them all.
Batch(act, checked) ==
    /\ Idle /\ ~window.editing /\ ~window.pending
    /\ act \in Offered \intersect Batches
    /\ checked # {} /\ (act = "CHECK" => checked = 1 .. Count)
    /\ Acted
    /\ window' = [window EXCEPT !.batch = act, !.next = 1, !.scope = checked]
    /\ at' = "next"
    /\ UNCHANGED <<settings, plans, job, dialog, importing, journal, pins, failed, faults>>

\* C_EDIT, C_CANCEL_EDIT and new_pair
Edit ==
    /\ Idle /\ ~window.draft /\ window.selected \in 1 .. Count
    /\ Acted
    /\ window' = [window EXCEPT !.editing = ~@]
    /\ UNCHANGED <<settings, plans, job, dialog, importing, at, journal, pins, failed, faults>>

New ==
    /\ Idle /\ ~window.editing /\ Count < MaxPairs
    /\ Acted
    /\ window' = [window EXCEPT !.selected = Count + 1, !.draft = TRUE, !.editing = TRUE]
    /\ UNCHANGED <<settings, plans, job, dialog, importing, at, journal, pins, failed, faults>>

CancelDraft ==
    /\ Idle /\ window.draft
    /\ Acted
    /\ window' = [window EXCEPT !.selected = IF Count = 0 THEN 0 ELSE 1,
                                !.draft = FALSE, !.editing = FALSE]
    /\ UNCHANGED <<settings, plans, job, dialog, importing, at, journal, pins, failed, faults>>

\* save_pair: a new folder, or another directory for the selected one; either
\* is paused, and connected by a job that follows at once.
WithDraft(f) == [settings EXCEPT !.pairs = Append(@, f)]
WithPath(f)  == [settings EXCEPT !.auto = @ \ {f}]

Saved(f) == IF window.draft THEN WithDraft(f) ELSE WithPath(f)

Save(f) ==
    /\ Idle /\ window.editing
    /\ IF window.draft THEN f \in Folder \ Range(settings.pairs)
                       ELSE f = settings.pairs[window.selected]
    /\ Acted
    /\ Persist(Saved(f))
    /\ IF faults' = faults
       THEN /\ window' = [window EXCEPT !.draft = FALSE, !.editing = FALSE, !.again = "BIND"]
            /\ plans' = Invalidated(Outdated({f}), {window.selected})
            /\ at' = "again"
       ELSE UNCHANGED <<window, plans, at>>
    /\ UNCHANGED <<job, dialog, importing, journal, pins, failed>>

\* C_AUTO
Toggle ==
    LET f == settings.pairs[window.selected] IN
    /\ Idle /\ ~window.editing /\ ~window.pending /\ window.selected \in 1 .. Count
    /\ Acted
    /\ Persist([settings EXCEPT !.auto = IF f \in @ THEN @ \ {f} ELSE @ \union {f}])
    /\ failed' = failed \ {f}
    /\ UNCHANGED <<window, plans, job, dialog, importing, at, journal, pins>>

\* C_PAUSE
Cancel ==
    /\ Enabled /\ job # None /\ ~job.cancel
    /\ Acted
    /\ job' = [job EXCEPT !.cancel = TRUE]
    /\ window' = NoBatch(window)
    /\ UNCHANGED <<settings, plans, dialog, importing, at, journal, pins, failed, faults>>

OpenImport ==
    /\ Idle /\ Acted
    /\ importing' = TRUE
    /\ UNCHANGED <<settings, window, plans, job, dialog, at, journal, pins, failed, faults>>

\* import_legacy: other folders, all paused, the first one selected, so that an
\* editor that is still open is now about that one.  A job the timer started
\* while the file dialog was open now has the index of another folder.
Import ==
    /\ at = "loop" /\ importing
    /\ importing' = FALSE
    /\ \/ UNCHANGED <<settings, window, plans, at, failed, faults>>
       \/ \E pairs \in {SubSeq(Initial, 1, n) : n \in 1 .. Len(Initial)}, s \in Server :
             /\ Persist([pairs |-> pairs, auto |-> {}, server |-> s])
             /\ IF faults' = faults
                THEN /\ window' = [window EXCEPT !.selected = 1, !.draft = FALSE]
                     /\ plans' = Invalidated(Outdated(Folder), Index)
                     /\ at' = IF job = None THEN "loop" ELSE "replaced"
                     /\ failed' = {}
                ELSE UNCHANGED <<window, plans, at, failed>>
    /\ UNCHANGED <<job, dialog, journal, pins, acts>>

-----------------------------------------------------------------------------
\* The timer: the first folder that is due, once nothing else is going on in
\* the window.  That a dialog is open does not count.
Due == {i \in 1 .. Count : settings.pairs[i] \in settings.auto}

\* Mistake: the timer does not look at the editor.
MayRunWhileEditing ==
    /\ job = None /\ window.batch = "NONE"
    /\ ~window.pending

MayRunAutomatically ==
    /\ job = None /\ window.batch = "NONE"
    /\ ~window.editing /\ ~window.pending

Timer ==
    /\ at = "loop" /\ MayRunAutomatically
    /\ \E i \in Due : StartJob(window, "RUN", i, FALSE, "timer")

-----------------------------------------------------------------------------
\* The worker: sync_client_run or sync_server_run, then DONE_MESSAGE.

Running == job # None /\ job.at = "run" /\ at \notin Defects

\* The ticket is written before the source is asked to freeze.
WriteJournal ==
    /\ Running /\ job.act = "MIGRATE" /\ journal = None /\ job.target # job.server
    /\ journal' = [src |-> job.server, dst |-> job.target]
    /\ UNCHANGED <<settings, window, plans, job, dialog, importing, at, pins, failed, acts, faults>>

\* recycle_callback waits for the interface thread.
AskRecycle ==
    /\ Running /\ job.act \in {"RUN", "PULL", "RESOLVE"}
    /\ job' = [job EXCEPT !.at = "recycle"]
    /\ UNCHANGED <<settings, window, plans, dialog, importing, at, journal, pins, failed,
                   acts, faults>>

\* The servers the job talks to; each answers only once its key is trusted.
Endpoints == (IF job.act \in Ordinary \union {"MIGRATE", "RESTORE"} THEN {job.server} ELSE {})
                 \union ({job.target} \ {None})

\* The checks a migration or a restoration has to pass.
MaySucceed ==
    /\ Endpoints \subseteq pins
    /\ job.act = "MIGRATE" => journal = [src |-> job.server, dst |-> job.target]
    /\ job.act = "RESTORE" => journal # None /\ journal.src = job.server

Results ==
    (IF MaySucceed THEN {"OK"} ELSE {}) \union {"FAILED", "NETWORK"}
        \union (IF job.cancel THEN {"CANCELLED"} ELSE {})

\* Deployment switches to the target when it was part of the cluster before.
Switches(result) ==
    IF result # "OK" THEN {FALSE}
    ELSE IF job.act = "DEPLOY" THEN BOOLEAN
    ELSE {job.act \in {"ATTACH", "MIGRATE"}}

\* A refused publication returns a comparison as well.
Changes(result) ==
    IF job.act \notin Compares THEN {FALSE}
    ELSE IF result = "OK" THEN {TRUE}
    ELSE IF job.act = "PUSH" /\ result = "FAILED" THEN BOOLEAN
    ELSE {FALSE}

Answer(done) ==
    /\ \/ job' = [done EXCEPT !.at = "done"] /\ UNCHANGED faults
       \/ job' = [done EXCEPT !.at = "silent"] /\ Fault      \* not posted
    /\ journal' = IF done.act = "RESTORE" /\ done.result = "OK" THEN None ELSE journal

Return ==
    /\ Running
    /\ \/ \E r \in Results : \E s \in Switches(r), c \in Changes(r) :
             Answer([job EXCEPT !.result = r, !.switched = s, !.changes = c])
       \/ \E host \in Endpoints \ pins :      \* the host key is not known
             Answer([job EXCEPT !.result = "TRUST", !.host = host])
    /\ UNCHANGED <<settings, window, plans, dialog, importing, at, pins, failed, acts>>

-----------------------------------------------------------------------------
\* Mistake: the event is not set for a cancelled job.
RecycleUnlessCancelled ==
    /\ at \in {"loop", "exit"} /\ job # None /\ job.at = "recycle" /\ ~job.cancel
    /\ \/ job' = [job EXCEPT !.at = "run"] /\ UNCHANGED at
       \/ at' = "shell" /\ UNCHANGED job
    /\ UNCHANGED <<settings, window, plans, dialog, importing, journal, pins, failed,
                   acts, faults>>

\* recycle_on_ui: the shell asks, with messages dispatched, unless the job was
\* cancelled or the file is not the one the worker saw.
Recycle ==
    /\ at \in {"loop", "exit"} /\ job # None /\ job.at = "recycle"
    /\ \/ job' = [job EXCEPT !.at = "run"] /\ UNCHANGED at
       \/ ~job.cancel /\ at' = "shell" /\ UNCHANGED job
    /\ UNCHANGED <<settings, window, plans, dialog, importing, journal, pins, failed,
                   acts, faults>>

ShellReturns ==
    /\ at = "shell"
    /\ job' = [job EXCEPT !.at = "run"]
    /\ at' = "loop"
    /\ UNCHANGED <<settings, window, plans, dialog, importing, journal, pins, failed,
                   acts, faults>>

-----------------------------------------------------------------------------
\* finish_job.

Fatal == {"NETWORK", "STORAGE", "CANCELLED", "TRUST"}

Untrusted == job.result = "TRUST" /\ job.interactive

\* The question is asked inside the handler of DONE_MESSAGE.
AskTrust ==
    /\ at = "loop" /\ job # None /\ job.at = "done" /\ Untrusted
    /\ at' = "trust"
    /\ UNCHANGED <<settings, window, plans, job, dialog, importing, journal, pins, failed,
                   acts, faults>>

\* What follows: the accepted host is tried again, or the batch goes on.
\* start_job takes the selected folder for a retry, as it does for a command.
After(w, result, retry) ==
    /\ window' = IF retry THEN [w EXCEPT !.again = job.act]
                 ELSE IF result \in Fatal THEN NoBatch(w) ELSE w
    /\ at' = IF retry THEN "again" ELSE IF window'.batch # "NONE" THEN "next" ELSE "loop"
    /\ job' = None

\* The settings name the new server before the ticket is set aside.  That setting
\* it aside fails is not a case of the model: the code ignores the result (738);
\* the ticket then names the server in use, another migration is refused, and the
\* next opening of the window sets it aside again.
FinishSwitch ==
    /\ job.switched
    /\ Persist([settings EXCEPT !.server = job.target])
    /\ IF faults' = faults
       THEN /\ journal' = None
            /\ plans' = Invalidated(Outdated(Folder), Index)
            /\ After([window EXCEPT !.pending = FALSE], "OK", FALSE)
       ELSE /\ UNCHANGED <<plans, journal>>
            /\ After([window EXCEPT !.pending = journal # None], "STORAGE", FALSE)
    /\ UNCHANGED failed

FinishAdmin(retry) ==
    /\ ~job.switched
    /\ After([window EXCEPT !.pending = journal # None], job.result, retry)
    /\ UNCHANGED <<settings, plans, journal, failed, faults>>

\* The index is compared with the number of folders once more.
InRange == job.index \in 1 .. Count

\* The comparison a finished job brings is stored under its index.
Shown(shown) ==
    IF InRange /\ job.changes
    THEN [shown EXCEPT ![job.index] = [of |-> job.folder, current |-> TRUE]]
    ELSE shown

WithoutFolder(i) ==
    [settings EXCEPT !.pairs = RemoveAt(@, i), !.auto = @ \ {settings.pairs[i]}]

FinishUnbind ==
    /\ Persist(WithoutFolder(job.index))
    /\ LET w == [window EXCEPT !.selected = IF @ < Len(settings'.pairs) THEN @
                                            ELSE Len(settings'.pairs)]
       IN IF faults' = faults
          THEN /\ plans' = Shifted(plans, job.index)
               /\ After([w EXCEPT !.editing = FALSE, !.draft = FALSE], "OK", FALSE)
          ELSE /\ UNCHANGED plans
               /\ After(w, "STORAGE", FALSE)
    /\ failed' = failed \ {job.folder}

FinishOk ==
    /\ plans' = IF job.act = "REFRESH"
                THEN Invalidated(Outdated(Folder), 1 .. Count) ELSE Shown(plans)
    /\ After(window, "OK", FALSE)
    /\ UNCHANGED <<settings, failed, faults>>

\* Mistake: the folder the user looks at is paused.
PausedSelected ==
    IF window.selected \in 1 .. Count
    THEN [settings EXCEPT !.auto = @ \ {settings.pairs[window.selected]}]
    ELSE settings

\* A failure pauses the folder of the job, except a failed check.
PausedFolder == [settings EXCEPT !.auto = @ \ {settings.pairs[job.index]}]

FinishFailed(retry) ==
    /\ IF ~retry /\ InRange /\ job.act # "CHECK"
       THEN /\ Persist(PausedFolder)
            /\ failed' = IF faults' = faults THEN failed \union {job.folder} ELSE failed
       ELSE UNCHANGED <<settings, faults, failed>>
    /\ plans' = Shown(plans)
    /\ After(window, job.result, retry)

Finish(retry) ==
    /\ \/ job.act \in Admin /\ (FinishSwitch \/ FinishAdmin(retry))
       \/ /\ job.act \in Ordinary
          /\ CASE job.result # "OK" -> FinishFailed(retry)
               [] job.act = "UNBIND" -> FinishUnbind
               [] OTHER -> FinishOk
          /\ UNCHANGED journal
    /\ pins' = IF retry THEN pins \union {job.host} ELSE pins
    /\ UNCHANGED <<dialog, importing, acts>>

Done ==
    /\ at = "loop" /\ job # None /\ job.at = "done" /\ ~Untrusted
    /\ Finish(FALSE)

Trust ==
    /\ at = "trust"
    /\ \E yes \in BOOLEAN : Finish(yes)

Again ==
    /\ at = "again"
    /\ StartJob([window EXCEPT !.again = "NONE"], window.again, window.selected, TRUE, "again")

\* continue_batch
Remaining == {i \in window.scope : i >= window.next /\ i <= Count}

First(S) == CHOOSE i \in S : \A k \in S : i <= k

BatchEnds ==
    /\ at = "next" /\ Remaining = {}
    /\ window' = NoBatch(window)
    /\ at' = "loop"
    /\ UNCHANGED <<settings, plans, job, dialog, importing, journal, pins, failed, acts, faults>>

ContinueBatch ==
    /\ at = "next" /\ Remaining # {}
    /\ LET i == First(Remaining) IN
       StartJob([window EXCEPT !.next = i + 1], window.batch, i, TRUE, "next")

-----------------------------------------------------------------------------
\* The main window is not disabled by the dialogs of this one: the user may
\* leave NOVA at any time, and the handlers that wait are never resumed in
\* their own state.  sync_manager_shutdown waits for the worker.
Shut ==
    /\ at' = "closed"
    /\ job' = None /\ dialog' = None /\ importing' = FALSE
    /\ plans' = NoPlans

Exit ==
    /\ \/ at = "loop" /\ job = None /\ Shut
       \/ /\ at = "loop" /\ job # None
          /\ job' = [job EXCEPT !.cancel = TRUE]
          /\ dialog' = None /\ importing' = FALSE
          /\ at' = "exit"
          /\ UNCHANGED plans
       \/ /\ at \in {"trust", "shell"}
          /\ at' = IF at = "trust" THEN "freed" ELSE "hung"
          /\ UNCHANGED <<job, dialog, importing, plans>>
    /\ UNCHANGED <<settings, window, journal, pins, failed, acts, faults>>

\* finish_job looks at no result while shutting down.
ExitDone ==
    /\ at = "exit" /\ job.at \in {"done", "silent"}
    /\ Shut
    /\ UNCHANGED <<settings, window, journal, pins, failed, acts, faults>>

Open ==
    /\ at = "closed" /\ acts < MaxActs /\ Acted
    /\ at' = "loop"
    /\ window' = Fresh(settings.pairs)
    /\ UNCHANGED <<settings, plans, job, dialog, importing, journal, pins, failed, faults>>

-----------------------------------------------------------------------------
Dialogs == DialogAccepted \/ DialogCancelled

User ==
    \/ \E i \in Index : Select(i)
    \/ \E act \in Action : Command(act)
    \/ \E act \in Batches : \E checked \in SUBSET (1 .. Count) : Batch(act, checked)
    \/ \E f \in Folder : Save(f)
    \/ Edit \/ New \/ CancelDraft \/ Toggle \/ Cancel \/ OpenImport \/ Exit \/ Open

Worker == WriteJournal \/ AskRecycle \/ Return

Interface ==
    \/ Recycle \/ ShellReturns \/ AskTrust \/ Trust \/ Done \/ ExitDone
    \/ Again \/ BatchEnds \/ ContinueBatch

Next == User \/ Timer \/ Worker \/ Interface \/ Dialogs \/ Import

Spec == Init /\ [][Next]_vars

\* A run ends, though it may ask for several files to be recycled; messages
\* are dispatched; dialogs and questions are answered.
Fairness ==
    /\ SF_vars(Return)
    /\ WF_vars(Interface) /\ WF_vars(Dialogs) /\ WF_vars(Import)

FairSpec == Spec /\ Fairness

-----------------------------------------------------------------------------
Settings == [pairs : Seq(Folder), auto : SUBSET Folder, server : Server]
Window == [selected : 0 .. MaxPairs, editing : BOOLEAN, draft : BOOLEAN,
           batch : Batches \union {"NONE"}, next : Nat, scope : SUBSET Index,
           again : Action \union {"NONE"}, pending : BOOLEAN]
Plan == [of : Folder, current : BOOLEAN]
Ticket == [src : Server, dst : Server]
Opening == [act : Action, index : 0 .. MaxPairs, interactive : BOOLEAN, target : Server \union {None}]

TypeOK ==
    /\ settings \in Settings /\ Count <= MaxPairs
    /\ window \in Window
    /\ plans \in [Index -> Plan \union {None}]
    /\ job \in Job \union {None}
    /\ dialog \in [start : Opening, from : {"user", "again", "next"}] \union {None}
    /\ importing \in BOOLEAN
    /\ at \in {"loop", "next", "again", "trust", "shell", "exit", "closed"} \union Defects
    /\ journal \in Ticket \union {None}
    /\ pins \subseteq Server /\ failed \subseteq Folder \union {None}
    /\ acts \in Nat /\ faults \in Nat

\* The comparison shown for a folder is about that folder, and nothing has
\* happened since that invalidates it (sync/README.md: starting a file
\* operation, refreshing or switching servers): start_job_impl, finish_job,
\* forget_folder_view, save_pair and import_legacy keep it so between them.
ComparisonsAreCurrent ==
    at \notin Defects =>
        \A i \in Index : plans[i] # None =>
            i <= Count /\ plans[i].of = settings.pairs[i] /\ plans[i].current

\* A failed transfer pauses automatic work for that folder (sync/README.md):
\* no automatic run starts on it before the user asked for it.  A folder counts
\* as failed once the pause is saved: a save that fails gives the setting back
\* (sync_manager.c 800-803) and the timer may start the folder again.
NoAutoAfterFailure ==
    [][(job = None /\ job' # None /\ ~job'.interactive) => job'.folder \notin failed]_vars

\* While a migration is unfinished no folder is synchronized, automatically or
\* by hand, also after NOVA was closed in the middle of it and opened again.
MigrationQuiet ==
    (journal # None /\ at \notin Defects) =>
        settings.auto = {} /\ (job # None => job.act \in Admin)

\* Automatic work waits while a folder is being edited (sync/README.md): none
\* is started then, and no folder is edited while one runs.
EditingUndisturbed ==
    (window.editing /\ job # None /\ at \notin Defects) => job.interactive

\* Jobs, batches, retries and the wait at exit come to an end, unless the
\* message that a worker is done was lost or a nested handler was cut off.
AtRest == at \in {"loop", "closed"} /\ job = None

WorkEnds ==
    ~AtRest ~> (AtRest \/ at \in Defects \/ (job # None /\ job.at = "silent"))

\* Only the checked boxes set the scope of a batch (sync/README.md): while it
\* runs, the jobs are for checked folders.
BatchScope ==
    (window.batch # "NONE" /\ job # None) => job.index \in window.scope
=============================================================================
