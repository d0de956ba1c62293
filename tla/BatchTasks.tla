----------------------------- MODULE BatchTasks -----------------------------
(***************************************************************************)
(* Saved batch tasks: the task window and its scheduler                    *)
(* (src/ui/batch_tasks.c), the queue of launches (src/core/batch_task.c)   *)
(* and the threads that run commands (src/platform/batch_runner.c).        *)
(*                                                                         *)
(* The interface thread owns the saved collection, the statuses shown, the *)
(* queue and the table of active runs.  A run has a coordinating thread    *)
(* with an immutable snapshot; it reports by posting messages, which the   *)
(* interface thread handles in order, interleaved with commands of the     *)
(* user in the task window and launches from the main window.  A folder    *)
(* picker and a confirmation keep messages and launches flowing while they *)
(* are open.  Folder and command of a subtask are one value, a Step.       *)
(***************************************************************************)
EXTENDS Naturals, Sequences, FiniteSets

CONSTANTS
    Step,          \* what a subtask may do: a folder with its command
    Saved,         \* the collection found on disk
    TaskLimit,     \* BATCH_TASK_LIMIT
    RowLimit,      \* BATCH_DIRECTORY_LIMIT: rows of a task, slots of runs
    MaxActs,       \* bound: commands of the user
    MaxFaults      \* bound: failing saves, threads that cannot be created,
                   \*        messages that cannot be posted

Slot == 1 .. RowLimit
Mode == {"SEQUENTIAL", "PARALLEL"}

\* Identifiers of tasks, enough of them for a collection and a queue that is
\* full of deleted tasks, and the tasks themselves (BatchTask).
TaskId == 1 .. 2 * TaskLimit
Task == {t \in [id : TaskId, rows : Seq(Step), mode : Mode] : Len(t.rows) <= RowLimit}

\* No two tasks of a collection share an identifier.
Distinct(T) == \A i, j \in DOMAIN T : T[i].id = T[j].id => i = j

\* The collection is validated when it is loaded (storage.c 296-324).
ASSUME BatchAssumption ==
    /\ Step \subseteq Nat \ {0}
    /\ {TaskLimit, RowLimit} \subseteq Nat \ {0}
    /\ {MaxActs, MaxFaults} \subseteq Nat
    /\ Saved \in Seq(Task) /\ Len(Saved) <= TaskLimit /\ Distinct(Saved)

VARIABLES
    tasks,         \* collection, as saved
    sel,           \* selected_task
    row,           \* selected_step, 0 without one
    draft,         \* the editor of the selected row: a step, or 0 when empty
    shown,         \* statuses of the selected task's rows
    active,        \* active_runs: the row a slot runs, and whether cancelling
    queue,         \* task_queue.items
    activeId,      \* task_queue.active_id, 0 without one
    cancelling,    \* cancel_requested
    screen,        \* the task window and the dialog over it
    dialogTask,    \* add_directory's task_id
    inbox,         \* messages posted to the interface thread
    worker,        \* per slot: the coordinating thread
    acts, faults, lost, \* counters of the bounds
    runs,          \* history: number of runs started
    saveFailed,    \* history: the last save did not succeed
    outdated       \* history: a run's snapshot was not, or is no longer, the task

uiVars == <<tasks, sel, row, draft, shown>>
queueVars == <<queue, activeId, cancelling>>
history == <<runs, outdated>>
vars == <<uiVars, active, queueVars, screen, dialogTask, inbox, worker,
          acts, faults, lost, history, saveFailed>>

Done == {"SUCCEEDED", "FAILED", "SKIPPED", "CANCELLED"}
Status == Done \union {"WAITING", "RUNNING", "CANCELLING"}

Free == [row |-> 0, whole |-> FALSE, cancel |-> FALSE, run |-> 0]
Gone == [id |-> 0, rows |-> <<>>, mode |-> "SEQUENTIAL", at |-> <<>>,
         cancel |-> FALSE, run |-> 0]
Waiting == [is |-> "WAITING", of |-> 0]
Blank == [i \in Slot |-> Waiting]
Resume == [type |-> "RESUME", slot |-> 0, index |-> 0, step |-> 0, run |-> 0]

Rows == IF tasks = <<>> THEN <<>> ELSE tasks[sel].rows
Ids(T) == {T[i].id : i \in DOMAIN T}
Place(T, id) == CHOOSE i \in DOMAIN T : T[i].id = id
Used(A) == {s \in Slot : A[s] # Free}
Running == Used(active) # {}
WholeRunning == \E s \in Used(active) : active[s].whole
SlotOf(i) == {s \in Used(active) : active[s].row = i}
StepRunning(i) == WholeRunning \/ SlotOf(i) # {}
StepAvailable(i) == i \in 1 .. Len(Rows) /\ ~cancelling /\ ~StepRunning(i)
Remove(s, i) == SubSeq(s, 1, i - 1) \o SubSeq(s, i + 1, Len(s))

MayFail == faults + lost < MaxFaults

Init ==
    /\ tasks = Saved /\ sel = 1 /\ row = 0 /\ draft = 0 /\ shown = Blank
    /\ active = [s \in Slot |-> Free] /\ worker = [s \in Slot |-> Gone]
    /\ queue = <<>> /\ activeId = 0 /\ cancelling = FALSE
    /\ screen = "open" /\ dialogTask = 0 /\ inbox = <<>>
    /\ acts = 0 /\ faults = 0 /\ lost = 0 /\ runs = 0
    /\ saveFailed = FALSE /\ outdated = FALSE

-----------------------------------------------------------------------------
(* save_command: what the editor holds becomes the row *)

SaveSkips == WholeRunning \/ tasks = <<>>
Editing == row \in 1 .. Len(Rows) /\ ~StepRunning(row)
Acceptable ==
    Editing /\ draft # Rows[row] =>
        draft # 0 /\ \A i \in 1 .. Len(Rows) : i # row => Rows[i] # draft
NewRows == IF Editing THEN [Rows EXCEPT ![row] = draft] ELSE Rows

\* The state a successful save leaves.
SavedTasks == IF SaveSkips THEN tasks ELSE [tasks EXCEPT ![sel].rows = NewRows]
SavedShown ==
    IF SaveSkips THEN shown
    ELSE [i \in Slot |-> IF i <= Len(Rows) /\ NewRows[i] # Rows[i]
                         THEN Waiting ELSE shown[i]]
SavedDraft == IF SaveSkips THEN draft
              ELSE IF row = 0 THEN 0 ELSE NewRows[row]
\* Mistake: the queue waits for the next launch.
SavedInboxSilent == inbox

\* WM_BATCH_RESUME is taken to be posted: PostMessageW failing there (443, its
\* result is ignored) is not a case of the model.
SavedInbox == IF ~SaveSkips /\ ~Running /\ queue # <<>>
              THEN Append(inbox, Resume) ELSE inbox
SavedFlag == saveFailed /\ SaveSkips
Saves == SaveSkips \/ Acceptable

\* A command of the user in the task window, or a launch in the main one.
Command == screen = "open" /\ acts < MaxActs /\ acts' = acts + 1
Kept == UNCHANGED <<dialogTask, lost>>

\* save_command fails: the draft is refused or the disk is.  The command
\* that wanted to save goes no further.
SaveRefused ==
    /\ Command /\ ~SaveSkips
    /\ \/ ~Acceptable /\ UNCHANGED faults
       \/ Acceptable /\ MayFail /\ faults' = faults + 1
    /\ saveFailed' = TRUE
    /\ UNCHANGED <<uiVars, active, queueVars, screen, inbox, worker, history>>
    /\ Kept

\* The buttons Save task and Apply changes.
Save ==
    /\ Command /\ ~SaveSkips /\ Saves
    /\ tasks' = SavedTasks /\ shown' = SavedShown /\ draft' = SavedDraft
    /\ inbox' = SavedInbox /\ saveFailed' = SavedFlag
    /\ UNCHANGED <<sel, row, active, queueVars, screen, worker, faults, history>>
    /\ Kept

\* Typing in the editor of the selected row, enabled while it is idle.
Type(d) ==
    /\ Command /\ StepAvailable(row) /\ d # draft
    /\ draft' = d
    /\ UNCHANGED <<tasks, sel, row, shown, active, queueVars, screen, inbox,
                   worker, faults, history, saveFailed>>
    /\ Kept

\* Another row, which saves the row left.
SelectRow(i) ==
    /\ Command /\ i \in 1 .. Len(Rows) /\ i # row
    /\ row # 0 => Saves
    /\ IF row = 0
       THEN UNCHANGED <<tasks, shown, inbox, saveFailed>>
       ELSE /\ tasks' = SavedTasks /\ shown' = SavedShown
            /\ inbox' = SavedInbox /\ saveFailed' = SavedFlag
    /\ row' = i
    /\ draft' = tasks'[sel].rows[i]
    /\ UNCHANGED <<sel, active, queueVars, screen, worker, faults, history>>
    /\ Kept

\* Another task, only while nothing runs.
SelectTask(t) ==
    /\ Command /\ ~Running /\ t \in DOMAIN tasks /\ t # sel /\ Saves
    /\ tasks' = SavedTasks /\ inbox' = SavedInbox /\ saveFailed' = SavedFlag
    /\ sel' = t /\ row' = 0 /\ draft' = 0 /\ shown' = Blank
    /\ UNCHANGED <<active, queueVars, screen, worker, faults, history>>
    /\ Kept

-----------------------------------------------------------------------------
(* Starting *)

FreeSlot(A) == CHOOSE s \in Slot : A[s] = Free /\ \A u \in 1 .. s - 1 : A[u] # Free

\* begin_task: a slot, a snapshot and a thread for it.  i is 0 for the task.
Begin(T, A, t, i) ==
    LET s == FreeSlot(A)
        rows == IF i = 0 THEN t.rows ELSE <<t.rows[i]>>
    IN  /\ active' = [A EXCEPT ![s] = [row |-> i, whole |-> i = 0,
                                       cancel |-> FALSE, run |-> runs + 1]]
        /\ worker' = [worker EXCEPT ![s] =
              [id |-> t.id, rows |-> rows,
               mode |-> IF i = 0 THEN t.mode ELSE "SEQUENTIAL",
               at |-> [j \in DOMAIN rows |-> "WAITING"],
               cancel |-> FALSE, run |-> runs + 1]]
        /\ runs' = runs + 1
        /\ outdated' = (outdated \/ \A j \in DOMAIN T : T[j].id # t.id \/ T[j].rows # t.rows)

\* The window follows the task that starts.
Show(T, id) ==
    /\ sel' = IF id \in Ids(T) THEN Place(T, id) ELSE sel
    /\ shown' = Blank
    /\ row' = 0 /\ draft' = 0

\* start_next_task, the saving already done (it posts a resumption, the queue
\* being not empty): launches whose thread cannot be created are dropped.
StartNext(T, A, Q, box, win) ==
    /\ inbox' = IF win = "open" /\ T # <<>> THEN Append(box, Resume) ELSE box
    /\ cancelling' = FALSE
    /\ \E k \in 0 .. Len(Q) :
        /\ faults + lost + k <= MaxFaults /\ faults' = faults + k
        /\ queue' = SubSeq(Q, k + 2, Len(Q))
        /\ IF k < Len(Q)
           THEN Begin(T, A, Q[k + 1], 0) /\ activeId' = Q[k + 1].id /\ Show(T, activeId')
           ELSE /\ active' = A /\ activeId' = 0
                /\ Show(T, Q[k].id)
                /\ UNCHANGED <<worker, history>>

\* Mistake: only the queue is searched for a duplicate.
QueuedOnly(t) == t.id \in Ids(queue)

Queued(t) == t.id = activeId \/ t.id \in Ids(queue)
Room == Len(queue) + (IF activeId = 0 THEN 0 ELSE 1) < TaskLimit

\* start_next_task saves once more: its failure leaves the launch, reported as
\* refused, in the queue.
SecondSaveFails(Q) ==
    /\ MayFail /\ faults' = faults + 1
    /\ queue' = Q /\ saveFailed' = TRUE
    /\ shown' = SavedShown
    /\ row' = (IF screen = "closed" THEN 0 ELSE row)
    /\ draft' = (IF screen = "closed" THEN 0 ELSE SavedDraft)
    /\ inbox' = (IF screen = "closed" THEN inbox ELSE SavedInbox)
    /\ UNCHANGED <<sel, active, activeId, cancelling, worker, history>>

\* batch_tasks_launch, from the main window or from Run task.
Launch(id) ==
    /\ acts < MaxActs /\ acts' = acts + 1
    /\ screen \notin {"leaving", "left"}
    /\ screen # "closed" => Saves
    /\ LET T == IF screen = "closed" THEN tasks ELSE SavedTasks
           t == T[Place(T, id)]
           win == IF screen = "closed" THEN "open" ELSE screen
           Q == IF Queued(t) THEN queue ELSE Append(queue, t)
       IN  /\ id \in Ids(T) /\ t.rows # <<>>
           /\ Queued(t) \/ Room
           /\ tasks' = T /\ screen' = win
           /\ IF Running
              THEN /\ queue' = Q
                   /\ saveFailed' = IF screen = "closed" THEN saveFailed ELSE SavedFlag
                   /\ shown' = IF screen = "closed" THEN shown ELSE SavedShown
                   /\ row' = IF screen = "closed" THEN 0 ELSE row
                   /\ draft' = IF screen = "closed" THEN 0 ELSE SavedDraft
                   /\ UNCHANGED <<sel, active, activeId, cancelling, worker, history,
                                  faults, inbox>>
              ELSE \/ /\ saveFailed' = (saveFailed /\ T = <<>>)
                      /\ StartNext(T, active, Q,
                                   IF screen = "closed" THEN inbox ELSE SavedInbox, "open")
                   \/ SecondSaveFails(Q)
    /\ Kept

\* run_selected_step
RunStep ==
    /\ Command /\ StepAvailable(row) /\ Saves
    /\ tasks' = SavedTasks /\ inbox' = SavedInbox /\ saveFailed' = SavedFlag
    /\ draft' = SavedDraft
    /\ \/ /\ Begin(SavedTasks, active, SavedTasks[sel], row)
          /\ activeId' = tasks[sel].id /\ cancelling' = FALSE
          /\ shown' = [SavedShown EXCEPT ![row] = [is |-> "RUNNING", of |-> 0]]
          /\ UNCHANGED faults
       \/ /\ MayFail /\ faults' = faults + 1
          /\ activeId' = IF Running THEN tasks[sel].id ELSE 0
          /\ shown' = SavedShown
          /\ UNCHANGED <<active, worker, history, cancelling>>
    /\ UNCHANGED <<sel, row, queue, screen>>
    /\ Kept

-----------------------------------------------------------------------------
(* Cancelling *)

Marked(S) ==
    active' = [s \in Slot |-> IF s \in S THEN [active[s] EXCEPT !.cancel = TRUE]
                                          ELSE active[s]]

\* Mistake: the runs are marked, their events are not set.
MarkOnly(S) == Marked(S) /\ UNCHANGED worker

\* SetEvent on the handles of the slots S.
Signal(S) ==
    /\ Marked(S)
    /\ worker' = [s \in Slot |-> IF s \in S /\ worker[s] # Gone
                                 THEN [worker[s] EXCEPT !.cancel = TRUE] ELSE worker[s]]

\* Cancel all: the queue is emptied and every run is told.
CancelAll ==
    /\ Command /\ Running /\ ~cancelling
    /\ queue' = <<>> /\ cancelling' = TRUE
    /\ Signal(Used(active))
    /\ shown' = [i \in Slot |-> IF SlotOf(i) # {} THEN [is |-> "CANCELLING", of |-> 0]
                                ELSE shown[i]]
    /\ UNCHANGED <<tasks, sel, row, draft, activeId, screen, inbox, faults, history, saveFailed>>
    /\ Kept

\* Cancel selected
CancelStep ==
    /\ Command /\ row # 0 /\ ~cancelling
    /\ \E s \in SlotOf(row) : ~active[s].cancel /\ Signal({s})
    /\ shown' = [shown EXCEPT ![row] = [is |-> "CANCELLING", of |-> 0]]
    /\ UNCHANGED <<tasks, sel, row, draft, queueVars, screen, inbox, faults, history, saveFailed>>
    /\ Kept

-----------------------------------------------------------------------------
(* Editing the collection *)

\* Mistake: active runs keep the row they were started on.
RowKept(s) == active[s]

\* The run of a row below the removed one moves up.
RowShifted(s) ==
    IF active[s].row > row THEN [active[s] EXCEPT !.row = @ - 1] ELSE active[s]

\* remove_directory: results and the rows of active runs move up with it.
RemoveRow ==
    /\ Command /\ StepAvailable(row) /\ Saves
    /\ tasks' = [SavedTasks EXCEPT ![sel].rows = Remove(@, row)]
    /\ active' = [s \in Slot |-> RowShifted(s)]
    /\ shown' = [i \in Slot |->
                   IF i < row THEN SavedShown[i]
                   ELSE IF i < Len(Rows) THEN SavedShown[i + 1]
                   ELSE IF i = Len(Rows) THEN Waiting ELSE SavedShown[i]]
    /\ row' = 0 /\ draft' = 0
    /\ inbox' = SavedInbox /\ saveFailed' = SavedFlag
    /\ UNCHANGED <<sel, queueVars, screen, worker, faults, history>>
    /\ Kept

\* The sequence s with the element at i moved to j.
Moved(s, i, j) ==
    LET r == Remove(s, i)
    IN  SubSeq(r, 1, j - 1) \o <<s[i]>> \o SubSeq(r, j, Len(r))

\* move_step: dragging is off while anything runs.
MoveRow(i, j) ==
    /\ Command /\ ~Running /\ {i, j} \subseteq 1 .. Len(Rows) /\ i # j /\ Saves
    /\ tasks' = [SavedTasks EXCEPT ![sel].rows = Moved(@, i, j)]
    /\ shown' = LET n == Len(Rows)
                    new == Moved(SubSeq(SavedShown, 1, n), i, j)
                IN  [k \in Slot |-> IF k <= n THEN new[k] ELSE SavedShown[k]]
    /\ row' = j /\ draft' = tasks'[sel].rows[j]
    /\ inbox' = SavedInbox /\ saveFailed' = SavedFlag
    /\ UNCHANGED <<sel, active, queueVars, screen, worker, faults, history>>
    /\ Kept

\* add_directory up to the folder picker.
AskFolder ==
    /\ Command /\ ~WholeRunning /\ ~cancelling /\ tasks # <<>>
    /\ Len(Rows) < RowLimit /\ Saves
    /\ tasks' = SavedTasks /\ shown' = SavedShown /\ draft' = SavedDraft
    /\ inbox' = SavedInbox /\ saveFailed' = SavedFlag
    /\ screen' = "picker" /\ dialogTask' = tasks[sel].id
    /\ UNCHANGED <<sel, row, active, queueVars, worker, faults, history, lost>>

\* The picker returns: what was checked before it is checked again.
SameTask == tasks # <<>> /\ tasks[sel].id = dialogTask /\ ~WholeRunning /\ ~cancelling
AddRow(d) ==
    /\ screen = "picker" /\ screen' = "open" /\ dialogTask' = 0
    /\ IF SameTask /\ d \in Step /\ (\A i \in DOMAIN Rows : Rows[i] # d) /\ Len(Rows) < RowLimit
       THEN LET n == Len(Rows) + 1
            IN  /\ shown' = [shown EXCEPT ![n] = Waiting]
                /\ \/ /\ tasks' = [tasks EXCEPT ![sel].rows = Append(@, d)]
                      /\ row' = n /\ draft' = d /\ UNCHANGED faults
                   \/ /\ MayFail /\ faults' = faults + 1
                      /\ draft' = (IF row = 0 THEN 0 ELSE Rows[row])
                      /\ UNCHANGED <<tasks, row>>
       ELSE UNCHANGED <<uiVars, faults>>
    /\ UNCHANGED <<sel, active, queueVars, inbox, worker, acts, lost, history,
                   saveFailed>>

\* new_task
NewTask ==
    /\ Command /\ ~Running /\ Len(tasks) < TaskLimit /\ Saves
    /\ \E id \in TaskId :
        /\ id \notin Ids(tasks) \union Ids(queue)
        /\ \A k \in 1 .. id - 1 : k \in Ids(tasks) \union Ids(queue)
        /\ tasks' = Append(SavedTasks, [id |-> id, rows |-> <<>>, mode |-> "SEQUENTIAL"])
    /\ sel' = Len(tasks) + 1 /\ row' = 0 /\ draft' = 0 /\ shown' = Blank
    /\ inbox' = SavedInbox /\ saveFailed' = SavedFlag
    /\ UNCHANGED <<active, queueVars, screen, worker, faults, history>>
    /\ Kept

\* delete_task up to its confirmation, then the answer Yes.  It saves no
\* draft and asks no second time whether something runs.
AskDelete ==
    /\ Command /\ ~Running /\ tasks # <<>>
    /\ screen' = "confirm"
    /\ UNCHANGED <<uiVars, active, queueVars, inbox, worker, faults, history, saveFailed>>
    /\ Kept

DeleteTask(sure) ==
    /\ screen = "confirm" /\ screen' = "open"
    /\ IF sure /\ tasks # <<>>
       THEN /\ tasks' = Remove(tasks, sel)
            /\ sel' = IF sel > Len(tasks') THEN (IF tasks' = <<>> THEN 1 ELSE Len(tasks')) ELSE sel
            /\ row' = 0 /\ draft' = 0 /\ shown' = Blank
            /\ outdated' = (outdated \/ Running)
       ELSE UNCHANGED <<uiVars, outdated>>
    /\ UNCHANGED <<active, queueVars, inbox, worker, acts, faults, lost, runs,
                   saveFailed, dialogTask>>

-----------------------------------------------------------------------------
(* The window and the end of the program *)

\* The messages of a destroyed window go with it.
Undelivered(box) ==
    LET kept[n \in 0 .. Len(box)] ==
            IF n = 0 THEN <<>>
            ELSE IF box[n].type = "RESUME" THEN kept[n - 1] ELSE Append(kept[n - 1], box[n])
    IN  kept[Len(box)]

\* close_manager
Close ==
    /\ Command /\ Saves
    /\ tasks' = SavedTasks /\ saveFailed' = SavedFlag /\ screen' = "closed"
    /\ IF ~Running /\ queue # <<>>
       THEN StartNext(SavedTasks, active, queue, Undelivered(inbox), "closed")
       ELSE /\ shown' = SavedShown /\ row' = 0 /\ draft' = 0
            /\ inbox' = Undelivered(inbox)
            /\ UNCHANGED <<sel, active, queueVars, worker, faults, history>>
    /\ Kept

\* batch_tasks_open
Open ==
    /\ screen = "closed" /\ screen' = "open"
    /\ acts < MaxActs /\ acts' = acts + 1
    /\ row' = 0 /\ draft' = 0
    /\ UNCHANGED <<tasks, sel, shown, active, queueVars, inbox, worker, faults, history, saveFailed>>
    /\ Kept

\* batch_tasks_shutdown up to its wait for the threads, and after it.
Leave ==
    /\ screen \in {"open", "closed"} /\ screen' = "leaving"
    /\ queue' = <<>>
    /\ Signal(Used(active))
    /\ row' = 0 /\ draft' = 0
    /\ inbox' = Undelivered(inbox)
    /\ UNCHANGED <<tasks, sel, shown, activeId, cancelling, acts, faults, history, saveFailed>>
    /\ Kept

Left ==
    /\ screen = "leaving" /\ screen' = "left"
    /\ \A s \in Used(active) : worker[s] = Gone
    /\ active' = [s \in Slot |-> Free]
    /\ activeId' = 0 /\ cancelling' = FALSE /\ inbox' = <<>>
    /\ UNCHANGED <<uiVars, queue, worker, acts, faults, history, saveFailed>>
    /\ Kept

-----------------------------------------------------------------------------
(* The threads of a run: run_worker, batch_runner_task, run_directory *)

workerOnly == <<uiVars, active, queueVars, screen, dialogTask, acts, history,
                saveFailed>>

\* PostMessage, or the allocation before it, may fail.
Post(e) ==
    \/ inbox' = Append(inbox, e) /\ UNCHANGED lost
    \/ MayFail /\ lost' = lost + 1 /\ UNCHANGED inbox

Event(s, type, i) ==
    [type |-> type, slot |-> s, index |-> i, run |-> worker[s].run,
     step |-> IF i = 0 THEN 0 ELSE worker[s].rows[i]]

Reach(s, i, to, type) ==
    /\ worker' = [worker EXCEPT ![s].at[i] = to]
    /\ Post(Event(s, type, i))

\* In sequence the folders wait for the earlier ones.
MayStart(s, i) ==
    /\ worker[s].at[i] = "WAITING"
    /\ worker[s].mode = "SEQUENTIAL" => \A j \in 1 .. i - 1 : worker[s].at[j] \in Done

StepStarts(s, i) ==
    /\ MayStart(s, i)
    /\ IF worker[s].cancel THEN Reach(s, i, "SKIPPED", "SKIPPED")
                           ELSE Reach(s, i, "RUNNING", "STARTED")
    /\ UNCHANGED <<workerOnly, faults>>

\* No thread for the folder of a parallel run.
StepThreadFails(s, i) ==
    /\ MayStart(s, i) /\ worker[s].mode = "PARALLEL"
    /\ MayFail /\ faults' = faults + 1
    /\ Reach(s, i, "FAILED", "FAILED")
    /\ UNCHANGED workerOnly

StepEnds(s, i) ==
    /\ worker[s].at[i] = "RUNNING"
    /\ \E r \in {"SUCCEEDED", "FAILED"} : Reach(s, i, r, r)
    /\ UNCHANGED <<workerOnly, faults>>

\* The job object is terminated.
StepKilled(s, i) ==
    /\ worker[s].at[i] = "RUNNING" /\ worker[s].cancel
    /\ Reach(s, i, "CANCELLED", "CANCELLED")
    /\ UNCHANGED <<workerOnly, faults>>

\* Every folder's thread has returned.
Joined(s) == \A i \in DOMAIN worker[s].at : worker[s].at[i] \in Done

Finish(s) ==
    /\ worker[s] # Gone /\ Joined(s)
    /\ worker' = [worker EXCEPT ![s] = Gone]
    /\ Post(Event(s, "FINISHED", 0))
    /\ UNCHANGED <<workerOnly, faults>>

-----------------------------------------------------------------------------
(* batch_tasks_handle_event, and WM_BATCH_RESUME *)

Listening == screen \notin {"leaving", "left"} /\ inbox # <<>>
handled == <<dialogTask, acts, lost>>

\* Mistake: the worker's own row number is used.
WorkerRow(e) == e.index

\* The slot maps the event to the row it runs now.
EventRow(e) == IF active[e.slot].whole THEN e.index ELSE active[e.slot].row

EventStatus(e) ==
    IF e.type = "STARTED" THEN (IF active[e.slot].cancel THEN "CANCELLING" ELSE "RUNNING")
    ELSE IF e.type = "SKIPPED" /\ ~active[e.slot].whole /\ active[e.slot].cancel
    THEN "CANCELLED" ELSE e.type

Progress ==
    LET e == Head(inbox)
        i == EventRow(e)
    IN  /\ Listening /\ e.type \notin {"RESUME", "FINISHED"}
        /\ inbox' = Tail(inbox)
        /\ shown' = IF active[e.slot] # Free /\ i \in 1 .. Len(Rows)
                    THEN [shown EXCEPT ![i] = [is |-> EventStatus(e), of |-> e.step]]
                    ELSE shown
        /\ UNCHANGED <<tasks, sel, row, draft, active, queueVars, screen, worker,
                       faults, history, saveFailed>>
        /\ UNCHANGED handled

\* start_next_task as the interface thread calls it between commands.
TryNext(A) ==
    IF screen = "closed" THEN /\ StartNext(tasks, A, queue, Tail(inbox), screen)
                              /\ UNCHANGED <<tasks, saveFailed>>
    ELSE \/ /\ tasks # <<>> /\ (~Acceptable \/ MayFail)
            /\ faults' = (IF Acceptable THEN faults + 1 ELSE faults)
            /\ saveFailed' = TRUE /\ active' = A
            /\ activeId' = 0 /\ cancelling' = FALSE /\ inbox' = Tail(inbox)
            /\ UNCHANGED <<uiVars, queue, worker, history>>
         \/ /\ tasks = <<>> \/ Acceptable
            /\ tasks' = SavedTasks
            /\ saveFailed' = (saveFailed /\ tasks = <<>>)
            /\ StartNext(SavedTasks, A, queue, Tail(inbox), "open")

\* Mistake: a cancellation outlives the last run it was for.
StaysCancelling(A) == cancelling

StillCancelling(A) == cancelling /\ Used(A) # {}

Finished ==
    LET e == Head(inbox)
        A == [active EXCEPT ![e.slot] = Free]
    IN  /\ Listening /\ e.type = "FINISHED"
        /\ IF Used(A) = {} /\ queue # <<>> THEN TryNext(A)
           ELSE /\ active' = A /\ inbox' = Tail(inbox)
                /\ activeId' = (IF Used(A) = {} THEN 0 ELSE activeId)
                /\ cancelling' = StillCancelling(A)
                /\ UNCHANGED <<uiVars, queue, worker, faults, history, saveFailed>>
        /\ UNCHANGED <<screen, handled>>

Resumed ==
    /\ Listening /\ Head(inbox).type = "RESUME"
    /\ IF ~Running /\ queue # <<>> THEN TryNext(active)
       ELSE inbox' = Tail(inbox) /\ UNCHANGED <<uiVars, active, queueVars, worker,
                                                faults, history, saveFailed>>
    /\ UNCHANGED <<screen, handled>>

-----------------------------------------------------------------------------
Threads(s) ==
    \/ \E i \in DOMAIN worker[s].at :
        StepStarts(s, i) \/ StepThreadFails(s, i) \/ StepEnds(s, i) \/ StepKilled(s, i)
    \/ Finish(s)

User ==
    \/ SaveRefused \/ Save \/ RunStep \/ CancelAll \/ CancelStep \/ RemoveRow
    \/ AskFolder \/ NewTask \/ AskDelete \/ Close \/ Open \/ Leave
    \/ \E d \in Step \union {0} : Type(d) \/ AddRow(d)
    \/ \E i \in Slot : SelectRow(i) \/ \E j \in Slot : MoveRow(i, j)
    \/ \E t \in 1 .. TaskLimit : SelectTask(t)
    \/ \E id \in TaskId : Launch(id)
    \/ \E sure \in BOOLEAN : DeleteTask(sure)

Next ==
    \/ User \/ Left \/ Progress \/ Finished \/ Resumed
    \/ \E s \in Slot : Threads(s)

\* The interface thread handles its messages, threads that are told to stop do.
Fairness ==
    /\ WF_vars(Progress \/ Finished \/ Resumed) /\ WF_vars(Left)
    /\ \A s \in Slot :
        /\ WF_vars(Finish(s))
        /\ WF_vars(\E i \in DOMAIN worker[s].at : StepStarts(s, i) \/ StepKilled(s, i))

Spec == Init /\ [][Next]_vars /\ Fairness

-----------------------------------------------------------------------------
(* Properties *)

Message == [type : Done \union {"RESUME", "STARTED", "FINISHED"}, slot : 0 .. RowLimit,
            index : 0 .. RowLimit, step : Step \union {0}, run : Nat]
Thread == {w \in [id : TaskId, rows : Seq(Step), mode : Mode, cancel : BOOLEAN, run : Nat,
                  at : Seq(Done \union {"WAITING", "RUNNING"})] :
              Len(w.at) = Len(w.rows) /\ Len(w.rows) <= RowLimit}

\* Every variable keeps the shape its declaration in batch_tasks.c gives it.
TypeOK ==
    /\ tasks \in Seq(Task) /\ Len(tasks) <= TaskLimit
    /\ queue \in Seq(Task) /\ Len(queue) <= TaskLimit
    /\ sel \in 1 .. TaskLimit /\ row \in 0 .. RowLimit /\ draft \in Step \union {0}
    /\ shown \in [Slot -> [is : Status, of : Step \union {0}]]
    /\ active \in [Slot -> [row : 0 .. RowLimit, whole : BOOLEAN, cancel : BOOLEAN, run : Nat]]
    /\ activeId \in TaskId \union {0} /\ cancelling \in BOOLEAN
    /\ screen \in {"open", "closed", "picker", "confirm", "leaving", "left"}
    /\ dialogTask \in TaskId \union {0}
    /\ inbox \in Seq(Message) /\ worker \in [Slot -> Thread \union {Gone}]
    /\ {acts, faults, lost, runs} \subseteq Nat
    /\ saveFailed \in BOOLEAN /\ outdated \in BOOLEAN

\* ARCHITECTURE.md:93: slots map the events of a run back to its current row, so
\* that results are not misplaced: a result shown on a row is that of
\* the row's folder and command, whatever was added, edited, moved or removed
\* while it ran.
ResultsOnTheirRow ==
    ~outdated => \A i \in 1 .. Len(Rows) : shown[i].of \in {0, Rows[i]}

\* A run and the row it runs stay together: a whole run holds the selected task
\* exactly as it was launched, the rows of single runs are distinct, and the
\* thread behind a slot works on what the slot's row says.
HoldsTask(s) ==
    IF active[s].whole
    THEN Used(active) = {s} /\ tasks # <<>> /\ activeId = tasks[sel].id
         /\ (worker[s] # Gone => worker[s].rows = Rows /\ worker[s].id = activeId)
    ELSE /\ active[s].row \in 1 .. Len(Rows)
         /\ SlotOf(active[s].row) = {s}
         /\ worker[s] # Gone => worker[s].rows = <<Rows[active[s].row]>>
RunsHoldTheirRows == ~outdated => \A s \in Used(active) : HoldsTask(s)

\* README.md:355, "Whole-task runs keep editing and single-row runs locked".
RunningTaskLocked == \A s \in Used(active) : HoldsTask(s)

\* batch_tasks.c:511, "Invalid edits leave the queue intact; a later successful
\* save resumes it": launches wait only for a run, for a save that failed or
\* for the resumption already posted (which is taken to arrive, see SavedInbox).
QueueResumes ==
    /\ queue # <<>> /\ ~Running
       => saveFailed \/ \E k \in DOMAIN inbox : inbox[k].type = "RESUME"
    /\ activeId # 0 => Running

\* The scheduler is a queue of launches that runs one task at a time: its
\* record of the active task against the tasks that really have live threads.
OneTask == INSTANCE TaskQueue WITH
    Task <- TaskId, NoTask <- 0,
    waiting <- [i \in DOMAIN queue |-> queue[i].id],
    current <- activeId,
    executing <- {worker[s].id : s \in {u \in Slot : worker[u] # Gone}}
OneTaskAtATime == OneTask!QueueSpec

\* Cancel all comes to an end: once every run was told to stop, and no message
\* was lost, the scheduler is idle again (or NOVA is leaving).
CancelEnds == (cancelling /\ lost = 0) ~> (~cancelling \/ lost > 0)

\* batch_tasks_shutdown does not wait for ever, and leaves no thread behind.
LeavingEnds == screen = "leaving" ~> screen = "left" /\ \A s \in Slot : worker[s] = Gone
=============================================================================
