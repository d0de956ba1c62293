# NOVA: TLA+ verification project

NOVA is a Windows desktop companion (C, Win32). Its core service is *device
synchronization*: computers exchange file versions through a small queue server
(Python, SQLite) reached over SSH; around it stand an SSH and SFTP client, saved
batch tasks and a configuration kept in JSON files. This directory holds TLA+
models of these parts, the TLC instances that check them and the TLAPS proofs
about them. Paths below are relative to the repository root; C sources are under
`src/`, the server under `sync/server/chunksync/`.

## 1. Inventory

| Part | Source | State | Operations | Hard behaviour |
|---|---|---|---|---|
| Queue server | `sync/server/chunksync/broker.py` | SQLite tables (jobs, heads, recipients, receipts, inventory, needs, objects), `chunks/`, `uploads/` | register, dataset_create, bind, unbind, prepare, put, commit, pending, get, ack, gc, repairs, repair_prepare | concurrent sessions, database against file system after a crash, late subscribers |
| Queue migration, servers | `sync/server/chunksync/control.py` | `.nova-control.json`, export snapshot, import staging | export_begin/info/get/commit/abort, import_begin/put/prepare/activate, recover_import, the gate `active_queue` | crashes between files, requests of dead sessions that still run |
| Queue migration, client | `src/platform/sync_server.c`, `src/ui/sync_manager.c` | `server-migration.json`, the settings | migrate, resume, restore, switch, follow | interrupted anywhere, resumed from the journal |
| Server deployment | `control.py` 266-385, `sync_server.c` 100-149 | releases, shims | release, activate, legacy takeover | half-installed releases |
| Synchronization client | `src/platform/sync_client.c`, `sync_files.c` | index.sqlite3 (files, outbox, inbox, versions), chunk cache, working files | snapshot, publish, download, apply, acknowledge, resolve | crash between server and local commit, user edits meanwhile |
| Wire protocol | `sync_wire.c`, `wire.py` | one SSH channel | request, reply | truncated frames end the session |
| Sync manager | `src/ui/sync_manager.c`, `sync_settings.c`, `sync_model.c` | pairs, comparisons per index, one job and its worker, batch, pending migration | start, finish, batch, timer, edit, import, trust, exit | handlers nest under dialogs; results are stored by index |
| SSH client, terminal | `ssh_client.c`, `ssh_view.c`, `terminal_view.c` | the view, its worker, two auto-reset events, a cancel event, two buffers | connect, request, cancel, type, run, disconnect, close | events that outlive their worker; full buffers |
| Batch tasks | `batch_task.c`, `batch_runner.c`, `batch_tasks.c` | saved tasks, statuses, run slots, launch queue, threads | edit, launch, run row, cancel, delete, leave | rows move while they run; failing saves, threads and messages |
| Configuration | `storage.c`, `config_json.c`, `ssh_credentials.c`, the server dialog of `ssh_view.c`, `configuration_merge.ps1` | in-memory tables, `runtime.json`, `local.json`, `runtime.base.json`, `runtime.seed.json`, `nova.json`, the Credential Manager | open, migrate, begin, end, publish, roll back, save login | crash between two files; two stores changed one after the other |
| Launcher, file manager, workspace | `main.c`, `file_manager.c`, `src/core` | windows, the launch queue | open, move, drop | mostly presentation |
| Application log | `app_log.c` | log files | write, rotate | retention |

Interaction. The sync manager starts one job at a time on a worker thread. The
job opens an SSH channel to the queue server and runs the synchronization client
(or, for administration, `sync_server_run`, which talks to two servers). Every
session is its own server process; sessions meet only in the SQLite file, the two
directories and the queue lock. Broker requests take the lock shared and run
behind the gate `active_queue`; migration requests take it exclusively.

What makes each part correct:

* *Queue server*: no published version is lost or forked; content is kept until
  every recipient has it; a recipient can always obtain what it misses; everything
  published is delivered in the end.
* *Queue migration*: never two writable copies of a queue; the new queue holds
  exactly what the old one held when it stopped; an interrupted move can be
  finished or undone.
* *Synchronization client*: a user's edit is never overwritten without being
  published or kept; a version is acknowledged only when it is applied.
* *Sync manager, SSH, batch tasks*: a result is applied to the thing it was
  computed for, nothing is executed twice, and everything started ends.
* *Configuration*: a reported save is there after a crash, a failed one leaves no
  trace in memory, in the files or in the Credential Manager, and the files
  always open together.

## 2. Modules

| Module | What it is |
|---|---|
| `SyncBroker` | the queue server |
| `MCSyncBroker` | its TLC instances |
| `SyncBrokerProofs` | theorems about it |
| `SyncClient` | the synchronization client on every device, against what it sees of the server |
| `MCSyncClient` | its TLC instances |
| `SyncClientProofs` | theorems about it |
| `QueueMigration` | servers and client of a migration, composed |
| `MCQueueMigration` | its TLC instances |
| `QueueMigrationProofs` | theorems about it |
| `SyncManager` | the synchronization window: jobs, batches, timer, dialogs |
| `MCSyncManager` | its TLC instances |
| `SyncManagerProofs` | theorems about it |
| `SshSession` | one remote tab: view, worker, client, terminal (its `.cfg` files need no MC module) |
| `SshSessionProofs` | theorems about it |
| `BatchTasks` | task window, scheduler and the threads of a run |
| `TaskQueue` | what the scheduler promises; `BatchTasks` implements it |
| `MCBatchTasks` | its TLC instances |
| `BatchTasksProofs` | theorems about it, the refinement of `TaskQueue` among them |
| `ConfigStore` | the configuration store and the saved logins of the server dialog |
| `MCConfigStore` | its TLC instances |
| `ConfigStoreProofs` | theorems about it |
| `SequenceFacts` | lemmas about numbers and sequences that the proofs share |

### SyncBroker

One action per request; a request that writes is one `BEGIN IMMEDIATE`
transaction and therefore one step. The model departs from that exactly where the
code does: `gc` is a transaction of its own after `ack` (`CollectGarbage`), and
`repair_prepare` is missing from the list of writing actions, so its INSERTs are
autocommitted one at a time (`RepairPlan`, `RepairObject`, `RepairNeed`). A crash
is an action that leaves what the file system already holds and rolls back the
rest (`UploadCrash`, `CollectCrash`, `RepairCrash`).

`jobs`, `heads`, `bindings`, `recipients`, `receipts`, `inventory`, `needs`,
`objects`/`complete` are the tables; `chunkFiles` and `parts` are the two
directories; `gcDue` and `repairing` are the program counters of a session between
two transactions; `cache` is what each device durably holds, which is what the
client checks before it acknowledges (`sync_client.c` 322-327). A chunk is a
model value that takes `Packets` packets to upload. Reading requests (`pending`,
`repairs`, `overview`) appear where their answer guards a step. What the server
does not check is not a guard either: `get` serves any device, `repair_prepare` any
published version of its author; which of these requests a client makes by itself is
the matter of the fairness (section 4).

Left out: registration and authentication, the limit of 16 datasets, the free-disk
reserve (an extra reason to refuse), chunk sizes (all chunks count 1 against the
quota), and the client's journal: what a client may ask is any request its role
allows, whatever it did before, except that it acknowledges only what is in its
cache.

### SyncClient

A run of `sync_client.c` is a procedure over durable state, and the model keeps
its statements apart wherever something durable or remote changes: the outbox row
(`NewVersion`), `prepare`, `commit`, the local transaction (`Record`); the inbox
row (`Receive`), the download (`Fetch`), the last hash (`Recheck`), the replacement
or the recycle bin (`Replace`, `Recycle`), the local transaction (`Settle`), the
receipt (`Acknowledge`) and the end of the inbox row (`Forget`); the backup
(`Resolve`), the lineage, the accepted version and the outbox rows of a choice.
`run[d]` is the program counter and the locals of that procedure. `NextPhase`
orders the phases as `sy_sync` does for Sync, Push and Pull. Between any two
steps the user may save or delete the file (`Edit`), other devices take steps, and
the run may end (`Stop`): a dropped connection, a cancellation and a crash
all leave the same thing, the durable state.

`files`, `outbox`, `inbox` and `versions` are the tables of `index.sqlite3`; `work`
is the folder, `recovery` and `recycled` are where replaced files go. The server is
its visible part: prepared and published versions, heads and receipts, with the two
comparisons of the parent that the broker makes (`Prepare`, `Commit`). A content is
one value and always available: uploads, downloads in packets, quota and repair
belong to `SyncBroker`. `verdict` records how a run ended that nobody disturbed.

Left out: binding (all devices are bound), exclusions, several groups, link
checks, and the first comparison the user looked at (a choice starts from the
comparison that `resolve` repeats).

### QueueMigration

The control record of every queue directory (`phase`, `token`, `destination`,
`previous`, `cluster`), its files, the snapshot of an export, the staging area of
an import, and for each computer its settings, its journal and the request it
sends next (`pc`). A request is a record; `Handle` runs the server's handler,
`Continue` what the client does with the answer. The exclusive lock makes a
handler atomic. A use of the queue (`Write`) changes the database and any of the
other files with it. Three kinds of trouble are separate actions (`breaks` counts
the second, as history):

* `Quit`: the session ends between two requests (cancel, NOVA closed, network).
* `Break` and `RunLate`: the session breaks inside a request; the server process
  is not told, waits for the lock (`queue_lock`, up to 25 s) and runs the request
  later, possibly after requests of the next session.
* `Crash`: the server process dies half-way (`ExportBeginCrash`,
  `ImportBeginCrash`, `ImportPacketCrash`, `ImportPrepareCrash`); `KeepJournal`:
  NOVA dies after a restoration, before its journal is set aside.

A file is a tag and a size in packets; a hash is the file itself, so that a file
assembled from packets of two snapshots is distinguishable from both. Reading a
packet at the source and appending it at the destination is one step, because no
server looks at the other.

Left out: deployment, the ancestor list beyond the previous queue (so `Follow`
goes one move at a time), free-space checks, changes of login.

### SyncManager

All handlers of `sync_manager.c` run on one thread, but a dialog dispatches
messages while its handler waits. The model therefore cuts a handler exactly at
its dialogs: the target and login dialogs inside `start_job_impl` (`Ask`,
`DialogAccepted`), the trust question and its retry inside `finish_job`
(`AskTrust`, `Trust`, `Again`), the shell's question while a file is recycled
(`Recycle`, `ShellReturns`), the file dialog of Import. `job` is the job with its
worker, `plans` the comparison under each index, `window` what the window
resets when it is opened, `journal` the migration checkpoint on disk, which
survives closing and reopening (`Shut`, `Open`). `of` and `current` of a plan are
history: the folder it was made for, and whether something has invalidated it.

Where the nesting of handlers leaves the code in a state it does not
foresee (`job=j` overwrites a running job, Import replaces the folders under a job, exit frees
the job an outer handler uses, exit waits for a worker that waits for the shell)
the model stops in a state named in `Defects`; the properties say nothing from
there on, and section 6 lists them.

Left out: tables, the catalog of other devices' folders, progress and history
texts; which folder's interval is due is a choice. That the ticket of a finished
migration cannot be set aside (`sync_server_commit_local`, 738, result ignored) is not a
case: it would name the server in use, another migration would be refused, and the next
opening of the window sets it aside again (`sync_server.c` 217-231).

### SshSession

`v` is `RemoteView`, `w` the worker with its client, `msgs` the messages posted to
the view, `link` the far side. The worker is cut where it waits or posts, the
interface thread where it waits (a dialog, the join of the worker) and between
`CreateThread` and the first request, because the new worker already runs. The
two auto-reset events and the manual-reset cancel event are Booleans with the
consuming wait written out (`Wake`, `Drain`). Requests are kept by kind; a remote
write is its beginning and its end. `asked`, `sent` and `ran` are history.

Left out: resizing, rendering, the limit of four workers (a start that fails),
partial terminal writes, and the synchronization channel; also what the message boxes of
`finish` (339, 349) dispatch while they are open: a second DONE handled nested (459), and
closing the view behind the box.

### BatchTasks and TaskQueue

The interface thread's state is `tasks` to `inbox`; `worker[s]` is the coordinating
thread of slot `s` with its immutable snapshot and the state of its folder
threads. Events reach the interface thread through `inbox` in order; the folder picker of
*Add* and the question of *Delete* keep events and launches flowing
(`AskFolder`/`AddRow`, `AskDelete`/`DeleteTask`). Any save, thread or message may
fail within `MaxFaults`.

`TaskQueue` is the abstract scheduler: launches wait in order without duplicates,
one task is current, nothing of another task executes. `BatchTasks` implements it
under the mapping *waiting* = the ids in `task_queue.items`, *current* =
`active_id`, *executing* = the tasks with a live thread, so the property relates
the scheduler's record to the threads that really run.

Left out: the content of names and commands, capturing output, resolving git, and a
resume message that cannot be posted (443; the queue would wait for the next launch or
save).

### ConfigStore

A document is reduced to what the properties tell apart: the number of tabs of one
file pane and the endpoint of each SSH profile in `runtime.json`, the selected tab
in `local.json`. Selection and tabs lie in different files and are checked
against each other, which is the case that matters for a crash between them. The other
collections (tasks, commands, workspaces) are saved by the same sequence of
begin, clear, set and end and would only repeat it.

A transaction is the record `txn`: what is wanted, the bytes before (`from`) and
after (`to`), the files still to replace and those replaced. `Publish` replaces
one file; any step may fail and starts `Undo`, which puts the files back last
first and may fail too. The database commits after the last file
(`Committed`). `Stop` is an exit or a crash, also between two files. The first
start publishes four files. While NOVA is closed a file may be damaged or deleted,
or Git may replace `nova.json` (`Tamper`).

The server dialog writes the login before the configuration and gives it back when
the configuration fails (`Persist`, `RolledBack`). `may`, `astray` and `loose` are
history: what the shared file may hold, and whether a file or a login could not be
put back.

Left out: the content of legacy stores, backups and the immutable copy
`nova.migration.json`, temporary files, the snapshot scripts, a second server
dialog (see the hazards), `ReplaceFileW` failing with a partial effect: when it has
moved the original aside, `published` is still FALSE (`config_json.c` 213) and 220 does
not put that file back. A replacement that fails leaves its file as it was in the model,
and what is said below of failing steps means such failures.

## 3. Runs

| Run | Question | Instance | Distinct states |
|---|---|---|---|
| `safety` | every safety property of the server, one fault | 3 devices, 2 versions, 1 chunk of 2 packets | 1,064,000 |
| `liveness` | delivery and reclamation | 3 devices, 1 version, 1 chunk of 2 packets | 13,400 |
| `client` | every safety property of the client | 2 devices, 1 path, 2 contents, 3 versions, 3 edits, 1 stopped run, deletions synchronized | 3,540,000 |
| `migration` | safety of a move | 2 queues, 2 computers, 2 tokens, 2 files of up to 2 packets, 2 writes, 2 quits, 1 fault | 2,430,000 |
| `resume` | cutover is current, restorable, completed | 2 queues, 1 computer, 2 tokens, 2 files of up to 2 packets, 2 writes, 2 quits | 136,000 |
| `lost` | finding 1 | 2 queues, 1 token, 1 file | violation |
| `manager` | comparisons, migrations, editing, failures, termination | 2 folders, 2 servers, 3 commands, 1 fault | 788,000 |
| `scope` | finding 3 | same, Push only | violation |
| `ssh` | commands, messages, answers, terminal flow | 2 commands, buffers of 1, 2 blocks of output, 2 connections, 4 operations, 1 fault | 729,000 |
| `retry` | finding 2 | same | violation |
| `batch` | rows, queue, refinement of `TaskQueue`, termination | 2 tasks, up to 2 rows, 2 slots, 4 commands, 1 fault | 1,007,000 |
| `store` | durability, opening, logins | 2 endpoints, 2 tabs, 2 profiles, 3 saves, 2 faults, 2 crashes, 1 damaged file | 3,290,000 |

Why the bounds are enough. Three devices are a source, a receiver and a late
subscriber, the smallest group in which "delivered" can be revoked. Two versions
give a parent and a child, or two rivals for the same parent. Two packets make
an upload resumable. One chunk that two versions share exercises every
interaction between reclamation, reuse and repair. In a migration, two computers move
the same queue at the same time, with the same or with different tokens; two tokens are a
restored attempt and a fresh one; two writes make two snapshots of one source differ
from it and from each other, and because a write may change both files, a copy that goes
on after a new snapshot could hold the first file of one and the second of the other; a
file of two packets can be resumed in its middle, over a packet of the earlier snapshot.
Two quits stop a session and its resumption. For the client, two devices are a publisher and its rival; three
versions give a base, a rival and a child of either, or a lineage of two below a
third; two contents let a device arrive at the rival's content on its own; devices
and contents are interchangeable, hence the symmetry. One stopped run suffices for
every retry. Two of them, explored once (11.5 million states), show one more
behaviour (section 6, after the configurations), and every property of the run holds
there too, as it does with two paths and two edits.
`MaxFaults = 1` is the bound that matters most: it admits one
crash or one delayed request. Larger instances of the migration were explored once,
with files of two packets, and every property of the run holds there: three queues, so
that a queue moves twice or two computers choose different destinations (7.5 million
states), and two faults, with two computers (12.8 million) or with three queues (17.9
million). Beyond one late request `InstalledIsSnapshot` claims nothing, and mixed
snapshots do occur there (section 6); `SingleWriter` and `RedirectLeads` hold with
any number of faults (section 5).

Two folders let a removal shift a comparison, a batch go on to a second
folder, and a trust question hit one that is not selected; two servers give a
migration its source and target. Two connections of one tab are the least in which
something outlives its worker, and buffers of one unit are full at once. Two tasks
and two rows let a row move under its run, a task wait behind another and both
slots be used; the limits `TaskLimit` and `RowLimit` are thereby reached. For the
store two tabs let a selection become invalid, three saves put a save before and
after one that fails, two faults fail a step and its undoing, two crashes interrupt
a start that follows an interrupted start.

Deadlock is checked for the server and the client. The others really can stop:
every bounded operation is used up and nothing is left running; a damaged
configuration file makes NOVA refuse to start.

What the properties say:

* `DeliveredToAll`, `ReclaimOnlyReceived`: a version is DELIVERED, and its content
  deleted, only when everybody it was meant for has acknowledged, although devices
  join in between and collection happens later than the receipt.
* `LinearHistory`: the published versions of a path are one chain and the head is
  its end, although `prepare` and `commit` of rivals interleave.
* `ParentsFirst`: the numbering of `pending`, taken at prepare, never puts a child
  before its parent.
* `InventoryIsHeld`: what `prepare` believes when it skips an upload is true.
* `ObtainableUnlessCrashed`: what a recipient misses is stored, or `repairs` lists it.
* `CommitIsWhole`: commit publishes verified files only, until a crash.
* `Delivery`, `Reclamation`: the liveness of the service. A published version reaches
  every subscriber that stays, unless its content was reclaimed and its author has left
  (`Orphaned`): nobody else can repair it.
* `ReplacedContentKept`: what a run removes stays restorable, whatever it is by then
  (the shell looks at size and time only), and so does what it writes over, provided
  the last hash saw it: from `recovery/`, the recycle bin, or the cache and the history.
* `PublicationRemembered`: the author of a version the server knows can always
  finish or explain it, wherever the publication stopped.
* `ReceiptMeansApplied`: the receipts on which the server reclaims content are true.
* `BaseOnHistory`, `ReceiveAdvances`: a device is based on a version of the
  server's history and moves forward on it, with choices that accept any parent.
* `SuccessMeansSynced`: an undisturbed run that reports success left the folder
  equal to the server, a resolution the path it was about (except where the base was
  taken back, section 6).
* `SingleWriter`: of the queues of one cluster at most one is writable.
* `InstalledIsSnapshot`: what is installed is one snapshot, not a mixture, as long as
  at most one request has outlived its session.
* `RedirectLeads`, `CutoverIsCurrent`: a source that refuses to come back has a
  successor, and the successor has its latest records.
* `FrozenIsOwned`: a frozen source can still be restored by somebody.
* `CutoverCompletes`: after the redirect the new queue becomes active.
* `ComparisonsAreCurrent`: a comparison shown under an index is about the folder
  that has this index now, and nothing has happened that makes it untrue.
* `MigrationQuiet`: an unfinished migration keeps all other work quiet, across
  failures, exit and reopening.
* `EditingUndisturbed`, `NoAutoAfterFailure`: the timer never starts work on a folder
  that is edited, or that failed and whose pause was saved, whatever dialog is open.
* `WorkEnds`: jobs, batches and retries end.
* `CommandsOnce`: a command reaches a shell at most once, and never a later shell.
* `MessagesOfThisWorker`: no message outlives its worker.
* `Answered`, `TerminalFlows`: busy views are answered, joins end, both terminal
  buffers drain however full the other one is.
* `ResultsOnTheirRow`, `RunsHoldTheirRows`: results follow rows that are added,
  edited, moved and removed, and a run stays with what it was started for.
* `QueueResumes`, `OneTaskAtATime`: no accepted launch is forgotten, and the
  scheduler implements `TaskQueue`.
* `CancelEnds`, `LeavingEnds`: *Cancel all* and the exit of NOVA come to an end.
* `SavesAreDurable`: after any failures and crashes the shared file holds the last
  saved document or one whose save was left open, and between transactions a
  start would load exactly the tables in memory.
* `AlwaysOpens`: whatever publication a crash or a failing step interrupted, the files
  open together.
* `LoginsStayHome`: a login is never shown for another endpoint, and the saved one
  belongs to the endpoint of the saved profile.

Each property of a passing run is paired in `PROJECT.json` with a mistake, an
operator next to the one it replaces ("Mistake: ..."), under which TLC finds
the property violated.

## 4. Fairness

`SyncBroker!FairSpec`: every device synchronizes again and again (timers in
`sync_manager.c`, or the user), so the requests that a run of the client makes by
itself are weakly fair for each device and chunk, as long as the device is subscribed:
downloads and receipts of what it has not acknowledged, and repairs with their uploads
(`Downloads`, `Receives`, `Repairs`, `Restages`, `Uploads`). A run exists for a configured
and bound folder only (`sync_client.c` 726-727), and the folder is removed after UNBIND
(`sync_manager.c` 781-787); nothing is fair about a device that left, also when it is the
author a late subscriber would need. The collection that follows an ack in the same
process is fair. Publishing, subscribing, leaving and faults are not.

`QueueMigration!FairSpec`: an unfinished migration is resumed again and again
although Restore may compete with it (strong fairness of `Resume`; the user is
shown the pending checkpoint until it is gone), requests are answered
(`Call`), and the journal of a finished session is set aside (`Forget`).
`Recover` runs at the start of every request to a queue. Starting a migration,
following it, quitting and faults are not fair.

`SyncManager!FairSpec`: the worker of a job returns although it may stop to ask
for several recyclings (strong fairness of `Return`; the folder is finite), the
interface thread takes its messages, dialogs are answered in the end. Commands
and the timer are not fair.

`SshSession!Spec`: the worker and the interface thread run; every network operation
has a deadline (`waiting`, `ssh_client.c` 63-71). The user and the far side owe nothing.

`BatchTasks`: threads run and messages are handled; a command that was told to
stop ends, since its job object is terminated (`batch_runner.c` 211-214); any
other command may run for ever. Resume messages are handled by the same loop.

`ConfigStore` makes no liveness claim.

## 5. What is proved

`SyncBrokerProofs`, for every set of devices, datasets, paths, versions and chunks,
every number of packets, quota and number of faults, from `BrokerAssumption` only:

* `TypeCorrect`: `TypeOK`.
* `DeliveredSafe`: `DeliveredToAll`. Inductive together with `TypeOK`. The
  interesting steps are `Bind`, which adds recipients to delivered versions and so
  must revive them, and `Acknowledge`, where the count of at least two recipients
  has to mean "somebody beside the origin" (`SecondRecipient`).
* `ReclaimSafe`: `ReclaimOnlyReceived`, an action property: a file only leaves
  `chunks/` in the two collection steps (`ReclaimStep`), for an obsolete chunk,
  every version of which is delivered; then `DeliveredToAll` applies.
* `HistoryLinear`, `PendingOrder`: `LinearHistory` and `ParentsFirst`.
  `LinearHistory` is not inductive. `HistoryInv` strengthens it: heads are
  published versions of their path, nobody builds on a head, everything else has a
  successor, no two published versions share a parent, parents are published and
  older, numbers do not exceed the number of jobs. `Prepare` and `Commit` are the
  only steps that touch the history; `QuietSteps` shows that every other step
  keeps it (`SameHistory`).
* `InventoryHeld`: `InventoryIsHeld`, together with `ReceiptsOfJobs` (only prepared
  versions have receipts) and `OriginHolds` (an author keeps what it published).
* `ObtainableSafe`: `ObtainableUnlessCrashed`, from `RowsMatchFiles`: the rows of
  `objects` and the files agree between transactions until a process dies.
* `CommitWhole`: `CommitIsWhole`, an action property of the single step `Commit`.

`QueueMigrationProofs`, for every set of queues, computers and tokens, any files,
any number of writes, ended sessions and faults, from `MigrationAssumption` (the empty
value is no queue, token or journal):

* `MigrationTypeCorrect`: `TypeOK`. It needs `ReceivedIsStaged` (a verified file is
  staged whole) and `MissingIsComplete`, without which a queue that is being renamed
  could be installed from files that are not all there.
* `OneWriter`, `RedirectsLead`: `SingleWriter` and `RedirectLeads`. Neither is
  inductive. `OrderInv` says that every token has one source and one destination
  (`Routed`: all journals, control records and requests, also those of broken sessions,
  agree on them), that of the queues of one cluster at most one is in use or is the heir
  of one that refuses rollback (`OneHolder`), and what a request proves by being sent
  (`RequestsInv`): an activation is only sent once the source has given up, a commit only
  once the destination is installed, and of a copy that has begun some file was written
  before its first snapshot, in the source and in everything copied (`Warm`), so that an
  installed queue is never mistaken for the empty one an import may adopt, not even when
  the copy mixes snapshots. The steps are
  classified by what they do to the control records (`Moves`: freeze, restore, redirect,
  adopt, install, lose, activate) and each kind keeps the routes and the holder.
  TLC checks both with one broken session; the theorems hold for any number.
* `InstalledWithoutDelay`, `FrozenWithoutDelay`: `InstalledIsSnapshot` and `FrozenIsOwned`
  as long as no request has outlived its session (`breaks = 0`), with any number of quits,
  of writes and of servers that die half-way. Without the hypothesis what the first says
  of installed files (`OneSnapshot`) fails with two late requests, and the second fails
  with one (section 6). `NextNoBreak` carries the invariant through every step that is no
  `Break`. TLC checked it with two crashes on three queues and on two files first.
  `PromptInv` follows a session through its copy (`SessionCopies`): while the destination
  is importing under its token, the files before the cursor were received as the snapshot
  has them, the hash it sends is that of the snapshot, and when it asks to prepare all
  files are; so a whole import is the snapshot (`StagedIsSnapshot`), and a snapshot is
  superseded but never lost (`InstalledOnDisk`). `MayForget` says why a journal may be set
  aside: its source redirects under its token, or was thawed. A token is held by one
  computer (`HeldOnce`), hence no other session interferes (`OthersStay`).
* `CutoverOrderly`: `CutoverIsCurrent` of every behaviour without a late request (`NoneLate`)
  in which, besides, NOVA does not die between a restoration and the removal of the journal (`NoneKept`); the run `lost`
  shows that it fails otherwise. `FreshInv` adds that a complete snapshot of a frozen queue
  is what the queue holds, that so is whatever was installed from it, and that a session
  knows its source frozen from `export_begin` to `export_abort` (`StaysFrozen`), so that a
  source is never frozen twice under one token with something installed between.

`SshSessionProofs`, for any commands, buffer sizes, connections, operations and faults,
from `SessionConstants`:

* `SessionTypeCorrect`: `TypeOK`, with `RoomIsFree` (the worker writes to the shared
  buffer later than it looked; only the interface thread takes out meanwhile),
  `WorkerIsKnown`, `ViewIsAlone` and `ConnectsLeft`.
* `MessagesBelong`: `MessagesOfThisWorker`. Together with the types it is inductive
  (`SessionInv`); the steps that matter are the join, which empties the queue
  (`Discarded`), and the start of the next worker.
* `CommandsSentOnce`: `CommandsOnce`. `CommandInv` adds that a command is in one place
  only: waiting for the terminal, in the shared input, in the worker's own buffer or
  sent (`InOnePlace`), and that the first three belong to the present connection
  (`AskedNow`). `Pump` moves a command from one place to the next.

`BatchTasksProofs`, for any subtasks, any saved collection that passes the validation of
`storage.c` 296-324, any limits and any number of commands and faults, from
`BatchAssumption`:

* `BatchTypeCorrect`: `TypeOK`, with `Collection` (the selection lies in the collection,
  identifiers are distinct).
* `ResultsStay`, `RowsHeld`, `LaunchesResume`: `ResultsOnTheirRow`, `RunsHoldTheirRows`
  and `QueueResumes`. The invariant `BatchInv` adds `Slots` (the active identifier is
  that of all running threads, the run of a task is alone), `Singles` and `Wholes` (a
  run's snapshot is the row, or the rows, it is shown on), `Fitting` (every posted event
  already fits the row its slot runs now) and `EndsLast` (nothing of a slot follows its
  last event). Every step carries the runs on, starts one or leaves none (`Carries`,
  `StartsWhole`, `StartsSingle`, `Rests`), and each kind keeps the invariant.
* `SchedulerIsOneTaskQueue`: `OneTaskAtATime`, the refinement. Every step of the window,
  of the messages and of the threads is a step of `TaskQueue` or leaves its variables
  alone (`Promised`); the waiting launches are followed through `SubSeq` and `Append`,
  the executing tasks through the threads (`Executing`).

`ConfigStoreProofs`, for every set of endpoints, any number of tabs and profiles and any
number of saves, failures, crashes and tamperings, from the named assumptions of
`ConfigStore` (there is at least one tab; the special values differ from documents):

* `StoreTypeOK`: `TypeOK`.
* `StoreIsDurable`, `StoreAlwaysOpens`, `StoredLoginsStayHome`: the three properties of
  the run `store`.

None of the three is inductive: while a transaction runs they say little about it. The
invariant `IInv` adds what the code relies on. `Snapshots` and `Progress` describe the
transaction: `to` is what it publishes, `from` what it would put back, each file is
published, or still what it was, or, once a restoration failed (`astray`), either.
`BaseLast` is the order of publication and of its undoing: the baseline never stands
without runtime data. `Selections` keeps the selected tab of whatever tables may be
published below their number of tabs. `FormOnTables`: the dialog differs from the
committed profiles in the selected one only, which is why saving it brings no foreign
profile along. `OnRecord`: while a server transaction runs the login on record already
fits the document being published and the one it keeps fits the document on disk, so
that either end of the transaction leaves a login and a profile that agree. `UndoKeeps`,
`RolledBackKeepsForm` and `WriteKeeps` are the steps where this is used. `TurnKeeps` and
`ProgressKeeps` collect what all steps of a transaction have in common.

`SyncManagerProofs`, for any folders and servers, any list of different folders at first,
any selection of offered actions and any number of commands and faults, from
`ManagerAssumption` (the folders of the first settings differ, as `sync_settings_valid`
demands of a loaded document; the empty value is no folder, server or job):

* `ManagerTypeCorrect`: `TypeOK`.
* `ComparisonsCurrent`, `MigrationIsQuiet`, `EditingIsUndisturbed`: the three invariants of
  the run `manager`; `NoUnaskedRetry`: the action property `NoAutoAfterFailure`.

`ComparisonsAreCurrent` is kept by each handler only because of what the handlers before it
left, and `ManagerInv` says what that is. `JobInv`: the job is about the folder that still
has its index and it and an unfinished migration exclude each other. `TimerInv` and
`DialogInv`: under an open dialog only the timer starts a job, it is a plain run, and it
changes nothing the start behind the dialog was checked against (`Aimed`, `Undisturbed`);
that is why a handler that returns from its dialog may go on without looking again.
`PlaceInv`: which handler may be interrupted where. `EditorInv`: the editor is about a
folder of the list or a draft behind it. `JournalInv`: between jobs the window knows of the
ticket on disk, and a ticket means that nothing is automatic, from before it is written
until after it is set aside. `SettingsInv`: folders differ (so dropping the comparisons of a
directory drops no other, `Forgotten`), and no failed folder is automatic. All starts go
through `LaunchKeeps`, `AskKeeps` or `NotStartedKeeps`, all ends through `FinishedKeeps`;
`ShiftedPlans` and `WithoutPairs` show that comparisons and folders move up together. TLC
checked `ManagerInv` on the instance of the run `manager` first. `NoUnaskedRetry` follows
with `Unasked`: only the timer begins a job nobody asked for. The theorems say nothing
beyond the states of `Defects`, as the properties do.

`SyncClientProofs`, for any devices, paths and contents, with or without synchronized
deletions, and any number of versions, edits and stopped runs, from `ClientAssumption`
(no file is not a content):

* `ClientTypeCorrect`: `TypeOK`.
* `Remembered`, `ReceiptsMeanApplied`, `BasesOnHistory`: the invariants
  `PublicationRemembered`, `ReceiptMeansApplied` and `BaseOnHistory`.
* `SuccessIsSynced`: the invariant `SuccessMeansSynced`.
* `ContentKept`, `Advances`: the action properties `ReplacedContentKept` and
  `ReceiveAdvances`.

Neither of the two action properties follows from what a single statement checks: between
the comparison and the write the user edits, rivals publish and the run may have begun as
the retry of an earlier one. `ClientInv` holds what survives. `HistoryInv`: a version
descends from an older published one of its path, the published versions of a path are the
lineage of its head, an author has the receipts of its own. `IndexOk`: what the tables
name is published, of this path, of this author, and its content is in the cache. `BaseOk`
is the key to `Advances`: everything below a base, and below the parent of an own version,
has been received (`HandledTo`). In a choice `receive_one` accepts any parent, but then the
versions still to receive lie on the lineage of the inspected version and have no receipt
(`MoveOk`), so none of them can lie below the base; `MissedVersions` shows that the list
the server answers with is such. `ReplaceOk` and `ResolveOk` are the key to `ContentKept`:
the content found before the download is that of the base, or the one the choice accepted,
and either is kept until the run writes over it. `PhaseOk`, `TodoOk` and `CurOk` tie the
statement a run has reached to its mode and to the version in hand. Every step leaves the
other devices' part alone (`ApartKeeps`, `StepKeeps`); the steps that write nothing durable go
through `QuietKeeps`. TLC checked `ClientInv` on the instance of the run `client`, and on
one of two paths, first.

`SuccessMeansSynced` speaks of all paths at the end of a run, so its invariant
(`SuccessInv`) follows what the run has seen. `CourseOk` is what no disturbance spoils: a
path with a version in the history has a base, the outbox empties before the inbox is
read, a resolution is about a published version. As long as nobody disturbs the run,
`OnCourse` holds: after the pending versions no published version of another device is
missing, and a Push starts like that (`HeadsOk`, `PendingOk`); the paths the scan has
visited match their base or are being published, those it has not are still to come in
the scan or among the deletions (`ScanOk`); the version a resolution accepted is still the
head (`AimOk`) and the file follows the base to it (`ItemOk`). `HeadOrBack` turns "the head is in the
history" into "the base is the head", except where the base was taken back. Each step of
the run keeps this (`WorkSucceeds`); a step of anybody else either forgets the verdict or
changes nothing it rests on (`AsideKeeps`). TLC checked `SuccessInv` with one stopped run
and with two. That showed that an earlier form of the property was false, which left no
room for a base taken back under a resolution.

Lineages are a recursive function, and the provers know nothing of one until it is shown to
exist. `ChainExists` gives it as the intersection of the closed sets around a version, `ChainFacts` shows
that the versions of one lineage are comparable and `LineageGrows` that new manifests leave
old lineages as they are; all three argue by the least version at which they would fail.

Only model-checked: `InstalledIsSnapshot` with exactly one late request, where the run
`migration` finds it to hold and the theorem does not speak; and all liveness, which is out of the prover's reach, as is `ENABLED`.
Induction over data cannot be cited as a schema either; where it is needed, for lineages and
for the messages that a closing window throws away (`Undelivered`), the least number at
which the claim fails takes its place (`LeastNat` of `SequenceFacts`).

## 6. Findings and limits

Three are runs of the project:

1. *A restored source moved with its old snapshot* (run `lost`, `sync_server.c`
   455-456). If NOVA dies between `export_abort` and setting its journal aside,
   resuming reuses the token; the destination is still PREPARED with the
   former snapshot and every check passes if sizes agree. `control.py` 445: "A
   restored source may have changed; never reuse its old snapshot."
2. *A remote write executed twice* (run `retry`, `ssh_view.c` 309). `stop_worker`
   signals the auto-reset request event also when the worker is busy and will not
   consume it; the next worker takes the signal for a request. Line 306: "remote
   writes and commands are never retried automatically".
3. *A batch leaves its scope* (run `scope`, `sync_manager.c` 874). After a trust
   question the job is started again for the selected folder, not for the checked
   one. `sync/README.md` 37-38: "only checkboxes set the batch transfer scope."

The other disagreements have a configuration each, to be run by hand, which TLC
ends with a violation:

* `SyncBroker_stale.cfg` (`Obtainable`, `broker.py` 291-304): a session that dies
  between the `unlink` and the commit of `gc` leaves `complete = 1`; a late
  subscriber is offered a version that `get` cannot serve and `repairs` does not
  list (`sync/PROTOCOL.md` 77-79).
* `SyncClient_offered.cfg` (`ConflictIsOffered`, `sync_client.c` 371-372 against
  646): a device two versions behind whose file already equals the newest one
  cannot receive the intermediate one, Push is barred and no choice is offered
  (`sync/README.md` 180-181). The user gets out by changing the file.
* `SyncClient_refused.cfg` (`RefusalHasARemedy`, 734-739): the outbox row of a
  refused publication survives a Pull that makes it obsolete; every later Sync and
  Push is refused (`broker.py` 164).
* `SyncClient_regress.cfg` (`BaseAdvances`, 241-249 and 709-717): a publication
  without an answer, a rival on top of it and a choice that was stopped: the next Sync
  finishes the old publication and sets the base back (`sync/PROTOCOL.md` 88-89).
  With a second stopped run it goes on: after *Use server* was stopped behind its receipt
  and Push has set the base back, another *Use server* finds the version APPLIED, only
  acknowledges it (351-354) and reports success with the base behind the head. That is
  the exception (`TakenBack`) in `SuccessMeansSynced`.
* `BatchTasks_delete.cfg` (`RunningTaskLocked`, `batch_tasks.c` 585-588): *Delete*
  looks at the runs before its question only; a launch from the main window while
  it is open starts another task and selects it, and *Yes* deletes that one.
* `SshSession_retained.cfg` (`ShellRetained`, `ssh_client.c` 421): *Cancel* of a
  request that was just answered leaves the cancel event set; the worker's next
  wait fails and closes the shell (`README.md` 289, 297-298).
* `ConfigStore_baseline.cfg` (`BaselineAccompanies`, `config_json.c` 200): the
  first start dies after `runtime.json` and before `runtime.base.json`. `first`
  is never true again, so the baseline is never written; the snapshot script
  refuses and names a start of NOVA as the remedy (`config_snapshot.ps1` 53).

Where nested handlers of the sync manager end badly (the states in
`SyncManager!Defects`): the timer starts a job while the target dialog of another
start is open and `job=j` overwrites it; Import replaces the folders under a
running job; leaving NOVA while the trust question is open frees the job that the
outer handler still uses; leaving while the shell asks about a file waits for ever.
If the start after a trust question fails, `batch_action` stays set without a
job. Import during a pending migration replaces the server its ticket belongs to.

The client promises nothing for an edit in the instant between the last hash and
`MoveFileEx` (`sync_client.c` 428-429): it is overwritten. `ReplacedContentKept`
excludes exactly that.

Seen on larger or faultier instances, without a run of its own:

* With one crash `CommitIsWhole` fails: `object_offset` counts a partial file of
  full length (crash after the last packet, before the rename) as complete and
  `commit` publishes it. Nothing in the repository promises otherwise.
* With two delayed requests a mixed snapshot can be installed (`OneSnapshot` fails, which
  is why `InstalledIsSnapshot` speaks of at most one: a late abort and a late
  begin re-freeze the source in the middle of a resumed copy), and `CutoverCompletes`
  fails (a late begin and a late commit after a restoration). Both
  need two server processes to outlive their sessions.
* With one delayed request `FrozenIsOwned` fails: an `export_begin` that runs
  after a successful restoration freezes the source although no journal is left.
* A version whose content was reclaimed and whose author has unsubscribed is offered to a
  late subscriber but cannot be delivered until its author is back: nobody else repairs it.
* Versions superseded while STAGING are never cancelled and keep their quota.
* An abandoned destination stays IMPORTING or PREPARED for ever; the phase ABORTED
  is accepted (`control.py` 178) and never written. `sync/README.md` documents that a
  fresh directory is needed.

## 7. Plan

In order:

1. `SyncClient` against the guarantees of `SyncBroker` (linear history, receipts)
   as an abstract specification, `SharedHistory`, that `SyncBroker` implements.
2. The file manager: tabs and panes, hold-to-drag, the launch queue; the device
   registry; the deployment of the server.

## 8. Not modelled

* *File manager, launcher, workspace*: views over the shell; their state is saved
  through `ConfigStore` (`SaveSession`). Gestures and layout are
  window messages of one thread, which `tests/core.c` drives.
* *Server deployment, device registry*: `control.py` 266-385 and the registration of
  devices. The registry is a table that only grows; deployment replaces releases of
  the server's own code.
* *Wire protocol*: framing of one request and one reply; a broken frame ends the
  session, which the models of both ends contain (`Quit`, `Stop`, `Break`).
* *Application log*: best effort by design; nothing reads it.
* *Snapshot scripts*: PowerShell outside the program, run while NOVA is closed;
  what they can leave behind is `Tamper` of `ConfigStore`.

Not planned: drawing, dialogs, the terminal emulator, third-party code,
packaging scripts.
