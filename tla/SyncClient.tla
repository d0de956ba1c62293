----------------------------- MODULE SyncClient -----------------------------
(***************************************************************************)
(* NOVA's native synchronization client (src/platform/sync_client.c).      *)
(* Every device keeps a working folder, a SQLite index with the tables     *)
(* files, outbox, inbox and versions, and a chunk cache.  A run (Push,     *)
(* Pull, Sync, Keep local, Use server) is a procedure: each statement that *)
(* writes the index, replaces a working file or calls the server is one    *)
(* action.  The user edits the folder at any point of it, other devices    *)
(* publish in between, and a run may stop anywhere: the network drops, the *)
(* user cancels, NOVA dies.  All of them lose only the run's own memory.   *)
(*                                                                         *)
(* A file's content is one value; chunks, staging space and late           *)
(* subscribers are the business of SyncBroker.  The server is what a       *)
(* client sees of it: the versions prepared and published, the head of     *)
(* each path and the receipts.                                             *)
(***************************************************************************)
EXTENDS Naturals, Sequences, FiniteSets

CONSTANTS
    Device,        \* registered devices, all bound to the folder
    Path,          \* relative paths of the folder
    Content,       \* contents a file may have
    NoFile,        \* there is no file; the content of a DELETE version
    SyncDeletes,   \* the option "synchronize deletions" of the folder
    MaxVersions,   \* bound: manifests made in one behaviour
    MaxEdits,      \* bound: user edits
    MaxFaults      \* bound: runs that stop in the middle

ASSUME ClientAssumption ==
    /\ NoFile \notin Content
    /\ SyncDeletes \in BOOLEAN
    /\ MaxVersions \in Nat /\ MaxEdits \in Nat /\ MaxFaults \in Nat

VARIABLES
    manifest,      \* the immutable manifests made so far; an id is an index
    staged,        \* server: prepared, not yet published
    published,     \* server: committed
    heads,         \* server: current version of a path, 0 without one
    receipts,      \* server: <<version, device>>
    work,          \* the working file of a device at a path
    files,         \* table files: the version the device is based on, or 0
    outbox,        \* table outbox: manifests to publish
    inbox,         \* table inbox: phase of a version being received
    versions,      \* table versions: manifests kept for history
    cache,         \* contents whose chunks are in the local cache
    recovery,      \* copies kept under recovery/
    recycled,      \* files moved to the recycle bin
    run,           \* the run in progress
    edits, faults, \* counters of the bounds
    verdict        \* history: how the last undisturbed run of a device ended

serverVars == <<staged, published, heads, receipts>>
indexVars == <<files, outbox, inbox, versions>>
folderVars == <<work, recovery, recycled>>
bounds == <<edits, faults>>
vars == <<manifest, serverVars, folderVars, indexVars, cache, run, bounds, verdict>>

Version == 1 .. MaxVersions
Base == 0 .. MaxVersions            \* 0: no version
Local == Content \union {NoFile}

Manifest == [path : Path, origin : Device, parent : Base, content : Local]
InboxPhase == {"none", "DOWNLOADING", "READY", "APPLIED"}
Mode == {"RUN", "PUSH", "PULL", "KEEP", "USE"}

Run == [mode : Mode \union {"none"},
        phase : {"idle", "outbox", "inbox", "pending", "ask", "lineage",
                 "choice", "drop", "scan", "deletions"},
        step : {"next", "prepare", "commit", "record", "fetch", "apply",
                "replace", "recycle", "settle", "ack", "forget"},
        todo : SUBSET Version,     \* versions the phase has yet to handle
        paths : SUBSET Path,       \* paths the phase has yet to visit
        cur : Base,                \* the version in hand
        remote : Base,             \* the server version a resolution accepts
        actual : Local,            \* what receive_one found in the folder
        already : BOOLEAN,         \* nothing to write
        accepted : Local]          \* the local content a resolution accepts

Idle == [mode |-> "none", phase |-> "idle", step |-> "next", todo |-> {},
         paths |-> {}, cur |-> 0, remote |-> 0, actual |-> NoFile,
         already |-> FALSE, accepted |-> NoFile]

Ids == 1 .. Len(manifest)
PathOf(v) == manifest[v].path
ContentOf(v) == IF v = 0 THEN NoFile ELSE manifest[v].content
BaseOf(d, v) == files[d][PathOf(v)]
Newest(S) == CHOOSE v \in S : \A w \in S : w <= v
Oldest(S) == CHOOSE v \in S : \A w \in S : v <= w
Resolving(d) == run[d].mode \in {"KEEP", "USE"}

\* pending: published versions the device has no receipt for.
Pending(d) == {v \in published : <<v, d>> \notin receipts}
InboxRows(d) == {v \in Ids : inbox[d][v] # "none"}

Init ==
    /\ manifest = <<>>
    /\ staged = {} /\ published = {} /\ receipts = {}
    /\ heads = [p \in Path |-> 0]
    /\ work = [d \in Device |-> [p \in Path |-> NoFile]]
    /\ files = [d \in Device |-> [p \in Path |-> 0]]
    /\ outbox = [d \in Device |-> {}]
    /\ inbox = [d \in Device |-> [v \in Version |-> "none"]]
    /\ versions = [d \in Device |-> {}]
    /\ cache = [d \in Device |-> {}]
    /\ recovery = [d \in Device |-> {}] /\ recycled = [d \in Device |-> {}]
    /\ run = [d \in Device |-> Idle]
    /\ edits = 0 /\ faults = 0
    /\ verdict = [d \in Device |-> "none"]

-----------------------------------------------------------------------------
(* Inspection *)

\* The view inspection_states: local content, base and server version.
Classify(d, p) ==
    LET local == work[d][p]
        base == files[d][p]
        remote == heads[p]
        edited == local # ContentOf(base)
        behind == remote # 0 /\ remote # base
    IN  IF behind /\ edited /\ local # ContentOf(remote) THEN "conflict"
        ELSE IF behind THEN "pull"
        ELSE IF edited /\ (SyncDeletes \/ local # NoFile) THEN "push"
        ELSE "synced"

-----------------------------------------------------------------------------
(* The course of a run *)

IsIdle(d) == run[d].phase = "idle"
At(d, s) == ~IsIdle(d) /\ run[d].step = s
Goto(d, s) == run' = [run EXCEPT ![d].step = s]

\* The item in hand is done.
Continue(d) ==
    run' = [run EXCEPT ![d].step = "next", ![d].cur = 0,
                       ![d].todo = @ \ {run[d].cur}]

Enter(d, ph, V, P) ==
    run' = [run EXCEPT ![d].phase = ph, ![d].todo = V, ![d].paths = P]

\* The run ends; an undisturbed one leaves its verdict, and what it was about.
End(d, how) ==
    /\ run' = [run EXCEPT ![d] =
                 IF verdict[d] = "running"
                 THEN [Idle EXCEPT !.mode = run[d].mode, !.remote = run[d].remote]
                 ELSE Idle]
    /\ verdict' = [verdict EXCEPT ![d] = IF @ = "running" THEN how ELSE "none"]

\* What the other devices concluded is out of date.
Disturb(D) == verdict' = [d \in Device |-> IF d \in D THEN "none" ELSE verdict[d]]

\* sync_client_run: Push goes ahead only when nothing has to be pulled first.
Start(d, m) ==
    /\ IsIdle(d)
    /\ m = "PUSH" => \A p \in Path : Classify(d, p) \notin {"conflict", "pull"}
    /\ run' = [run EXCEPT ![d] =
                 [Idle EXCEPT !.mode = m,
                              !.phase = IF m = "PULL" THEN "inbox" ELSE "outbox",
                              !.todo = IF m = "PULL" THEN InboxRows(d) ELSE outbox[d]]]
    /\ verdict' = [verdict EXCEPT ![d] = "running"]
    /\ UNCHANGED <<manifest, serverVars, folderVars, indexVars, cache, bounds>>

\* sy_sync: outbox, inbox and pending versions, scan, deletions, in that order.
NextPhase(d) ==
    /\ At(d, "next") /\ run[d].todo = {} /\ run[d].paths = {}
    /\ LET ph == run[d].phase
           m == run[d].mode
       IN  \/ /\ ph = "outbox" /\ m = "RUN"
              /\ Enter(d, "inbox", InboxRows(d), {}) /\ UNCHANGED verdict
           \/ /\ ph = "inbox"
              /\ Enter(d, "pending", Pending(d), {}) /\ UNCHANGED verdict
           \/ /\ \/ ph = "outbox" /\ m = "PUSH"
                 \/ ph = "pending" /\ m = "RUN"
              /\ Enter(d, "scan", {}, Path) /\ UNCHANGED verdict
           \/ /\ ph = "scan" /\ m \in {"RUN", "PUSH"} /\ SyncDeletes
              /\ Enter(d, "deletions", {}, {p \in Path : files[d][p] # 0})
              /\ UNCHANGED verdict
           \/ /\ \/ ph = "pending" /\ m = "PULL"
                 \/ ph = "scan" /\ (m = "KEEP" \/ ~SyncDeletes)
                 \/ ph = "deletions"
              /\ End(d, "done")
    /\ UNCHANGED <<manifest, serverVars, folderVars, indexVars, cache, bounds>>

\* The network drops, the user cancels or declines, or NOVA dies.
Stop(d) ==
    /\ ~IsIdle(d)
    /\ faults < MaxFaults
    /\ faults' = faults + 1
    /\ End(d, "none")
    /\ UNCHANGED <<manifest, serverVars, folderVars, indexVars, cache, edits>>

\* The run fails by itself.  SYNC_CONFLICT is "refused" when the server's
\* VersionConflict is behind it, "conflict" when the client decided.
Fail(d, how) ==
    /\ End(d, how)
    /\ UNCHANGED <<manifest, serverVars, folderVars, indexVars, cache, bounds>>

\* The user saves or deletes a file.
Edit(d, p, c) ==
    /\ edits < MaxEdits
    /\ c # work[d][p]
    /\ work' = [work EXCEPT ![d][p] = c]
    /\ edits' = edits + 1
    /\ Disturb({d})
    /\ UNCHANGED <<manifest, serverVars, recovery, recycled, indexVars, cache,
                   run, faults>>

-----------------------------------------------------------------------------
(* Publishing: push_file, snapshot_file, outbox_store, publish_mode *)

\* Mistake: the outbox row is written once the server has the version.
StoreLate(d, v) == UNCHANGED outbox

StoreRow(d, v) == outbox' = [outbox EXCEPT ![d] = @ \union {v}]

\* A manifest, its chunks in the cache and its outbox row.  A full disk
\* (here: the bound) ends the run.
NewVersion(d, p, c) ==
    IF Len(manifest) < MaxVersions
    THEN LET v == Len(manifest) + 1
         IN  /\ manifest' = Append(manifest, [path |-> p, origin |-> d,
                                              parent |-> files[d][p], content |-> c])
             /\ cache' = [cache EXCEPT ![d] = @ \union ({c} \ {NoFile})]
             /\ StoreRow(d, v)
             /\ run' = [run EXCEPT ![d].step = "prepare", ![d].cur = v, ![d].paths = @ \ {p}]
             /\ UNCHANGED <<serverVars, folderVars, files, inbox, versions, bounds, verdict>>
    ELSE Fail(d, "none")

\* Nothing to publish for this path.
Skip(d, p) ==
    /\ run' = [run EXCEPT ![d].paths = @ \ {p}]
    /\ UNCHANGED <<manifest, serverVars, folderVars, indexVars, cache, bounds, verdict>>

\* Mistake: a known path is taken for unchanged (size and time alone).
SameStat(d, p) == files[d][p] # 0

\* The file holds what the base version holds; always decided by hash.
Same(d, p) == ContentOf(files[d][p]) = work[d][p]

\* push_file of a file the scan came across.
ScanFile(d, p) ==
    /\ At(d, "next") /\ run[d].phase = "scan" /\ p \in run[d].paths
    /\ IF work[d][p] = NoFile \/ Same(d, p)
       THEN Skip(d, p)
       ELSE NewVersion(d, p, work[d][p])

\* push_file of a tracked path without a file: the base must be a PUT.
PushDeletion(d, p) ==
    /\ At(d, "next") /\ run[d].phase = "deletions" /\ p \in run[d].paths
    /\ IF /\ run[d].mode = "KEEP" \/ work[d][p] = NoFile
          /\ ContentOf(files[d][p]) # NoFile
       THEN NewVersion(d, p, NoFile)
       ELSE Skip(d, p)

\* The next outbox row is published again, under its own id.
Republish(d) ==
    /\ At(d, "next") /\ run[d].phase = "outbox" /\ run[d].todo # {}
    /\ run' = [run EXCEPT ![d].step = "prepare", ![d].cur = Oldest(run[d].todo)]
    /\ UNCHANGED <<manifest, serverVars, folderVars, indexVars, cache, bounds, verdict>>

\* Mistake: the commit trusts the parent that prepare compared.
ParentTrusted(v) == TRUE

ParentIsHead(v) == heads[PathOf(v)] = manifest[v].parent

\* prepare, and the upload of what the receivers lack.  An id the server
\* knows is accepted as it is.
Prepare(d) ==
    /\ At(d, "prepare")
    /\ LET v == run[d].cur
           known == v \in staged \union published
       IN  IF known \/ heads[PathOf(v)] = manifest[v].parent
           THEN /\ staged' = IF known THEN staged ELSE staged \union {v}
                /\ Goto(d, "commit")
                /\ UNCHANGED <<manifest, published, heads, receipts, folderVars,
                               indexVars, cache, bounds, verdict>>
           ELSE Fail(d, "refused")

\* commit: once more against the head; a version already published stays.
Commit(d) ==
    /\ At(d, "commit")
    /\ LET v == run[d].cur
       IN  IF v \in published
           THEN /\ Goto(d, "record")
                /\ UNCHANGED <<manifest, serverVars, folderVars, indexVars, cache,
                               bounds, verdict>>
           ELSE IF ParentIsHead(v)
           THEN /\ staged' = staged \ {v}
                /\ published' = published \union {v}
                /\ heads' = [heads EXCEPT ![PathOf(v)] = v]
                /\ receipts' = receipts \union {<<v, d>>}
                /\ Goto(d, "record")
                /\ Disturb(Device \ {d})
                /\ UNCHANGED <<manifest, folderVars, indexVars, cache, bounds>>
           ELSE Fail(d, "refused")

\* head_save and the end of the outbox row, in one transaction.
Record(d) ==
    /\ At(d, "record")
    /\ LET v == run[d].cur
       IN  /\ files' = [files EXCEPT ![d][PathOf(v)] = v]
           /\ versions' = [versions EXCEPT ![d] = @ \union {v}]
           /\ outbox' = [outbox EXCEPT ![d] = @ \ {v}]
    /\ Continue(d)
    /\ UNCHANGED <<manifest, serverVars, folderVars, inbox, cache, bounds, verdict>>

-----------------------------------------------------------------------------
(* Receiving: receive_one, download, acknowledge *)

\* Mistakes: any version is a successor; a version is applied once loaded.
AnyParent(d, v) == TRUE
AppliedWhenLoaded == "APPLIED"

\* A version follows the base of its path.
FollowsBase(d, v) == manifest[v].parent = BaseOf(d, v)

\* The version is in the folder: an earlier run was stopped after the write.
InPlace(d, v) == inbox[d][v] = "READY" /\ work[d][PathOf(v)] = ContentOf(v)

\* The user arrived at the same content.
Adopted(d, v) == ContentOf(v) # NoFile /\ work[d][PathOf(v)] = ContentOf(v)

\* The file is as the base version left it.
Clean(d, v) == work[d][PathOf(v)] = ContentOf(BaseOf(d, v))

\* The content about to be replaced, when a version holds it.
Seeded(d, v) ==
    {work[d][PathOf(v)]} \intersect ({ContentOf(v), ContentOf(BaseOf(d, v))} \ {NoFile})

MayReceive(d, v) ==
    IF Resolving(d)
    THEN work[d][PathOf(v)] = run[d].accepted
    ELSE /\ FollowsBase(d, v)
         /\ InPlace(d, v) \/ Adopted(d, v) \/ Clean(d, v)

\* Received deletions are opt-in; keeping the local file accepts any version.
MayDelete(d, v) == ContentOf(v) # NoFile \/ SyncDeletes \/ run[d].mode = "KEEP"

\* receive_one up to the inbox row: an applied version only lacks its receipt.
Receive(d) ==
    /\ At(d, "next")
    /\ run[d].phase \in {"inbox", "pending", "lineage", "choice"} /\ run[d].todo # {}
    /\ LET v == Oldest(run[d].todo)
           phase == inbox[d][v]
       IN  IF phase = "APPLIED"
           THEN /\ run' = [run EXCEPT ![d].step = "ack", ![d].cur = v]
                /\ UNCHANGED <<manifest, serverVars, folderVars, indexVars, cache,
                               bounds, verdict>>
           ELSE IF ~MayReceive(d, v) THEN Fail(d, "conflict")
           ELSE IF ~MayDelete(d, v) THEN Fail(d, "none")
           ELSE /\ cache' = [cache EXCEPT ![d] = @ \union Seeded(d, v)]
                /\ inbox' = [inbox EXCEPT ![d][v] = IF @ = "none" THEN "DOWNLOADING" ELSE @]
                /\ run' = [run EXCEPT
                     ![d].step = "fetch", ![d].cur = v, ![d].actual = work[d][PathOf(v)],
                     ![d].already = run[d].mode = "KEEP" \/ InPlace(d, v) \/ Adopted(d, v)]
                /\ UNCHANGED <<manifest, serverVars, folderVars, files, outbox,
                               versions, bounds, verdict>>

LoadedPhase == "READY"

\* Every chunk is in the cache; what to do with the working file is decided.
Fetch(d) ==
    /\ At(d, "fetch")
    /\ LET v == run[d].cur
       IN  /\ cache' = [cache EXCEPT ![d] = @ \union ({ContentOf(v)} \ {NoFile})]
           /\ inbox' = [inbox EXCEPT ![d][v] = LoadedPhase]
           /\ Goto(d, IF run[d].already THEN "settle"
                      ELSE IF ContentOf(v) # NoFile THEN "apply"
                      ELSE IF run[d].actual # NoFile THEN "recycle"
                      ELSE "settle")
    /\ UNCHANGED <<manifest, serverVars, folderVars, files, outbox, versions,
                   bounds, verdict>>

\* The temporary file is complete; the working file is hashed once more.
Recheck(d) ==
    /\ At(d, "apply")
    /\ IF work[d][PathOf(run[d].cur)] = run[d].actual
       THEN /\ Goto(d, "replace")
            /\ UNCHANGED <<manifest, serverVars, folderVars, indexVars, cache,
                           bounds, verdict>>
       ELSE Fail(d, "none")

\* MoveFileEx: whatever is there now is replaced.
Replace(d) ==
    /\ At(d, "replace")
    /\ work' = [work EXCEPT ![d][PathOf(run[d].cur)] = ContentOf(run[d].cur)]
    /\ Goto(d, "settle")
    /\ UNCHANGED <<manifest, serverVars, recovery, recycled, indexVars, cache,
                   bounds, verdict>>

\* recycle_on_ui: a file whose size or time changed since is not moved; one that
\* changed and kept both is moved like any other.
Recycle(d) ==
    /\ At(d, "recycle")
    /\ LET p == PathOf(run[d].cur)
       IN  \/ /\ work[d][p] # NoFile
              /\ recycled' = [recycled EXCEPT ![d] = @ \union {<<p, work[d][p]>>}]
              /\ work' = [work EXCEPT ![d][p] = NoFile]
              /\ Goto(d, "settle")
              /\ UNCHANGED <<manifest, serverVars, recovery, indexVars, cache,
                             bounds, verdict>>
           \/ work[d][p] # run[d].actual /\ Fail(d, "none")

\* The version becomes the base and its inbox row is applied, in one
\* transaction.  A kept local file must still be the accepted one.
Settle(d) ==
    /\ At(d, "settle")
    /\ LET v == run[d].cur
           m == run[d].mode
       IN  IF m = "KEEP" /\ work[d][PathOf(v)] # run[d].accepted
           THEN Fail(d, "conflict")
           ELSE /\ files' = [files EXCEPT ![d][PathOf(v)] = v]
                /\ versions' = [versions EXCEPT ![d] = @ \union {v}]
                /\ inbox' = [inbox EXCEPT ![d][v] = "APPLIED"]
                /\ run' = [run EXCEPT ![d].step = "ack",
                                      ![d].accepted = IF m = "USE" THEN ContentOf(v) ELSE @]
                /\ UNCHANGED <<manifest, serverVars, folderVars, outbox, cache,
                               bounds, verdict>>

\* acknowledge: every chunk is still in the cache; the server takes the receipt.
Acknowledge(d) ==
    /\ At(d, "ack")
    /\ IF ContentOf(run[d].cur) \in cache[d] \union {NoFile}
       THEN /\ receipts' = receipts \union {<<run[d].cur, d>>}
            /\ Goto(d, "forget")
            /\ UNCHANGED <<manifest, staged, published, heads, folderVars,
                           indexVars, cache, bounds, verdict>>
       ELSE Fail(d, "none")

\* The receipt is known to the server: the inbox row goes.
Forget(d) ==
    /\ At(d, "forget")
    /\ inbox' = [inbox EXCEPT ![d][run[d].cur] = "none"]
    /\ Continue(d)
    /\ UNCHANGED <<manifest, serverVars, folderVars, files, outbox, versions,
                   cache, bounds, verdict>>

-----------------------------------------------------------------------------
(* Resolution of a conflict: Keep local, Use server *)

\* Mistake: only the server's version is worth a copy.
BackupNone(d, p) == UNCHANGED recovery
\* The local content goes to recovery/ before anything else happens.
Backup(d, p) ==
    recovery' = [recovery EXCEPT ![d] = @ \union ({<<p, work[d][p]>>} \ {<<p, NoFile>>})]

\* resolve: offered for conflicts only; inspected once more and backed up.
Resolve(d, p, m) ==
    /\ IsIdle(d)
    /\ Classify(d, p) = "conflict"
    /\ Backup(d, p)
    /\ run' = [run EXCEPT ![d] =
                 [Idle EXCEPT !.mode = m, !.phase = "ask", !.paths = {p},
                              !.remote = heads[p], !.accepted = work[d][p]]]
    /\ verdict' = [verdict EXCEPT ![d] = "running"]
    /\ UNCHANGED <<manifest, serverVars, work, recycled, indexVars, cache, bounds>>

\* The versions the device misses; the newest must be the inspected one.
AskLineage(d) ==
    /\ At(d, "next") /\ run[d].phase = "ask"
    /\ LET V == {v \in Pending(d) : PathOf(v) \in run[d].paths}
       IN  IF V = {} \/ Newest(V) = run[d].remote
           THEN /\ Enter(d, "lineage", V, run[d].paths)
                /\ UNCHANGED <<manifest, serverVars, folderVars, indexVars, cache,
                               bounds, verdict>>
           ELSE Fail(d, "conflict")

\* After the lineage the inspected version itself, received or not.
AcceptRemote(d) ==
    /\ At(d, "next") /\ run[d].phase = "lineage" /\ run[d].todo = {}
    /\ Enter(d, "choice", {run[d].remote}, run[d].paths)
    /\ UNCHANGED <<manifest, serverVars, folderVars, indexVars, cache, bounds, verdict>>

RowsOfPath(d) == {v \in outbox[d] : PathOf(v) \in run[d].paths}

\* What was to be published for the path is history now.
RetireOutbox(d) ==
    /\ At(d, "next") /\ run[d].phase = "choice" /\ run[d].todo = {}
    /\ versions' = [versions EXCEPT ![d] = @ \union RowsOfPath(d)]
    /\ Enter(d, "drop", {}, run[d].paths)
    /\ UNCHANGED <<manifest, serverVars, folderVars, files, outbox, inbox, cache,
                   bounds, verdict>>

\* Then it leaves the outbox; a kept local content is published as a child.
DropOutbox(d) ==
    /\ At(d, "next") /\ run[d].phase = "drop"
    /\ outbox' = [outbox EXCEPT ![d] = @ \ RowsOfPath(d)]
    /\ IF run[d].mode = "KEEP"
       THEN /\ Enter(d, IF run[d].accepted = NoFile THEN "deletions" ELSE "scan",
                     {}, run[d].paths)
            /\ UNCHANGED verdict
       ELSE End(d, "done")
    /\ UNCHANGED <<manifest, serverVars, folderVars, files, inbox, versions, cache,
                   bounds>>

-----------------------------------------------------------------------------
Publish(d) == Republish(d) \/ Prepare(d) \/ Commit(d) \/ Record(d)

Pull(d) ==
    \/ Receive(d) \/ Fetch(d) \/ Recheck(d) \/ Replace(d) \/ Recycle(d)
    \/ Settle(d) \/ Acknowledge(d) \/ Forget(d)

ResolveStep(d) == AskLineage(d) \/ AcceptRemote(d) \/ RetireOutbox(d) \/ DropOutbox(d)

Next ==
    \E d \in Device :
        \/ \E m \in {"RUN", "PUSH", "PULL"} : Start(d, m)
        \/ NextPhase(d) \/ Stop(d)
        \/ Publish(d) \/ Pull(d) \/ ResolveStep(d)
        \/ \E p \in Path :
              \/ ScanFile(d, p) \/ PushDeletion(d, p)
              \/ \E m \in {"KEEP", "USE"} : Resolve(d, p, m)
              \/ \E c \in Local : Edit(d, p, c)

Spec == Init /\ [][Next]_vars

-----------------------------------------------------------------------------
(* Properties *)

TypeOK ==
    /\ manifest \in Seq(Manifest) /\ Len(manifest) <= MaxVersions
    /\ staged \subseteq Ids /\ published \subseteq Ids
    /\ heads \in [Path -> Base]
    /\ receipts \subseteq Version \X Device
    /\ work \in [Device -> [Path -> Local]]
    /\ files \in [Device -> [Path -> Base]]
    /\ outbox \in [Device -> SUBSET Version]
    /\ inbox \in [Device -> [Version -> InboxPhase]]
    /\ versions \in [Device -> SUBSET Version]
    /\ cache \in [Device -> SUBSET Content]
    /\ recovery \in [Device -> SUBSET (Path \X Content)]
    /\ recycled \in [Device -> SUBSET (Path \X Content)]
    /\ run \in [Device -> Run]
    /\ edits \in 0 .. MaxEdits /\ faults \in 0 .. MaxFaults
    /\ verdict \in [Device -> {"none", "running", "done", "refused", "conflict"}]

\* The versions a version descends from, itself included.
Lineage(v) ==
    LET chain[n \in 0 .. Len(manifest)] ==
          IF n = 0 THEN {} ELSE {n} \union chain[manifest[n].parent]
    IN  chain[v]

\* A content of a path the device can still restore.
Kept(d, p, c) ==
    \/ <<p, c>> \in recovery[d]
    \/ /\ c \in cache[d]
       /\ \E v \in versions[d] : PathOf(v) = p /\ ContentOf(v) = c

\* Whatever a run removes, and whatever it writes over that the last hash saw,
\* stays restorable: from a recovery copy, from the recycle bin, or from the
\* cache and the versions table (receive_one 368-433, resolve 686-693).
ReplacedContentKept ==
    [][\A d \in Device, p \in Path :
          (/\ work'[d][p] # work[d][p] /\ edits' = edits /\ work[d][p] # NoFile
           /\ run[d].step = "recycle" \/ work[d][p] = run[d].actual)
          => Kept(d, p, work[d][p]) \/ <<p, work[d][p]>> \in recycled'[d]]_vars

\* The author of every manifest the server knows still has it in its outbox
\* or its history, whatever interrupted the publication (publish_mode 165-255,
\* resolve 716-717).
PublicationRemembered ==
    \A v \in staged \union published :
        v \in outbox[manifest[v].origin] \union versions[manifest[v].origin]

\* A receipt means the receiver has the content and has recorded the version
\* (receive_one 442-445, acknowledge 322-338).
ReceiptMeansApplied ==
    \A r \in receipts :
        /\ ContentOf(r[1]) \in cache[r[2]] \union {NoFile}
        /\ \/ r[1] \in versions[r[2]]
           \/ manifest[r[1]].origin = r[2] /\ r[1] \in outbox[r[2]]

\* A device is based on a version of the server's own history of the path,
\* however the version reached it (head_save 144-164).
BaseOnHistory ==
    \A d \in Device, p \in Path : files[d][p] # 0 => files[d][p] \in Lineage(heads[p])

Forward(d, p) ==
    files'[d][p] # files[d][p] =>
        files[d][p] = 0 \/ files[d][p] \in Lineage(files'[d][p])

\* What a device receives or publishes anew only moves its base forward: the
\* parent checks, and the lineage check of a resolution, suffice
\* (receive_one 359-364, resolve 701-714).
ReceiveAdvances ==
    [][\A d \in Device, p \in Path : run[d].phase # "outbox" => Forward(d, p)]_vars

\* The same of every step, the retry of an outbox row included.
BaseAdvances == [][\A d \in Device, p \in Path : Forward(d, p)]_vars

Synced(d, p) == files[d][p] = heads[p] /\ work[d][p] = ContentOf(heads[p])

\* The device once recorded a published successor of its base: the outcome of
\* BaseAdvances failing.
TakenBack(d, p) ==
    \E v \in versions[d] \intersect published :
        files[d][p] # 0 /\ files[d][p] # v /\ files[d][p] \in Lineage(v)

\* The files are what the last run of the device, by its mode, had to make them.
Done(d) ==
    LET mode == run[d].mode
        ordinary == {p \in Path : ~TakenBack(d, p)}
        chosen == PathOf(run[d].remote)
    IN  /\ mode \in {"RUN", "PUSH"} =>
             \A p \in ordinary :
                 \/ Synced(d, p)
                 \/ ~SyncDeletes /\ files[d][p] = heads[p] /\ work[d][p] = NoFile
        /\ mode \in {"KEEP", "USE"} => Synced(d, chosen) \/ TakenBack(d, chosen)
        /\ mode = "PULL" =>
             \A p \in ordinary :
                 files[d][p] = heads[p] \/ manifest[heads[p]].origin = d

\* A run that nobody disturbed and that reports success has done its job:
\* after Sync or Push every file is the server's current version, after a
\* resolution the file it was about is, after Pull every base is, but for a
\* version of the device's own (sy_sync 723-759, resolve 676-722).  Without the deletion
\* option a missing file may stay missing.  A path whose base the retry of an
\* outbox row has taken back is beyond a run's help: the versions it would need
\* are acknowledged or applied already.
SuccessMeansSynced == \A d \in Device : verdict[d] = "done" => Done(d)

Shown(d, state) == \E p \in Path : Classify(d, p) = state

\* What broker.py:164 tells the user: a refused publication is cured by a pull
\* or by choosing a version, so the comparison shows one or the other.
RefusalHasARemedy ==
    \A d \in Device : verdict[d] = "refused" => Shown(d, "conflict") \/ Shown(d, "pull")

\* README.md:180-181: a conflict pauses until a version is chosen.  So a run that
\* will not receive a version leaves a path the user is asked about
\* (receive_one 359-375, inspect 646-650; the dialog offers conflicts only).
ConflictIsOffered ==
    \A d \in Device : verdict[d] = "conflict" => Shown(d, "conflict")
=============================================================================
