--------------------------- MODULE QueueMigration ---------------------------
(***************************************************************************)
(* Moving a synchronization queue from one server to another.  The servers *)
(* answer administration requests (sync/server/chunksync/control.py), each *)
(* under an exclusive lock of the queue, so a handler is atomic unless its *)
(* process dies half-way.  The client (src/platform/sync_server.c) drives  *)
(* both servers, request by request, from a journal on its own disk.       *)
(*                                                                         *)
(* A request whose session breaks is not withdrawn: the server process     *)
(* still holds it, waits for the lock and may run it after requests of a   *)
(* later session.  The variable late holds those requests.                 *)
(*                                                                         *)
(* A file of a queue is a tag (its bytes) and a size in packets; the hash  *)
(* of a file is the file itself.  Reading a packet from the source and     *)
(* storing it at the destination is one step: neither server looks at the  *)
(* other, so nothing can tell the two apart.                               *)
(***************************************************************************)
EXTENDS Naturals, Sequences, FiniteSets

CONSTANTS
    Server,        \* queue directories, each with its own instance identity
    Client,        \* computers that administer a queue
    Token,         \* identifiers of migrations
    None,          \* no token, no server, no journal, no snapshot
    Files,         \* files in a queue: the database, then chunks and uploads
    MaxSize,       \* bound: packets in a file
    MaxWrites,     \* bound: broker requests that change a queue
    MaxQuits,      \* bound: sessions ended between two requests
    MaxFaults      \* bound: sessions broken inside a request

\* server-migration.json of a client.
Ticket == [token : Token, src : Server, dst : Server]

ASSUME MigrationAssumption ==
    /\ None \notin Server \union Token /\ None \notin Ticket
    /\ Files \in Nat \ {0}
    /\ MaxSize \in Nat \ {0}
    /\ MaxWrites \in Nat /\ MaxQuits \in Nat /\ MaxFaults \in Nat

VARIABLES
    phase,         \* .nova-control.json of a queue: phase
    token,         \* ... token
    destination,   \* ... destination, of a queue that is moving or has moved
    previous,      \* ... previous, of a queue that was imported
    cluster,       \* ... cluster
    files,         \* the files of a queue
    snapshot,      \* .nova-export-<token>: the manifest and what it lists
    retained,      \* superseded snapshots of a token, kept on disk
    plan,          \* .nova-import-<token>/transfer.json: the sizes
    staged,        \* .nova-import-<token>/queue: packets received of a file
    received,      \* .nova-import-<token>/transfer.sqlite3: verified files
    server,        \* the server in the settings of a client
    journal,       \* server-migration.json of a client
    pc,            \* the request a client sends next
    seen,          \* the manifest and phase export_begin answered a client with
    cursor,        \* the file a client copies, its hash and offset
    late,          \* requests of broken sessions
    issued,        \* tokens drawn so far
    breaks,        \* requests that outlived their session so far
    writes, quits, faults

controlVars == <<phase, token, destination, previous, cluster>>
exportVars == <<snapshot, retained>>
importVars == <<plan, staged, received>>
serverVars == <<controlVars, files, exportVars, importVars>>
clientVars == <<server, journal, pc, seen, cursor>>
vars == <<serverVars, clientVars, late, breaks, issued, writes, quits, faults>>

File == 1 .. Files
Content == [tag : 0 .. MaxWrites, size : 1 .. MaxSize]
Queue == [File -> Content]
Sizes == [File -> 1 .. MaxSize]
SizesOf(q) == [f \in File |-> q[f].size]

\* A queue just deployed: no device, dataset or version.
EmptyQueue == [f \in File |-> [tag |-> 0, size |-> 1]]

\* Mistake: a file is right when it has the size of the manifest.
VerifiedByLength(packets, sha) == Len(packets) = sha.size

\* digest(path) = sha256, for a file of packets
Verified(packets, sha) == packets = [i \in 1 .. sha.size |-> sha.tag]

Init ==
    /\ phase = [s \in Server |-> "ACTIVE"]
    /\ token = [s \in Server |-> None]
    /\ destination = [s \in Server |-> None]
    /\ previous = [s \in Server |-> None]
    /\ cluster = [s \in Server |-> s]
    /\ files = [s \in Server |-> EmptyQueue]
    /\ snapshot = [t \in Token |-> None]
    /\ retained = [t \in Token |-> {}]
    /\ plan = [t \in Token |-> None]
    /\ staged = [t \in Token |-> [f \in File |-> <<>>]]
    /\ received = [t \in Token |-> [f \in File |-> None]]
    /\ \E s \in Server : server = [c \in Client |-> s]
    /\ journal = [c \in Client |-> None]
    /\ pc = [c \in Client |-> "idle"]
    /\ seen = [c \in Client |-> [sizes |-> SizesOf(EmptyQueue), phase |-> "EXPORTING"]]
    /\ cursor = [c \in Client |-> [file |-> 1, offset |-> 0, sha |-> EmptyQueue[1]]]
    /\ late = {} /\ breaks = 0 /\ issued = {}
    /\ writes = 0 /\ quits = 0 /\ faults = 0

\* Mistake: only a redirected queue is closed to its devices.
OpenWhileExporting(s) == phase[s] \in {"ACTIVE", "EXPORTING"}

\* active_queue: the gate of every broker request.
Open(s) == phase[s] = "ACTIVE"

\* A device registers, prepares, uploads, acknowledges...  Every request that
\* changes the queue changes its database, and may change other files as well.
Write(s) ==
    /\ Open(s)
    /\ writes < MaxWrites
    /\ writes' = writes + 1
    /\ \E others \in SUBSET (File \ {1}), sizes \in Sizes :
          files' = [files EXCEPT ![s] = [f \in File |->
                       IF f \in others \union {1}
                       THEN [tag |-> writes + 1, size |-> sizes[f]]
                       ELSE files[s][f]]]
    /\ UNCHANGED <<controlVars, exportVars, importVars, clientVars, late,
                   breaks, issued, quits, faults>>

-----------------------------------------------------------------------------
(* Requests to the source *)

Exporting(s, t) == token[s] = t /\ phase[s] \in {"EXPORTING", "REDIRECT"}

MayExport(s, t, d) ==
    \/ phase[s] = "ACTIVE" /\ files[s] # EmptyQueue
    \/ Exporting(s, t) /\ destination[s] = d

Freeze(s, t, d) ==
    /\ phase' = [phase EXCEPT ![s] = "EXPORTING"]
    /\ token' = [token EXCEPT ![s] = t]
    /\ destination' = [destination EXCEPT ![s] = d]
    /\ UNCHANGED <<previous, cluster>>

\* The snapshot directory of an earlier attempt is renamed.
SetAside(t) ==
    retained' = [retained EXCEPT ![t] =
                    IF snapshot[t] = None THEN @ ELSE @ \union {snapshot[t]}]

\* export_begin: an ACTIVE queue is frozen, then copied; a frozen one only
\* completes a missing snapshot.
ExportBegin(s, t, d) ==
    /\ MayExport(s, t, d)
    /\ \/ /\ phase[s] = "ACTIVE"
          /\ SetAside(t)
          /\ Freeze(s, t, d)
          /\ snapshot' = [snapshot EXCEPT ![t] = files[s]]
       \/ /\ phase[s] # "ACTIVE"
          /\ snapshot' = [snapshot EXCEPT ![t] = IF @ = None THEN files[s] ELSE @]
          /\ UNCHANGED <<controlVars, retained>>
    /\ UNCHANGED <<files, importVars>>

\* The process dies before the queue is frozen, or before the manifest is
\* complete.
ExportBeginCrash(s, t, d) ==
    /\ phase[s] = "ACTIVE" /\ files[s] # EmptyQueue
    /\ SetAside(t)
    /\ snapshot' = [snapshot EXCEPT ![t] = None]
    /\ Freeze(s, t, d) \/ UNCHANGED controlVars
    /\ UNCHANGED <<files, importVars>>

\* Mistake: a source can be restored at any time before it is deleted.
MayAbortLate(s, t) ==
    \/ phase[s] = "ACTIVE"
    \/ Exporting(s, t)

\* export_abort: an ACTIVE queue needs no restoring, whatever the token.
MayAbort(s, t) ==
    \/ phase[s] = "ACTIVE"
    \/ phase[s] = "EXPORTING" /\ token[s] = t

\* Mistake: the phase is changed in memory and not saved.
AbortUnsaved(s, t) ==
    /\ MayAbort(s, t)
    /\ UNCHANGED serverVars

ExportAbort(s, t) ==
    /\ MayAbort(s, t)
    /\ phase' = [phase EXCEPT ![s] = "ACTIVE"]
    /\ UNCHANGED <<token, destination, previous, cluster, files, exportVars,
                   importVars>>

\* export_commit, for the destination the queue was frozen for
MayRedirect(s, t, d) == Exporting(s, t) /\ destination[s] = d

ExportCommit(s, t, d) ==
    /\ MayRedirect(s, t, d)
    /\ phase' = [phase EXCEPT ![s] = "REDIRECT"]
    /\ UNCHANGED <<token, destination, previous, cluster, files, exportVars,
                   importVars>>

-----------------------------------------------------------------------------
(* Requests to the destination *)

\* import_begin returns at once from a queue this migration has activated.
Activated(d, t) == phase[d] = "ACTIVE" /\ token[d] = t

\* Mistake: import_begin expects an import still under way.
MayImportOnce(d, t, sizes) ==
    /\ \/ phase[d] = "ACTIVE" /\ files[d] = EmptyQueue
       \/ token[d] = t /\ phase[d] = "IMPORTING"
    /\ plan[t] \in {None, sizes}

MayImport(d, t, sizes) ==
    \/ Activated(d, t)
    \/ /\ \/ phase[d] = "ACTIVE" /\ files[d] = EmptyQueue
          \/ token[d] = t /\ phase[d] \in {"IMPORTING", "PREPARED"}
       /\ plan[t] \in {None, sizes}

\* The control record of an empty queue becomes that of an import.
Adopt(d, t, s) ==
    IF phase[d] = "ACTIVE"
    THEN /\ phase' = [phase EXCEPT ![d] = "IMPORTING"]
         /\ token' = [token EXCEPT ![d] = t]
         /\ previous' = [previous EXCEPT ![d] = s]
         /\ cluster' = [cluster EXCEPT ![d] = cluster[s]]
         /\ UNCHANGED destination
    ELSE UNCHANGED controlVars

ImportBegin(d, t, s, sizes) ==
    /\ MayImport(d, t, sizes)
    /\ IF Activated(d, t)
       THEN UNCHANGED <<controlVars, plan>>
       ELSE Adopt(d, t, s) /\ plan' = [plan EXCEPT ![t] = sizes]
    /\ UNCHANGED <<files, exportVars, staged, received>>

\* The process dies between the control record and the manifest.
ImportBeginCrash(d, t, s, sizes) ==
    /\ MayImport(d, t, sizes) /\ ~Activated(d, t)
    /\ Adopt(d, t, s)
    /\ UNCHANGED <<files, exportVars, importVars>>

\* The checks of import_put before it looks at the file.
MayPut(d, t, f, sha) ==
    /\ token[d] = t /\ phase[d] = "IMPORTING"
    /\ plan[t] # None /\ plan[t][f] = sha.size
    /\ received[t][f] \in {None, sha}

\* A prepared queue answers every import_put with the size of the file.
Skips(d, t) == token[d] = t /\ phase[d] = "PREPARED"

\* import_put without payload: a whole file with the wrong hash is emptied,
\* one with the right hash is recorded.
ImportQuery(d, t, f, sha) ==
    /\ MayPut(d, t, f, sha)
    /\ IF Verified(staged[t][f], sha)
       THEN /\ received' = [received EXCEPT ![t][f] = sha]
            /\ UNCHANGED staged
       ELSE /\ staged' = [staged EXCEPT ![t][f] = IF Len(@) = sha.size THEN <<>> ELSE @]
            /\ UNCHANGED received
    /\ UNCHANGED <<controlVars, files, exportVars, plan>>

\* The offset import_put answers a query with.
OffsetOf(d, t, f, sha) ==
    IF Skips(d, t) THEN sha.size ELSE
    IF Len(staged[t][f]) = sha.size /\ ~Verified(staged[t][f], sha)
    THEN 0 ELSE Len(staged[t][f])

MayAppend(d, t, f, sha, n) ==
    /\ MayPut(d, t, f, sha)
    /\ n = Len(staged[t][f]) /\ n < sha.size

\* import_put of a packet: it stays in the file even if the hash of the whole
\* is wrong; a file that is whole and right is recorded.
ImportPacket(d, t, f, sha, n, tag) ==
    /\ MayAppend(d, t, f, sha, n)
    /\ staged' = [staged EXCEPT ![t][f] = Append(@, tag)]
    /\ received' = IF Verified(Append(staged[t][f], tag), sha)
                   THEN [received EXCEPT ![t][f] = sha]
                   ELSE received
    /\ UNCHANGED <<controlVars, files, exportVars, plan>>

\* The process dies after the packet is in the file.
ImportPacketCrash(d, t, f, sha, n, tag) ==
    /\ MayAppend(d, t, f, sha, n)
    /\ staged' = [staged EXCEPT ![t][f] = Append(@, tag)]
    /\ UNCHANGED <<controlVars, files, exportVars, plan, received>>

Installed(d, t) == token[d] = t /\ phase[d] \in {"PREPARED", "ACTIVE"}

MayPrepare(d, t) ==
    \/ Installed(d, t)
    \/ /\ token[d] = t /\ phase[d] = "IMPORTING"
       /\ plan[t] # None
       /\ \A f \in File : received[t][f] # None /\ received[t][f].size = plan[t][f]

\* The received files, each of one tag by now, as a queue.
StagedQueue(t) == [f \in File |-> [tag |-> staged[t][f][1], size |-> Len(staged[t][f])]]

\* import_prepare: the empty queue is renamed away, the staged one takes its
\* place.
ImportPrepare(d, t) ==
    /\ MayPrepare(d, t)
    /\ IF Installed(d, t)
       THEN UNCHANGED <<phase, files>>
       ELSE /\ phase' = [phase EXCEPT ![d] = "PREPARED"]
            /\ files' = [files EXCEPT ![d] = StagedQueue(t)]
    /\ UNCHANGED <<token, destination, previous, cluster, exportVars, importVars>>

\* The process dies between the two renames: there is no queue.
ImportPrepareCrash(d, t) ==
    /\ MayPrepare(d, t) /\ ~Installed(d, t)
    /\ phase' = [phase EXCEPT ![d] = "MISSING"]
    /\ UNCHANGED <<token, destination, previous, cluster, files, exportVars, importVars>>

\* recover_import, outside the lock, at the start of every probe, installation
\* and import request.
Recover(d) ==
    /\ phase[d] = "MISSING"
    /\ phase' = [phase EXCEPT ![d] = "PREPARED"]
    /\ files' = [files EXCEPT ![d] = StagedQueue(token[d])]
    /\ UNCHANGED <<token, destination, previous, cluster, exportVars, importVars,
                   clientVars, late, breaks, issued, writes, quits, faults>>

MayActivate(d, t, s) ==
    /\ token[d] = t
    /\ phase[d] = "ACTIVE" \/ (phase[d] = "PREPARED" /\ previous[d] = s)

ImportActivate(d, t, s) ==
    /\ MayActivate(d, t, s)
    /\ phase' = [phase EXCEPT ![d] = "ACTIVE"]
    /\ UNCHANGED <<token, destination, previous, cluster, files, exportVars, importVars>>

-----------------------------------------------------------------------------
(* The administration client: one session at a time per computer *)


\* Control requests carry no argument, import_begin the sizes, import_put the
\* file, its hash and, with a payload, the offset and the bytes read.
Argument(c) ==
    LET t == journal[c].token
        f == cursor[c].file
    IN  CASE pc[c] = "import_begin" -> seen[c].sizes
          [] pc[c] = "import_query" -> [file |-> f, sha |-> snapshot[t][f]]
          [] pc[c] = "import_put" ->
                [file |-> f, sha |-> cursor[c].sha, offset |-> cursor[c].offset,
                 tag |-> snapshot[t][f].tag]
          [] OTHER -> None

Request(c) == [op |-> pc[c], token |-> journal[c].token, src |-> journal[c].src,
               dst |-> journal[c].dst, arg |-> Argument(c)]

SourceOps == {"export_begin", "export_commit", "export_abort"}
Ops == SourceOps \union {"import_begin", "import_query", "import_put",
                         "import_prepare", "import_activate"}

\* Before import_put the client reads from the source: export_info, export_get.
MaySend(c) ==
    pc[c] \in {"import_query", "import_put"} =>
        LET j == journal[c]
            f == cursor[c].file
        IN  /\ Exporting(j.src, j.token)
            /\ snapshot[j.token] # None
            /\ snapshot[j.token][f].size = seen[c].sizes[f]

\* The requests a handler answers without an error.  A last packet that gives
\* the wrong hash is stored, yet answered with an error.
Accepts(r) ==
    \/ r.op = "export_begin" /\ MayExport(r.src, r.token, r.dst)
    \/ r.op = "export_commit" /\ MayRedirect(r.src, r.token, r.dst)
    \/ r.op = "export_abort" /\ MayAbort(r.src, r.token)
    \/ r.op = "import_begin" /\ MayImport(r.dst, r.token, r.arg)
    \/ r.op = "import_query" /\ \/ Skips(r.dst, r.token)
                                \/ MayPut(r.dst, r.token, r.arg.file, r.arg.sha)
    \/ r.op = "import_put" /\ \/ Skips(r.dst, r.token)
                              \/ MayAppend(r.dst, r.token, r.arg.file, r.arg.sha, r.arg.offset)
    \/ r.op = "import_prepare" /\ MayPrepare(r.dst, r.token)
    \/ r.op = "import_activate" /\ MayActivate(r.dst, r.token, r.src)

Handle(r) ==
    \/ r.op = "export_begin" /\ ExportBegin(r.src, r.token, r.dst)
    \/ r.op = "export_commit" /\ ExportCommit(r.src, r.token, r.dst)
    \/ r.op = "export_abort" /\ ExportAbort(r.src, r.token)
    \/ r.op = "import_begin" /\ ImportBegin(r.dst, r.token, r.src, r.arg)
    \/ r.op = "import_query" /\ ImportQuery(r.dst, r.token, r.arg.file, r.arg.sha)
    \/ r.op = "import_put" /\ ImportPacket(r.dst, r.token, r.arg.file, r.arg.sha,
                                           r.arg.offset, r.arg.tag)
    \/ r.op = "import_prepare" /\ ImportPrepare(r.dst, r.token)
    \/ r.op = "import_activate" /\ ImportActivate(r.dst, r.token, r.src)
    \/ r.op \in {"import_query", "import_put"} /\ Skips(r.dst, r.token) /\ UNCHANGED serverVars

HandleCrash(r) ==
    \/ r.op = "export_begin" /\ ExportBeginCrash(r.src, r.token, r.dst)
    \/ r.op = "import_begin" /\ ImportBeginCrash(r.dst, r.token, r.src, r.arg)
    \/ r.op = "import_put" /\ ImportPacketCrash(r.dst, r.token, r.arg.file, r.arg.sha,
                                                r.arg.offset, r.arg.tag)
    \/ r.op = "import_prepare" /\ ImportPrepareCrash(r.dst, r.token)

\* An import request that finds no queue starts with recover_import.
Served(r) ==
    /\ r.op \notin SourceOps => phase[r.dst] # "MISSING"
    /\ IF Accepts(r) THEN Handle(r) ELSE UNCHANGED serverVars

Goto(c, next) == pc' = [pc EXCEPT ![c] = next]

\* Mistake: the last file is followed by export_commit.
CommitAfterCopy(c) ==
    IF cursor[c].file = Files
    THEN Goto(c, "export_commit") /\ UNCHANGED cursor
    ELSE /\ Goto(c, "import_query")
         /\ cursor' = [cursor EXCEPT ![c].file = @ + 1]

\* The file is complete at the destination: the next one, or import_prepare.
NextFile(c) ==
    IF cursor[c].file = Files
    THEN Goto(c, "import_prepare") /\ UNCHANGED cursor
    ELSE /\ Goto(c, "import_query")
         /\ cursor' = [cursor EXCEPT ![c].file = @ + 1]

Queried(c, r) ==
    LET n == OffsetOf(r.dst, r.token, r.arg.file, r.arg.sha) IN
    IF n = r.arg.sha.size
    THEN NextFile(c)
    ELSE /\ Goto(c, "import_put")
         /\ cursor' = [cursor EXCEPT ![c].sha = r.arg.sha, ![c].offset = n]

Stored(c, r) ==
    LET n == IF Skips(r.dst, r.token) THEN r.arg.sha.size ELSE r.arg.offset + 1
        whole == n = r.arg.sha.size
    IN  IF n # r.arg.offset + 1 \/ (whole /\ ~Skips(r.dst, r.token)
                                          /\ received'[r.token][r.arg.file] # r.arg.sha)
        THEN Goto(c, "idle") /\ UNCHANGED cursor
        ELSE IF whole THEN NextFile(c)
        ELSE cursor' = [cursor EXCEPT ![c].offset = n] /\ UNCHANGED pc

\* migrate and the restore branch of sync_server_run: what follows the answer
\* to a request.  A refusal ends the session.
Continue(c, r) ==
    \/ ~Accepts(r) /\ Goto(c, "idle") /\ UNCHANGED <<seen, cursor>>
    \/ /\ Accepts(r)
       /\ \/ /\ pc[c] = "export_begin"
             /\ Goto(c, "import_begin")
             /\ seen' = [seen EXCEPT ![c] = [sizes |-> SizesOf(snapshot'[r.token]),
                                            phase |-> phase'[r.src]]]
             /\ UNCHANGED cursor
          \/ /\ pc[c] = "import_begin"
             /\ Goto(c, IF seen[c].phase = "EXPORTING" THEN "import_query" ELSE "import_activate")
             /\ cursor' = [cursor EXCEPT ![c].file = 1]
             /\ UNCHANGED seen
          \/ pc[c] = "import_query" /\ Queried(c, r) /\ UNCHANGED seen
          \/ pc[c] = "import_put" /\ Stored(c, r) /\ UNCHANGED seen
          \/ pc[c] = "import_prepare" /\ Goto(c, "export_commit") /\ UNCHANGED <<seen, cursor>>
          \/ pc[c] = "export_commit" /\ Goto(c, "import_activate") /\ UNCHANGED <<seen, cursor>>
          \/ pc[c] = "import_activate" /\ Goto(c, "switch") /\ UNCHANGED <<seen, cursor>>
          \/ pc[c] = "export_abort" /\ Goto(c, "restored") /\ UNCHANGED <<seen, cursor>>

Call(c) ==
    /\ pc[c] \in Ops
    /\ IF MaySend(c)
       THEN Served(Request(c)) /\ Continue(c, Request(c))
       ELSE Goto(c, "idle") /\ UNCHANGED <<serverVars, seen, cursor>>
    /\ UNCHANGED <<server, journal, late, breaks, issued, writes, quits, faults>>

\* Migrate and switch without a checkpoint: the destination is probed and must
\* be empty, then the journal is saved with a fresh token.
Start(c, t, d) ==
    /\ pc[c] = "idle" /\ journal[c] = None
    /\ t \notin issued
    /\ d # server[c] /\ phase[d] # "MISSING" /\ files[d] = EmptyQueue
    /\ issued' = issued \union {t}
    /\ journal' = [journal EXCEPT ![c] = [token |-> t, src |-> server[c], dst |-> d]]
    /\ Goto(c, "export_begin")
    /\ UNCHANGED <<serverVars, server, seen, cursor, late, breaks, writes, quits, faults>>

Reopen(c, op) ==
    /\ pc[c] = "idle" /\ journal[c] # None
    /\ Goto(c, op)
    /\ UNCHANGED <<serverVars, server, journal, seen, cursor, late, breaks,
                   issued, writes, quits, faults>>

\* Migrate and switch, or Restore source, with the checkpoint.
Resume(c) == Reopen(c, "export_begin")
Restore(c) == Reopen(c, "export_abort")

\* The local settings name the new server; then the journal is set aside.
Switch(c) ==
    /\ pc[c] = "switch"
    /\ server' = [server EXCEPT ![c] = journal[c].dst]
    /\ Goto(c, "switched")
    /\ UNCHANGED <<serverVars, journal, seen, cursor, late, breaks,
                   issued, writes, quits, faults>>

\* sync_server_commit_local after a switch or a restoration, and in
\* sync_server_pending when the settings name the destination already.
Forget(c) ==
    /\ \/ pc[c] \in {"switched", "restored"}
       \/ pc[c] = "idle" /\ journal[c] # None /\ journal[c].dst = server[c]
    /\ journal' = [journal EXCEPT ![c] = None]
    /\ Goto(c, "idle")
    /\ UNCHANGED <<serverVars, server, seen, cursor, late, breaks,
                   issued, writes, quits, faults>>

\* Another computer follows the move.
Follow(c) ==
    LET d == destination[server[c]] IN
    /\ pc[c] = "idle" /\ journal[c] = None
    /\ phase[server[c]] = "REDIRECT"
    /\ phase[d] = "ACTIVE" /\ previous[d] = server[c]
    /\ server' = [server EXCEPT ![c] = d]
    /\ UNCHANGED <<serverVars, journal, pc, seen, cursor, late, breaks,
                   issued, writes, quits, faults>>

-----------------------------------------------------------------------------
(* Interruptions *)

\* NOVA is closed, the user cancels or the network is gone between requests.
Quit(c) ==
    /\ pc[c] \notin {"idle", "restored"}
    /\ quits < MaxQuits /\ quits' = quits + 1
    /\ Goto(c, "idle")
    /\ UNCHANGED <<serverVars, server, journal, seen, cursor, late, breaks,
                   issued, writes, faults>>

Fault(c) ==
    /\ faults < MaxFaults /\ faults' = faults + 1
    /\ Goto(c, "idle")
    /\ UNCHANGED <<server, journal, seen, cursor, issued, writes, quits>>

\* The session breaks while a request is with the server.
Break(c) ==
    /\ pc[c] \in Ops /\ MaySend(c)
    /\ late' = late \union {Request(c)}
    /\ breaks' = breaks + 1
    /\ Fault(c)
    /\ UNCHANGED serverVars

RunLate ==
    \E r \in late :
        /\ late' = late \ {r}
        /\ Served(r)
        /\ UNCHANGED <<clientVars, breaks, issued, writes, quits, faults>>

\* The server process dies half-way.
Crash(c) ==
    /\ pc[c] \in Ops /\ MaySend(c)
    /\ HandleCrash(Request(c))
    /\ Fault(c)
    /\ UNCHANGED <<late, breaks>>

\* NOVA dies after the source is restored, before the journal is set aside.
KeepJournal(c) ==
    /\ pc[c] = "restored"
    /\ Fault(c)
    /\ UNCHANGED <<serverVars, late, breaks>>

Next ==
    \/ \E s \in Server : Write(s) \/ Recover(s)
    \/ RunLate
    \/ \E c \in Client :
          \/ \E t \in Token, d \in Server : Start(c, t, d)
          \/ Resume(c) \/ Restore(c) \/ Call(c) \/ Switch(c) \/ Forget(c)
          \/ Follow(c) \/ Quit(c) \/ Break(c) \/ Crash(c) \/ KeepJournal(c)

Spec == Init /\ [][Next]_vars

\* The user resumes an unfinished migration again and again, however often
\* sessions end or the source is asked to be restored; requests are answered.
Fairness ==
    /\ \A s \in Server : WF_vars(Recover(s))
    /\ \A c \in Client : SF_vars(Resume(c)) /\ WF_vars(Call(c)) /\ WF_vars(Forget(c))

FairSpec == Spec /\ Fairness

-----------------------------------------------------------------------------
\* What export_begin answered a client with; the file a client copies.
Answer == [sizes : Sizes, phase : {"EXPORTING", "REDIRECT"}]
Cursor == [file : File, offset : 0 .. MaxSize, sha : Content]

\* A request as the server parses it.
WellFormed(r) ==
    /\ r.op \in Ops /\ r.token \in Token /\ r.src \in Server /\ r.dst \in Server
    /\ r.op = "import_begin" => r.arg \in Sizes
    /\ r.op \in {"import_query", "import_put"} =>
          r.arg.file \in File /\ r.arg.sha \in Content
    /\ r.op = "import_put" => r.arg.offset \in Nat /\ r.arg.tag \in 0 .. MaxWrites

TypeOK ==
    /\ phase \in [Server -> {"ACTIVE", "EXPORTING", "REDIRECT", "IMPORTING",
                             "PREPARED", "MISSING"}]
    /\ token \in [Server -> Token \union {None}]
    /\ destination \in [Server -> Server \union {None}]
    /\ \A s \in Server : phase[s] \in {"EXPORTING", "REDIRECT"} => destination[s] \in Server
    /\ previous \in [Server -> Server \union {None}]
    /\ cluster \in [Server -> Server]
    /\ files \in [Server -> Queue]
    /\ snapshot \in [Token -> Queue \union {None}]
    /\ retained \in [Token -> SUBSET Queue]
    /\ plan \in [Token -> Sizes \union {None}]
    /\ received \in [Token -> [File -> Content \union {None}]]
    /\ staged \in [Token -> [File -> Seq(0 .. MaxWrites)]]
    /\ \A t \in Token, f \in File : Len(staged[t][f]) <= MaxSize
    /\ server \in [Client -> Server]
    /\ journal \in [Client -> Ticket \union {None}]
    /\ pc \in [Client -> Ops \union {"idle", "switch", "switched", "restored"}]
    /\ \A c \in Client : pc[c] # "idle" => journal[c] # None
    /\ seen \in [Client -> Answer] /\ cursor \in [Client -> Cursor]
    /\ \A r \in late : WellFormed(r)
    /\ issued \subseteq Token /\ breaks \in 0 .. faults
    /\ writes \in 0 .. MaxWrites /\ quits \in 0 .. MaxQuits /\ faults \in 0 .. MaxFaults

\* Never two writable copies: of the queues with one cluster identity, at most
\* one accepts requests, whatever is interrupted, restored or delayed
\* (control.py active_queue, export_abort, import_activate).
SingleWriter ==
    \A s, d \in Server :
        (phase[s] = "ACTIVE" /\ phase[d] = "ACTIVE" /\ cluster[s] = cluster[d]) => s = d

\* The files of an installed queue are those of one snapshot of its source.
OneSnapshot ==
    \A d \in Server : phase[d] = "PREPARED" =>
        files[d] \in retained[token[d]] \union {snapshot[token[d]]}

\* What import_prepare installs is one snapshot of the source, never a mixture
\* of two attempts, although a file is resumed packet by packet over packets of
\* an earlier snapshot, and the next file over a snapshot taken since
\* (control.py import_put, export_begin): as long as at most one request was
\* run, or is held, after its session broke.  Two such requests can mix.
InstalledIsSnapshot == breaks <= 1 => OneSnapshot

\* A queue that refuses rollback has a successor with its records.
RedirectLeads ==
    \A s \in Server : phase[s] = "REDIRECT" =>
        /\ previous[destination[s]] = s
        /\ phase[destination[s]] \in {"PREPARED", "ACTIVE", "EXPORTING", "REDIRECT"}

\* A restored source may have changed: no destination is ready with records
\* the frozen source no longer agrees with.
CutoverIsCurrent ==
    \A s \in Server : phase[s] = "REDIRECT" =>
        LET d == destination[s] IN
        phase[d] = "PREPARED" => files[d] = files[s]

\* A frozen source can be restored: some computer still has the journal.
FrozenIsOwned ==
    \A s \in Server : phase[s] = "EXPORTING" =>
        \E c \in Client : journal[c] # None /\ journal[c].token = token[s]

\* After the redirect the new queue is activated in the end.
CutoverCompletes ==
    \A s \in Server : (phase[s] = "REDIRECT") ~> (phase[s] = "REDIRECT" /\
                          phase[destination[s]] \in {"ACTIVE", "EXPORTING", "REDIRECT"})
=============================================================================
