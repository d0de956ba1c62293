----------------------------- MODULE SyncBroker -----------------------------
(***************************************************************************)
(* The queue server of NOVA's device synchronization                       *)
(* (sync/server/chunksync/broker.py).  One server process per SSH session  *)
(* answers the requests of one device; every process works on the same     *)
(* SQLite file and the same chunks/ and uploads/ directories.  A request   *)
(* that writes runs in one BEGIN IMMEDIATE transaction and is one action   *)
(* here.  The exceptions are the ones the code makes: the garbage          *)
(* collection after an acknowledgement is a transaction of its own, and    *)
(* repair_prepare writes in autocommit mode, statement by statement.       *)
(*                                                                         *)
(* The SQL tables are relations: recipients is a set of <<version,         *)
(* device>> rows, and so on.  A chunk is a model value of size 1; an       *)
(* upload advances packet by packet.                                       *)
(***************************************************************************)
EXTENDS Naturals, FiniteSets

CONSTANTS
    Device,        \* registered device roles
    Dataset,       \* publication groups
    Path,          \* (dataset, path_key) pairs
    DatasetOf,     \* the dataset of a path
    Version,       \* immutable version (job) identifiers
    NoVersion,     \* the parent of a first version; the head of a new path
    Chunk,         \* content hashes
    Packets,       \* packets in one chunk
    Quota,         \* staged chunks the server admits
    MaxFaults      \* bound: crashes and corrupted uploads in one behaviour

ASSUME BrokerAssumption ==
    /\ DatasetOf \in [Path -> Dataset]
    /\ NoVersion \notin Version
    /\ Packets \in Nat \ {0}
    /\ Quota \in Nat
    /\ MaxFaults \in Nat

VARIABLES
    jobs,          \* table jobs: a function on the ids inserted so far
    heads,         \* table heads
    bindings,      \* table bindings: <<dataset, device>>
    recipients,    \* table recipients: <<version, device>>
    receipts,      \* table receipts: <<version, device>>
    inventory,     \* table inventory: <<device, chunk>>
    needs,         \* table needs: <<version, chunk>>
    objects,       \* table objects: the chunks that have a row
    complete,      \* the rows of objects with complete = 1
    chunkFiles,    \* files under chunks/
    parts,         \* packets in uploads/<hash>.part, 0 without a file
    gcDue,         \* devices whose acknowledged session has yet to collect
    repairing,     \* autocommit statements repair_prepare has yet to run
    cache,         \* <<device, chunk>> held in a device's durable cache
    faults         \* crashes and corruptions so far

dbVars == <<jobs, heads, bindings, recipients, receipts, inventory, needs>>
fileVars == <<chunkFiles, parts>>
vars == <<jobs, heads, bindings, recipients, receipts, inventory, needs,
          objects, complete, chunkFiles, parts, gcDue, repairing, cache, faults>>

States == {"STAGING", "READY", "DELIVERED"}

Job == [path : Path, origin : Device, parent : Version \union {NoVersion},
        chunks : SUBSET Chunk, seq : Nat \ {0}, state : States]

RepairStatement == Device \X Version \X Chunk \X {"object", "need"}

Jobs == DOMAIN jobs
InDataset(v, s) == DatasetOf[jobs[v].path] = s
Published(v) == v \in Jobs /\ jobs[v].state # "STAGING"
Subscribers(s) == {d \in Device : <<s, d>> \in bindings}
Subscribed(v, d) == v \in Jobs /\ <<DatasetOf[jobs[v].path], d>> \in bindings
HasReceipt(v, d) == <<v, d>> \in receipts
RecipientsOf(v) == {d \in Device : <<v, d>> \in recipients}
NeedsOf(v) == {h \in objects : <<v, h>> \in needs}

SetState(v, s) == [jobs EXCEPT ![v].state = s]

(***************************************************************************)
(* object_offset: bytes the server holds of a chunk.  A file in chunks/    *)
(* is whole; otherwise the length of the partial file counts.              *)
(***************************************************************************)
Offset(h) == IF h \in chunkFiles THEN Packets ELSE parts[h]

\* object_offset rewrites the columns complete and progress from the files.
Refreshed(H) == (complete \ H) \union (H \intersect chunkFiles)

Init ==
    /\ jobs = [v \in {} |-> {}]
    /\ heads = [p \in Path |-> NoVersion]
    /\ bindings = {} /\ recipients = {} /\ receipts = {}
    /\ inventory = {} /\ needs = {}
    /\ objects = {} /\ complete = {}
    /\ chunkFiles = {} /\ parts = [h \in Chunk |-> 0]
    /\ gcDue = {} /\ repairing = {}
    /\ cache = {}
    /\ faults = 0

-----------------------------------------------------------------------------
(* Subscriptions *)

\* Mistake: what is delivered stays delivered.
NeverRevived(v, d) == FALSE

\* A version that has to be offered again when the device joins.
Revived(v, d) == jobs[v].state = "DELIVERED" /\ ~HasReceipt(v, d)

\* bind: the device becomes a recipient of every version of the dataset, and
\* a delivered version it has no receipt for is offered again.
Bind(d, s) ==
    /\ bindings' = bindings \union {<<s, d>>}
    /\ recipients' = recipients \union {<<v, d>> : v \in {w \in Jobs : InDataset(w, s)}}
    /\ jobs' = [v \in Jobs |->
                 IF InDataset(v, s) /\ Revived(v, d)
                 THEN [jobs[v] EXCEPT !.state = "READY"]
                 ELSE jobs[v]]
    /\ UNCHANGED <<heads, receipts, inventory, needs, objects, complete,
                   fileVars, gcDue, repairing, cache, faults>>

\* unbind removes the binding only; pending receipts stay.
Unbind(d, s) ==
    /\ <<s, d>> \in bindings
    /\ bindings' = bindings \ {<<s, d>>}
    /\ UNCHANGED <<jobs, heads, recipients, receipts, inventory, needs, objects,
                   complete, fileVars, gcDue, repairing, cache, faults>>

-----------------------------------------------------------------------------
(* Publication: prepare, put, commit *)

Others(d, p) == Subscribers(DatasetOf[p]) \ {d}

\* A chunk every other subscriber already holds is not uploaded.
Needed(d, p, C) ==
    {h \in C : \/ Others(d, p) = {}
               \/ \E o \in Others(d, p) : <<o, h>> \notin inventory}

\* Mistakes: the version prepared last; numbers from 0.
LastPrepared(p) == CHOOSE u \in Version \union {NoVersion} :
                        IF Jobs = {} THEN u = NoVersion
                        ELSE u \in Jobs /\ jobs[u].seq = Cardinality(Jobs)
CountFromZero == Cardinality(Jobs)

\* What prepare writes: the recipients, the parent and the sequence number.
RecipientsFor(d, p) == Others(d, p) \union {d}
ParentFor(p) == heads[p]
NextSeq == Cardinality(Jobs) + 1

\* prepare of an id the server does not know.  The client has its snapshot in
\* the cache before it asks; a stale parent or a full quota changes nothing.
Prepare(d, v, p, C) ==
    /\ v \notin Jobs
    /\ Cardinality(objects \union Needed(d, p, C)) <= Quota
    /\ jobs' = [w \in Jobs \union {v} |->
                 IF w = v
                 THEN [path |-> p, origin |-> d, parent |-> ParentFor(p), chunks |-> C,
                       seq |-> NextSeq, state |-> "STAGING"]
                 ELSE jobs[w]]
    /\ recipients' = recipients \union ({v} \X RecipientsFor(d, p))
    /\ objects' = objects \union Needed(d, p, C)
    /\ needs' = needs \union ({v} \X Needed(d, p, C))
    /\ cache' = cache \union ({d} \X C)
    /\ UNCHANGED <<heads, bindings, receipts, inventory, complete, fileVars,
                   gcDue, repairing, faults>>

\* The checks every put makes before it looks at the files.
MayUpload(d, v, h) ==
    /\ v \in Jobs
    /\ jobs[v].origin = d
    /\ jobs[v].state \in {"STAGING", "READY"}
    /\ h \in NeedsOf(v)

\* put without payload, or at an offset that is not the server's: the reply
\* carries the real offset and the row is brought up to date.
QueryOffset(d, v, h) ==
    /\ MayUpload(d, v, h)
    /\ complete' = Refreshed({h})
    /\ UNCHANGED <<dbVars, objects, fileVars, gcDue, repairing, cache, faults>>

\* put of the next packet; the last one verifies the hash and moves the
\* partial file into chunks/.
Upload(d, v, h) ==
    /\ MayUpload(d, v, h)
    /\ Offset(h) < Packets
    /\ IF parts[h] + 1 < Packets
       THEN /\ parts' = [parts EXCEPT ![h] = @ + 1]
            /\ complete' = complete \ {h}
            /\ UNCHANGED chunkFiles
       ELSE /\ parts' = [parts EXCEPT ![h] = 0]
            /\ chunkFiles' = chunkFiles \union {h}
            /\ complete' = complete \union {h}
    /\ UNCHANGED <<dbVars, objects, gcDue, repairing, cache, faults>>

\* The last packet completes a file with the wrong hash: it is discarded.
UploadMismatch(d, v, h) ==
    /\ MayUpload(d, v, h)
    /\ Offset(h) + 1 = Packets
    /\ faults < MaxFaults
    /\ faults' = faults + 1
    /\ parts' = [parts EXCEPT ![h] = 0]
    /\ complete' = complete \ {h}
    /\ UNCHANGED <<dbVars, objects, chunkFiles, gcDue, repairing, cache>>

\* The session dies inside put: the transaction rolls back, the file system
\* keeps what was done.  The packet is in the partial file and, for the last
\* packet, the rename may or may not have happened.
UploadCrash(d, v, h) ==
    /\ MayUpload(d, v, h)
    /\ Offset(h) < Packets
    /\ faults < MaxFaults
    /\ faults' = faults + 1
    /\ \/ /\ parts' = [parts EXCEPT ![h] = @ + 1]
          /\ UNCHANGED chunkFiles
       \/ /\ parts[h] + 1 = Packets
          /\ parts' = [parts EXCEPT ![h] = 0]
          /\ chunkFiles' = chunkFiles \union {h}
    /\ UNCHANGED <<dbVars, objects, complete, gcDue, repairing, cache>>

\* Mistakes: only prepare compares the parent; the chunks are taken on trust.
MayCommitStale(v) == \A h \in NeedsOf(v) : Offset(h) = Packets
MayCommitUnchecked(v) == heads[jobs[v].path] = jobs[v].parent

\* The head has not moved since prepare, and every chunk is complete.
MayCommit(v) ==
    /\ heads[jobs[v].path] = jobs[v].parent
    /\ \A h \in NeedsOf(v) : Offset(h) = Packets

\* commit: the version becomes the head of its path and reaches the others.
Commit(d, v) ==
    /\ v \in Jobs
    /\ jobs[v].origin = d
    /\ jobs[v].state = "STAGING"
    /\ MayCommit(v)
    /\ jobs' = SetState(v, "READY")
    /\ heads' = [heads EXCEPT ![jobs[v].path] = v]
    /\ inventory' = inventory \union ({d} \X jobs[v].chunks)
    /\ receipts' = receipts \union {<<v, d>>}
    /\ complete' = Refreshed(NeedsOf(v))
    /\ UNCHANGED <<bindings, recipients, needs, objects, fileVars, gcDue,
                   repairing, cache, faults>>

-----------------------------------------------------------------------------
(* Delivery: get, ack, garbage collection *)

\* get: a device downloads a chunk it does not hold; the server asks neither
\* for a binding nor for a receipt.  A download is verified before it enters the
\* cache.
Get(d, v, h) ==
    /\ v \in Jobs
    /\ jobs[v].state = "READY"
    /\ h \in jobs[v].chunks
    /\ <<d, h>> \notin cache
    /\ h \in chunkFiles
    /\ cache' = cache \union {<<d, h>>}
    /\ UNCHANGED <<dbVars, objects, complete, fileVars, gcDue, repairing, faults>>

\* The receipt that makes a version delivered: a subscriber beside the origin
\* exists, and every recipient has acknowledged.
Delivers(v, d) ==
    /\ Cardinality(RecipientsOf(v)) >= 2
    /\ \A r \in RecipientsOf(v) : r = d \/ HasReceipt(v, r)

\* Mistake: the receipt is sent before the content is durable.
HoldsLater(d, v) == TRUE

\* Every chunk of the version is in the cache of the device.
Holds(d, v) == ({d} \X jobs[v].chunks) \subseteq cache

\* ack: sent once the device holds every chunk of the version.
Acknowledge(d, v) ==
    /\ Published(v)
    /\ Holds(d, v)
    /\ inventory' = inventory \union ({d} \X jobs[v].chunks)
    /\ receipts' = receipts \union {<<v, d>>}
    /\ jobs' = IF Delivers(v, d) THEN SetState(v, "DELIVERED") ELSE jobs
    /\ gcDue' = gcDue \union {d}
    /\ UNCHANGED <<heads, bindings, recipients, needs, objects, complete,
                   fileVars, repairing, cache, faults>>

\* Mistake: only versions still staging keep their chunks.
ObsoletePublished ==
    {h \in objects : \A v \in Jobs :
                        h \in jobs[v].chunks => jobs[v].state # "STAGING"}

\* Objects no undelivered version refers to.
Obsolete ==
    {h \in objects : \A v \in Jobs :
                        h \in jobs[v].chunks => jobs[v].state = "DELIVERED"}

\* Mistakes: the rows stay; the files stay.
KeepRows == UNCHANGED <<objects, complete>>
KeepFiles(H) == UNCHANGED fileVars

DeleteRows ==
    /\ objects' = objects \ Obsolete
    /\ complete' = complete \ Obsolete

DeleteFiles(H) ==
    /\ chunkFiles' = chunkFiles \ H
    /\ parts' = [h \in Chunk |-> IF h \in H THEN 0 ELSE parts[h]]

\* gc: the files of obsolete objects are deleted, then their rows.
CollectGarbage(d) ==
    /\ d \in gcDue
    /\ gcDue' = gcDue \ {d}
    /\ DeleteFiles(Obsolete)
    /\ DeleteRows
    /\ UNCHANGED <<dbVars, repairing, cache, faults>>

\* The session dies between the receipt and the end of the collection: some
\* of the files are gone, every row is still there.
CollectCrash(d) ==
    /\ d \in gcDue
    /\ gcDue' = gcDue \ {d}
    /\ faults < MaxFaults
    /\ faults' = faults + 1
    /\ \E H \in SUBSET Obsolete : DeleteFiles(H)
    /\ UNCHANGED <<dbVars, objects, complete, repairing, cache>>

-----------------------------------------------------------------------------
(* Late subscribers: repairs, repair_prepare *)

\* Some recipient other than the origin still lacks the chunk of the version.
Lacking(v, h) ==
    \E r \in RecipientsOf(v) :
        r # jobs[v].origin /\ ~HasReceipt(v, r) /\ <<r, h>> \notin inventory

\* repairs: the query that tells an origin a chunk must be staged again.
NeedsRepair(v, h) ==
    /\ v \in Jobs
    /\ jobs[v].state = "READY"
    /\ h \in jobs[v].chunks
    /\ ~(h \in objects /\ h \in complete)
    /\ Lacking(v, h)

\* repair_prepare up to its first INSERT: the checks and the list of chunks.
\* What repairs listed for the origin may have changed since it asked, so any
\* published version of its own is accepted.  A device waits for the answer of
\* one repair_prepare before it sends another.
RepairPlan(d, v) ==
    /\ \A r \in repairing : r[1] # d
    /\ v \in Jobs
    /\ jobs[v].state = "READY"
    /\ jobs[v].origin = d
    /\ LET H == {h \in jobs[v].chunks : Lacking(v, h)} IN
       /\ Cardinality(objects \union H) <= Quota
       /\ repairing' = repairing \union ({d} \X {v} \X H \X {"object", "need"})
    /\ UNCHANGED <<dbVars, objects, complete, fileVars, gcDue, cache, faults>>

\* The two autocommitted INSERT OR IGNORE statements for one chunk.
RepairObject(d, v, h) ==
    /\ <<d, v, h, "object">> \in repairing
    /\ repairing' = repairing \ {<<d, v, h, "object">>}
    /\ objects' = objects \union {h}
    /\ UNCHANGED <<dbVars, complete, fileVars, gcDue, cache, faults>>

RepairNeed(d, v, h) ==
    /\ <<d, v, h, "need">> \in repairing
    /\ <<d, v, h, "object">> \notin repairing
    /\ repairing' = repairing \ {<<d, v, h, "need">>}
    /\ needs' = needs \union {<<v, h>>}
    /\ UNCHANGED <<jobs, heads, bindings, recipients, receipts, inventory,
                   objects, complete, fileVars, gcDue, cache, faults>>

\* The session dies between two of those statements.
RepairCrash(d) ==
    /\ \E r \in repairing : r[1] = d
    /\ faults < MaxFaults
    /\ faults' = faults + 1
    /\ repairing' = {r \in repairing : r[1] # d}
    /\ UNCHANGED <<dbVars, objects, complete, fileVars, gcDue, cache>>

-----------------------------------------------------------------------------
Next ==
    \E d \in Device :
        \/ \E s \in Dataset : Bind(d, s) \/ Unbind(d, s)
        \/ CollectGarbage(d) \/ CollectCrash(d) \/ RepairCrash(d)
        \/ \E v \in Version :
              \/ \E p \in Path, C \in SUBSET Chunk : Prepare(d, v, p, C)
              \/ Commit(d, v) \/ Acknowledge(d, v) \/ RepairPlan(d, v)
              \/ \E h \in Chunk :
                    \/ QueryOffset(d, v, h) \/ Upload(d, v, h)
                    \/ UploadMismatch(d, v, h) \/ UploadCrash(d, v, h)
                    \/ Get(d, v, h)
                    \/ RepairObject(d, v, h) \/ RepairNeed(d, v, h)

Spec == Init /\ [][Next]_vars

(***************************************************************************)
(* A device runs the synchronization of a configured pair again and again  *)
(* (a timer or the user), so what it may pull, acknowledge or repair it    *)
(* does in the end.  Every run binds the pair first (bind_pair), and the   *)
(* pair is removed once it is unbound: a device that left the group does   *)
(* nothing for it any more, also for versions of its own.  Nothing obliges *)
(* it to author, subscribe, unsubscribe or fail.                           *)
(***************************************************************************)
Receives(d, v) ==
    /\ Subscribed(v, d)
    /\ ~HasReceipt(v, d)
    /\ Acknowledge(d, v)

Downloads(d, v, h) ==
    /\ Subscribed(v, d)
    /\ ~HasReceipt(v, d)
    /\ Get(d, v, h)

\* repair_subscribers: repairs lists the version, publish_mode goes on.
Repairs(d, v) ==
    /\ Subscribed(v, d)
    /\ \E h \in Chunk : NeedsRepair(v, h)
    /\ RepairPlan(d, v)

\* An answered repair_prepare is followed by the packets of put.
Restages(d, v, h) == Subscribed(v, d) /\ (RepairObject(d, v, h) \/ RepairNeed(d, v, h))
Uploads(d, v, h) == Subscribed(v, d) /\ Upload(d, v, h)

Fairness ==
    /\ \A d \in Device : WF_vars(CollectGarbage(d))
    /\ \A d \in Device, v \in Version :
          /\ WF_vars(Receives(d, v))
          /\ WF_vars(Repairs(d, v))
          /\ \A h \in Chunk :
                /\ WF_vars(Downloads(d, v, h))
                /\ WF_vars(Restages(d, v, h))
                /\ WF_vars(Uploads(d, v, h))

FairSpec == Spec /\ Fairness

-----------------------------------------------------------------------------
TypeOK ==
    /\ Jobs \subseteq Version /\ IsFiniteSet(Jobs) /\ jobs \in [Jobs -> Job]
    /\ heads \in [Path -> Version \union {NoVersion}]
    /\ bindings \subseteq Dataset \X Device
    /\ recipients \subseteq Version \X Device
    /\ receipts \subseteq Version \X Device
    /\ inventory \subseteq Device \X Chunk
    /\ needs \subseteq Version \X Chunk
    /\ objects \subseteq Chunk /\ complete \subseteq Chunk
    /\ chunkFiles \subseteq Chunk /\ parts \in [Chunk -> 0 .. Packets]
    /\ gcDue \subseteq Device
    /\ repairing \subseteq RepairStatement
    /\ cache \subseteq Device \X Chunk
    /\ faults \in 0 .. MaxFaults

\* A delivered version has a subscriber beside its origin and nobody it was
\* meant for still waits, whatever joins or leaves in between
\* (Acks reclaim chunks only after all recipients acknowledge).
DeliveredToAll ==
    \A v \in Jobs : jobs[v].state = "DELIVERED" =>
        /\ \E r \in RecipientsOf(v) : r # jobs[v].origin
        /\ \A r \in RecipientsOf(v) : HasReceipt(v, r)

\* The server's picture of a device is never rosier than the device: what it
\* believes to be there is in the durable cache, and a receipt covers every
\* chunk of the version.  prepare relies on it to skip an upload.
InventoryIsHeld ==
    /\ inventory \subseteq cache
    /\ \A v \in Jobs, d \in Device :
          HasReceipt(v, d) => ({d} \X jobs[v].chunks) \subseteq inventory

\* No lost update: the published versions of a path form one chain.  Two of
\* them never share a parent, and the head is the one nobody builds on.
LinearHistory ==
    \A v \in Jobs : Published(v) =>
        /\ \A w \in Jobs :
              (Published(w) /\ jobs[w].path = jobs[v].path
                            /\ jobs[w].parent = jobs[v].parent) => w = v
        /\ heads[jobs[v].path] = v
              <=> ~ \E w \in Jobs : Published(w) /\ jobs[w].parent = v

\* The parent of a version is published, of the same path, and older.
Ancestry(v) ==
    jobs[v].parent # NoVersion =>
        /\ Published(jobs[v].parent)
        /\ jobs[jobs[v].parent].path = jobs[v].path
        /\ jobs[jobs[v].parent].seq < jobs[v].seq

\* pending answers in order of seq, the order of prepare and not of commit.
\* A parent still comes before its children, so a receiver applies a chain
\* in one pass.
ParentsFirst == \A v \in Jobs : Ancestry(v)

\* What a recipient of a published version still misses, it can download now
\* or the server asks the origin for it.
Obtainable ==
    \A v \in Jobs : jobs[v].state = "READY" =>
        \A d \in RecipientsOf(v), h \in jobs[v].chunks :
            (d # jobs[v].origin /\ ~HasReceipt(v, d) /\ <<d, h>> \notin inventory)
                => h \in chunkFiles \/ NeedsRepair(v, h)

\* As long as no session died and no upload was corrupted (gc and repair are
\* not atomic: see Obtainable in SyncBroker_stale.cfg).
ObtainableUnlessCrashed == faults = 0 => Obtainable

\* Unreceived content is never deleted: a file leaves chunks/ only when every
\* version that contains it was published and received by all its recipients.
ReclaimOnlyReceived ==
    [][\A h \in chunkFiles \ chunkFiles' : \A v \in Jobs : h \in jobs[v].chunks =>
          Published(v) /\ \A r \in RecipientsOf(v) : HasReceipt(v, r)]_vars

\* commit publishes only what is whole and verified in chunks/, as long as no
\* session died: after a crash between the last packet and the rename commit
\* takes the partial file of full length for whole.
CommitIsWhole ==
    [][\A v \in Jobs :
          (faults = 0 /\ jobs[v].state = "STAGING" /\ jobs'[v].state = "READY")
              => \A h \in NeedsOf(v) : h \in chunkFiles]_vars

\* Its content is gone from the server and its author has left the group.
Orphaned(v) ==
    /\ \E h \in Chunk : NeedsRepair(v, h)
    /\ ~Subscribed(v, jobs[v].origin)

\* A published version reaches every subscriber that stays subscribed.  Only
\* one that subscribes after the content was reclaimed depends on the author:
\* nobody else repairs it, and a device repairs for its configured pairs only
\* (broker.py repairs; sync_client.c repair_subscribers).
Delivery ==
    \A v \in Version, d \in Device :
        (Published(v) /\ <<v, d>> \in recipients)
            ~> (HasReceipt(v, d) \/ ~Subscribed(v, d) \/ Orphaned(v))

\* Once everything that contains a chunk is delivered its file is removed,
\* unless a new version or subscriber wants it again (broker.py gc).
Settled(h) == \A v \in Jobs : h \in jobs[v].chunks => jobs[v].state = "DELIVERED"

Reclamation ==
    \A h \in Chunk : (h \in chunkFiles /\ Settled(h))
                        ~> (h \notin chunkFiles \/ ~Settled(h))
=============================================================================
