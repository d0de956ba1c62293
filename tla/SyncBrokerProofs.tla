-------------------------- MODULE SyncBrokerProofs --------------------------
(***************************************************************************)
(* Theorems about the queue server, for every set of devices, paths,       *)
(* versions and chunks, any quota and any number of faults.                *)
(***************************************************************************)
EXTENDS SyncBroker, FiniteSetTheorems, TLAPS

LEMMA InitTypeOK == Init => TypeOK
<1> SUFFICES ASSUME Init PROVE TypeOK
  OBVIOUS
<1>1. Jobs = {} /\ jobs \in [Jobs -> Job]
  BY DEF Init, Jobs
<1>2. IsFiniteSet(Jobs)
  BY <1>1, FS_EmptySet
<1>3. parts \in [Chunk -> 0 .. Packets] /\ faults \in 0 .. MaxFaults
  BY BrokerAssumption DEF Init
<1> QED
  BY <1>1, <1>2, <1>3 DEF Init, TypeOK

\* Changing the state of a known version keeps the jobs table well formed.
LEMMA SetStateType ==
    ASSUME jobs \in [Jobs -> Job], NEW v \in Jobs, NEW s \in States
    PROVE  /\ SetState(v, s) \in [Jobs -> Job]
           /\ DOMAIN SetState(v, s) = Jobs
BY DEF SetState, Job, Jobs, States

LEMMA NextTypeOK == TypeOK /\ [Next]_vars => TypeOK'
<1> SUFFICES ASSUME TypeOK, [Next]_vars PROVE TypeOK'
  OBVIOUS
<1> USE BrokerAssumption DEF dbVars, fileVars
<1>1. ASSUME NEW d \in Device, NEW s \in Dataset, Bind(d, s) PROVE TypeOK'
  <2>1. jobs' \in [Jobs -> Job] /\ DOMAIN jobs' = Jobs
    <3>1. ASSUME NEW v \in Jobs PROVE [jobs[v] EXCEPT !.state = "READY"] \in Job
      BY DEF TypeOK, Job, States
    <3> QED BY <1>1, <3>1 DEF Bind, Revived, TypeOK, Jobs
  <2>2. recipients' \subseteq Version \X Device
    BY <1>1 DEF Bind, Revived, TypeOK
  <2> QED BY <1>1, <2>1, <2>2 DEF Bind, Revived, Jobs, TypeOK
<1>2. ASSUME NEW d \in Device, NEW s \in Dataset, Unbind(d, s) PROVE TypeOK'
  BY <1>2 DEF Unbind, Jobs, TypeOK
<1>3. ASSUME NEW d \in Device, NEW v \in Version, NEW p \in Path,
             NEW C \in SUBSET Chunk, Prepare(d, v, p, C)
      PROVE TypeOK'
  <2>1. Needed(d, p, C) \subseteq Chunk /\ Others(d, p) \subseteq Device
    BY DEF Needed, Others, Subscribers
  <2>2. NextSeq \in Nat \ {0}
    BY FS_CardinalityType DEF TypeOK, NextSeq
  <2>3. jobs' \in [Jobs \union {v} -> Job] /\ DOMAIN jobs' = Jobs \union {v}
    BY <1>3, <2>2 DEF Prepare, ParentFor, Jobs, Job, States, TypeOK
  <2>4. IsFiniteSet(Jobs \union {v})
    BY FS_AddElement DEF TypeOK
  <2> QED BY <1>3, <2>1, <2>3, <2>4 DEF Prepare, RecipientsFor, Jobs, TypeOK
<1>4. ASSUME NEW d \in Device, NEW v \in Version, Commit(d, v) PROVE TypeOK'
  <2>1. jobs' \in [Jobs -> Job] /\ DOMAIN jobs' = Jobs
    BY <1>4, SetStateType DEF Commit, TypeOK, States
  <2>2. jobs[v].path \in Path /\ jobs[v].chunks \subseteq Chunk
    BY <1>4 DEF Commit, TypeOK, Job
  <2> QED BY <1>4, <2>1, <2>2 DEF Commit, Jobs, TypeOK, Refreshed, NeedsOf
<1>5. ASSUME NEW d \in Device, NEW v \in Version, Acknowledge(d, v) PROVE TypeOK'
  <2>1. jobs' \in [Jobs -> Job] /\ DOMAIN jobs' = Jobs
    BY <1>5, SetStateType DEF Acknowledge, Published, TypeOK, States, Jobs
  <2>2. jobs[v].chunks \subseteq Chunk
    BY <1>5 DEF Acknowledge, Published, TypeOK, Job
  <2> QED BY <1>5, <2>1, <2>2 DEF Acknowledge, Jobs, TypeOK
<1>6. ASSUME NEW d \in Device, CollectGarbage(d) \/ CollectCrash(d) PROVE TypeOK'
  BY <1>6 DEF CollectGarbage, DeleteRows, DeleteFiles, CollectCrash, Obsolete, Jobs, TypeOK
<1>7. ASSUME NEW d \in Device, RepairCrash(d) PROVE TypeOK'
  BY <1>7 DEF RepairCrash, Jobs, TypeOK
<1>8. ASSUME NEW d \in Device, NEW v \in Version, RepairPlan(d, v) PROVE TypeOK'
  <2>1. jobs[v].chunks \subseteq Chunk
    BY <1>8 DEF RepairPlan, NeedsRepair, TypeOK, Job
  <2> QED BY <1>8, <2>1 DEF RepairPlan, Jobs, TypeOK, RepairStatement
<1>9. ASSUME NEW d \in Device, NEW v \in Version, NEW h \in Chunk,
             \/ QueryOffset(d, v, h) \/ Upload(d, v, h)
             \/ UploadMismatch(d, v, h) \/ UploadCrash(d, v, h)
      PROVE TypeOK'
  <2>1. CASE QueryOffset(d, v, h)
    BY <2>1 DEF QueryOffset, Refreshed, Jobs, TypeOK
  <2>2. CASE Upload(d, v, h)
    BY <2>2 DEF Upload, MayUpload, Offset, Jobs, TypeOK
  <2>3. CASE UploadMismatch(d, v, h)
    BY <2>3 DEF UploadMismatch, Jobs, TypeOK
  <2>4. CASE UploadCrash(d, v, h)
    BY <2>4 DEF UploadCrash, Offset, Jobs, TypeOK
  <2> QED BY <1>9, <2>1, <2>2, <2>3, <2>4
<1>10. ASSUME NEW d \in Device, NEW v \in Version, NEW h \in Chunk,
              Get(d, v, h) \/ RepairObject(d, v, h) \/ RepairNeed(d, v, h)
       PROVE TypeOK'
  BY <1>10 DEF Get, RepairObject, RepairNeed, Jobs, TypeOK
<1>11. CASE UNCHANGED vars
  BY <1>11 DEF vars, Jobs, TypeOK
<1> QED
  BY <1>1, <1>2, <1>3, <1>4, <1>5, <1>6, <1>7, <1>8, <1>9, <1>10, <1>11 DEF Next

\* Every reachable state of the server is well typed.
THEOREM TypeCorrect == Spec => []TypeOK
<1> QED BY InitTypeOK, NextTypeOK, PTL DEF Spec

-----------------------------------------------------------------------------
(* Delivery is never claimed too early. *)

\* Two recipients cannot both be the origin: the count the server takes in
\* acknowledge means somebody else subscribed.
LEMMA SecondRecipient ==
    ASSUME NEW R, NEW o, Cardinality(R) >= 2
    PROVE  \E r \in R : r # o
<1> SUFFICES ASSUME \A r \in R : r = o PROVE FALSE
  OBVIOUS
<1>1. CASE R = {}
  BY <1>1, FS_EmptySet
<1>2. CASE R = {o}
  BY <1>2, FS_Singleton
<1> QED BY <1>1, <1>2

LEMMA NextDelivered == TypeOK /\ DeliveredToAll /\ [Next]_vars => DeliveredToAll'
<1> SUFFICES ASSUME TypeOK, DeliveredToAll, [Next]_vars PROVE DeliveredToAll'
  OBVIOUS
<1> USE DEF DeliveredToAll, RecipientsOf, HasReceipt, Jobs
<1>1. ASSUME NEW d \in Device, NEW s \in Dataset, Bind(d, s) PROVE DeliveredToAll'
  <2> SUFFICES ASSUME NEW v \in DOMAIN jobs', jobs'[v].state = "DELIVERED"
               PROVE  /\ \E r \in RecipientsOf(v)' : r # jobs'[v].origin
                      /\ \A r \in RecipientsOf(v)' : HasReceipt(v, r)'
    OBVIOUS
  <2>1. v \in Jobs /\ jobs[v] \in Job
    BY <1>1 DEF Bind, Revived, TypeOK
  <2>2. /\ jobs'[v] = jobs[v] /\ jobs[v].state = "DELIVERED"
        /\ InDataset(v, s) => HasReceipt(v, d)
    <3>1. CASE InDataset(v, s) /\ jobs[v].state = "DELIVERED" /\ ~HasReceipt(v, d)
      <4>1. jobs'[v].state = "READY"
        BY <1>1, <2>1, <3>1 DEF Bind, Revived, Job
      <4> QED BY <4>1
    <3>2. CASE ~(InDataset(v, s) /\ jobs[v].state = "DELIVERED" /\ ~HasReceipt(v, d))
      BY <1>1, <2>1, <3>2 DEF Bind, Revived
    <3> QED BY <3>1, <3>2
  <2>3. recipients' = recipients \union {<<w, d>> : w \in {u \in Jobs : InDataset(u, s)}}
        /\ receipts' = receipts
    BY <1>1 DEF Bind, Revived
  <2> QED BY <2>1, <2>2, <2>3
<1>2. ASSUME NEW d \in Device, NEW v \in Version, NEW p \in Path,
             NEW C \in SUBSET Chunk, Prepare(d, v, p, C)
      PROVE DeliveredToAll'
  <2> SUFFICES ASSUME NEW w \in DOMAIN jobs', jobs'[w].state = "DELIVERED"
               PROVE  /\ \E r \in RecipientsOf(w)' : r # jobs'[w].origin
                      /\ \A r \in RecipientsOf(w)' : HasReceipt(w, r)'
    OBVIOUS
  <2>1. w # v
    BY <1>2 DEF Prepare
  <2>2. w \in Jobs /\ jobs'[w] = jobs[w] /\ receipts' = receipts
    BY <1>2, <2>1 DEF Prepare
  <2>3. \A r \in Device : <<w, r>> \in recipients' <=> <<w, r>> \in recipients
    BY <1>2, <2>1 DEF Prepare
  <2> QED BY <2>2, <2>3
<1>3. ASSUME NEW d \in Device, NEW v \in Version, Commit(d, v)
      PROVE DeliveredToAll'
  <2>1. /\ DOMAIN jobs' = DOMAIN jobs /\ recipients' = recipients
        /\ receipts \subseteq receipts'
    BY <1>3 DEF Commit, SetState
  <2>2. \A w \in DOMAIN jobs : w # v => jobs'[w] = jobs[w]
    BY <1>3 DEF Commit, SetState, TypeOK
  <2>3. jobs'[v].state = "READY"
    BY <1>3 DEF Commit, SetState, TypeOK, Job
  <2> QED BY <2>1, <2>2, <2>3
<1>4. ASSUME NEW d \in Device, NEW v \in Version, Acknowledge(d, v)
      PROVE DeliveredToAll'
  <2>1. /\ DOMAIN jobs' = DOMAIN jobs /\ recipients' = recipients
        /\ receipts' = receipts \union {<<v, d>>} /\ v \in DOMAIN jobs
    BY <1>4 DEF Acknowledge, SetState, Published
  <2>2. \A w \in DOMAIN jobs : w # v => jobs'[w] = jobs[w]
    BY <1>4 DEF Acknowledge, SetState, TypeOK
  <2>3. jobs'[v].origin = jobs[v].origin
    BY <1>4, <2>1 DEF Acknowledge, SetState, TypeOK, Job
  <2>4. CASE Delivers(v, d)
    <3>1. \E r \in RecipientsOf(v) : r # jobs[v].origin
      <4> HIDE DEF RecipientsOf
      <4> QED BY ONLY <2>4, SecondRecipient DEF Delivers
    <3>2. \A r \in RecipientsOf(v) : HasReceipt(v, r)'
      BY <2>1, <2>4 DEF Delivers
    <3> QED BY <2>1, <2>2, <2>3, <3>1, <3>2
  <2>5. CASE ~Delivers(v, d)
    <3>1. jobs' = jobs
      BY <1>4, <2>5 DEF Acknowledge
    <3> QED BY <2>1, <3>1
  <2> QED BY <2>4, <2>5
<1>5. ASSUME UNCHANGED <<jobs, recipients, receipts>> PROVE DeliveredToAll'
  BY <1>5
<1>6. ASSUME NEW d \in Device,
             \/ \E s \in Dataset : Unbind(d, s)
             \/ CollectGarbage(d) \/ CollectCrash(d) \/ RepairCrash(d)
             \/ \E v \in Version : RepairPlan(d, v)
             \/ \E v \in Version, h \in Chunk :
                    \/ QueryOffset(d, v, h) \/ Upload(d, v, h)
                    \/ UploadMismatch(d, v, h) \/ UploadCrash(d, v, h)
                    \/ Get(d, v, h)
                    \/ RepairObject(d, v, h) \/ RepairNeed(d, v, h)
      PROVE UNCHANGED <<jobs, recipients, receipts>>
  BY <1>6, ZenonT(40) DEF Unbind, CollectGarbage, DeleteRows, CollectCrash, RepairCrash,
      RepairPlan, QueryOffset, Upload, UploadMismatch, UploadCrash, Get, RepairObject,
      RepairNeed, dbVars
<1>7. CASE UNCHANGED vars
  BY <1>5, <1>7 DEF vars
<1> QED
  BY <1>1, <1>2, <1>3, <1>4, <1>5, <1>6, <1>7 DEF Next

\* A version counts as delivered only when a subscriber beside the origin
\* exists and nobody it was meant for waits (broker.py acknowledge, bind).
THEOREM DeliveredSafe == Spec => []DeliveredToAll
<1>1. Init => DeliveredToAll
  BY DEF Init, DeliveredToAll, Jobs
<1> QED BY <1>1, InitTypeOK, NextTypeOK, NextDelivered, PTL DEF Spec

-----------------------------------------------------------------------------
(* Content is reclaimed only when it has been received. *)

LEMMA ReclaimStep ==
    ASSUME TypeOK, DeliveredToAll, [Next]_vars,
           NEW h \in chunkFiles, h \notin chunkFiles',
           NEW v \in Jobs, h \in jobs[v].chunks
    PROVE  Published(v) /\ \A r \in RecipientsOf(v) : HasReceipt(v, r)
<1>1. h \in Obsolete
  <2>1. ASSUME NEW d \in Device, NEW v2 \in Version, NEW h2 \in Chunk,
               Upload(d, v2, h2) \/ UploadCrash(d, v2, h2)
        PROVE FALSE
    BY <2>1 DEF Upload, UploadCrash
  <2>2. ASSUME NEW d \in Device, NEW v2 \in Version, NEW h2 \in Chunk,
               \/ QueryOffset(d, v2, h2) \/ UploadMismatch(d, v2, h2)
               \/ Get(d, v2, h2) \/ RepairObject(d, v2, h2)
               \/ RepairNeed(d, v2, h2)
        PROVE FALSE
    BY <2>2 DEF QueryOffset, UploadMismatch, Get, RepairObject, RepairNeed,
                fileVars
  <2>3. ASSUME NEW d \in Device, NEW v2 \in Version,
               \/ Commit(d, v2) \/ Acknowledge(d, v2) \/ RepairPlan(d, v2)
               \/ \E p \in Path, C \in SUBSET Chunk : Prepare(d, v2, p, C)
        PROVE FALSE
    BY <2>3 DEF Commit, Acknowledge, RepairPlan, Prepare, fileVars
  <2>4. ASSUME NEW d \in Device,
               RepairCrash(d) \/ \E s \in Dataset : Bind(d, s) \/ Unbind(d, s)
        PROVE FALSE
    BY <2>4 DEF RepairCrash, Bind, Revived, Unbind, fileVars
  <2>5. PICK d \in Device : CollectGarbage(d) \/ CollectCrash(d)
    BY <2>1, <2>2, <2>3, <2>4 DEF Next, vars
  <2> QED BY <2>5 DEF CollectGarbage, DeleteRows, DeleteFiles, CollectCrash
<1>2. jobs[v].state = "DELIVERED"
  BY <1>1 DEF Obsolete
<1> QED BY <1>2 DEF Published, DeliveredToAll

\* No interleaving of subscriptions, acknowledgements, collections and crashes
\* removes content a recipient still waits for (broker.py gc).
THEOREM ReclaimSafe == Spec => ReclaimOnlyReceived
<1>1. TypeOK /\ DeliveredToAll /\ [Next]_vars =>
        [\A h \in chunkFiles \ chunkFiles' : \A v \in Jobs : h \in jobs[v].chunks =>
            Published(v) /\ \A r \in RecipientsOf(v) : HasReceipt(v, r)]_vars
  BY ReclaimStep
<1> QED
  BY <1>1, TypeCorrect, DeliveredSafe, PTL DEF Spec, ReclaimOnlyReceived

-----------------------------------------------------------------------------
(***************************************************************************)
(* No lost update.  LinearHistory is not inductive: that no published      *)
(* version shares the parent of the one being committed follows from the   *)
(* head having no children yet, and that from parents being published.     *)
(***************************************************************************)
HeadIsPublished ==
    \A p \in Path : heads[p] # NoVersion =>
        Published(heads[p]) /\ jobs[heads[p]].path = p

HeadHasNoChild ==
    \A v \in Jobs : Published(v) => jobs[v].parent # heads[jobs[v].path]

OthersHaveChild ==
    \A v \in Jobs : Published(v) =>
        \/ heads[jobs[v].path] = v
        \/ \E w \in Jobs : Published(w) /\ jobs[w].parent = v

NoFork ==
    \A v, w \in Jobs :
        (/\ Published(v) /\ Published(w)
         /\ jobs[v].path = jobs[w].path /\ jobs[v].parent = jobs[w].parent) => v = w

SeqBounded == \A v \in Jobs : jobs[v].seq <= Cardinality(Jobs)

HistoryInv ==
    /\ HeadIsPublished /\ HeadHasNoChild /\ OthersHaveChild /\ NoFork
    /\ ParentsFirst /\ SeqBounded

LEMMA HistoryInvImplies == TypeOK /\ HistoryInv => LinearHistory /\ ParentsFirst
<1> SUFFICES ASSUME TypeOK, HistoryInv PROVE LinearHistory
  BY DEF HistoryInv
<1> SUFFICES ASSUME NEW v \in Jobs, Published(v)
             PROVE  heads[jobs[v].path] = v
                      <=> ~ \E w \in Jobs : Published(w) /\ jobs[w].parent = v
  BY DEF LinearHistory, HistoryInv, NoFork
<1>1. ASSUME heads[jobs[v].path] = v, NEW w \in Jobs, Published(w), jobs[w].parent = v
      PROVE FALSE
  <2>1. v # NoVersion
    BY BrokerAssumption DEF TypeOK
  <2>2. jobs[w].path = jobs[v].path
    BY <1>1, <2>1 DEF HistoryInv, ParentsFirst, Ancestry
  <2> QED BY <1>1, <2>2 DEF HistoryInv, HeadHasNoChild
<1> QED BY <1>1 DEF HistoryInv, OthersHaveChild

\* Most steps leave the history alone.
SameHistory ==
    /\ heads' = heads /\ Jobs' = Jobs
    /\ \A v \in Jobs : /\ jobs'[v].path = jobs[v].path
                       /\ jobs'[v].parent = jobs[v].parent
                       /\ jobs'[v].seq = jobs[v].seq
                       /\ jobs'[v].state = "STAGING" <=> jobs[v].state = "STAGING"

LEMMA SameHistoryInv == TypeOK /\ HistoryInv /\ SameHistory => HistoryInv'
<1> SUFFICES ASSUME TypeOK, HistoryInv, SameHistory PROVE HistoryInv'
  OBVIOUS
<1>0. \A v : Published(v)' <=> Published(v)
  BY DEF SameHistory, Published
<1>1. HeadIsPublished'
  BY <1>0 DEF HistoryInv, HeadIsPublished, SameHistory, Published
<1>2. HeadHasNoChild'
  BY <1>0 DEF HistoryInv, HeadHasNoChild, SameHistory
<1>3. OthersHaveChild'
  BY <1>0 DEF HistoryInv, OthersHaveChild, SameHistory
<1>4. NoFork'
  BY <1>0 DEF HistoryInv, NoFork, SameHistory
<1>5. ParentsFirst'
  BY <1>0 DEF HistoryInv, ParentsFirst, Ancestry, SameHistory, Published
<1>6. SeqBounded'
  BY DEF HistoryInv, SeqBounded, SameHistory
<1> QED BY <1>1, <1>2, <1>3, <1>4, <1>5, <1>6 DEF HistoryInv

\* A record that differs in its state alone is the same to the history.
LEMMA SameRecord ==
    ASSUME NEW j \in Job, NEW s \in States
    PROVE  LET k == [j EXCEPT !.state = s]
           IN  k.path = j.path /\ k.parent = j.parent /\ k.seq = j.seq /\ k.state = s
BY DEF Job

LEMMA QuietSteps ==
    ASSUME TypeOK, [Next]_vars,
           ~ \E d \in Device, v \in Version : Commit(d, v),
           ~ \E d \in Device, v \in Version, p \in Path, C \in SUBSET Chunk :
                Prepare(d, v, p, C)
    PROVE  SameHistory
<1>1. ASSUME NEW d \in Device, NEW s \in Dataset, Bind(d, s) PROVE SameHistory
  <2>1. heads' = heads /\ Jobs' = Jobs
    BY <1>1 DEF Bind, Revived, Jobs
  <2>2. ASSUME NEW v \in Jobs
        PROVE  \/ jobs'[v] = jobs[v]
               \/ /\ jobs'[v] = [jobs[v] EXCEPT !.state = "READY"]
                  /\ jobs[v].state = "DELIVERED"
    BY <1>1 DEF Bind, Revived
  <2>3. \A v \in Jobs : jobs[v] \in Job
    BY DEF TypeOK
  <2> SUFFICES ASSUME NEW u \in Jobs
               PROVE  /\ jobs'[u].path = jobs[u].path
                      /\ jobs'[u].parent = jobs[u].parent
                      /\ jobs'[u].seq = jobs[u].seq
                      /\ jobs'[u].state = "STAGING" <=> jobs[u].state = "STAGING"
    BY <2>1 DEF SameHistory
  <2>4. CASE jobs'[u] = jobs[u]
    BY <2>4
  <2>5. CASE jobs'[u] = [jobs[u] EXCEPT !.state = "READY"] /\ jobs[u].state # "STAGING"
    BY <2>3, <2>5, SameRecord DEF States
  <2> QED BY <2>1, <2>2, <2>4, <2>5
<1>2. ASSUME NEW d \in Device, NEW v \in Version, Acknowledge(d, v) PROVE SameHistory
  <2>1. heads' = heads /\ Jobs' = Jobs /\ v \in Jobs /\ jobs[v].state # "STAGING"
    BY <1>2 DEF Acknowledge, SetState, Jobs, Published
  <2>2. \A w \in Jobs : \/ jobs'[w] = jobs[w]
                        \/ w = v /\ jobs'[w] = [jobs[w] EXCEPT !.state = "DELIVERED"]
    BY <1>2 DEF Acknowledge, SetState, TypeOK
  <2>3. \A w \in Jobs : jobs[w] \in Job
    BY DEF TypeOK
  <2> SUFFICES ASSUME NEW u \in Jobs
               PROVE  /\ jobs'[u].path = jobs[u].path
                      /\ jobs'[u].parent = jobs[u].parent
                      /\ jobs'[u].seq = jobs[u].seq
                      /\ jobs'[u].state = "STAGING" <=> jobs[u].state = "STAGING"
    BY <2>1 DEF SameHistory
  <2>4. CASE jobs'[u] = jobs[u]
    BY <2>4
  <2>5. CASE jobs'[u] = [jobs[u] EXCEPT !.state = "DELIVERED"] /\ jobs[u].state # "STAGING"
    BY <2>3, <2>5, SameRecord DEF States
  <2> QED BY <2>1, <2>2, <2>4, <2>5
<1>3. ASSUME UNCHANGED <<jobs, heads>> PROVE SameHistory
  BY <1>3 DEF SameHistory, Jobs
<1>4. ASSUME NEW d \in Device,
             \/ \E s \in Dataset : Unbind(d, s)
             \/ CollectGarbage(d) \/ CollectCrash(d) \/ RepairCrash(d)
             \/ \E v \in Version : RepairPlan(d, v)
             \/ \E v \in Version, h \in Chunk :
                    \/ QueryOffset(d, v, h) \/ Upload(d, v, h)
                    \/ UploadMismatch(d, v, h) \/ UploadCrash(d, v, h)
                    \/ Get(d, v, h)
                    \/ RepairObject(d, v, h) \/ RepairNeed(d, v, h)
      PROVE UNCHANGED <<jobs, heads>>
  BY <1>4, ZenonT(40) DEF Unbind, CollectGarbage, DeleteRows, CollectCrash, RepairCrash,
      RepairPlan, QueryOffset, Upload, UploadMismatch, UploadCrash, Get, RepairObject,
      RepairNeed, dbVars
<1>5. CASE UNCHANGED vars
  BY <1>3, <1>5 DEF vars
<1> QED BY <1>1, <1>2, <1>3, <1>4, <1>5 DEF Next

LEMMA PrepareHistory ==
    ASSUME TypeOK, HistoryInv, NEW d \in Device, NEW v \in Version, NEW p \in Path,
           NEW C \in SUBSET Chunk, Prepare(d, v, p, C)
    PROVE  HistoryInv'
<1>1. /\ heads' = heads /\ v \notin Jobs /\ Jobs' = Jobs \union {v}
      /\ \A w \in Jobs : jobs'[w] = jobs[w]
  BY DEF Prepare, Jobs
<1>2. /\ jobs'[v].path = p /\ jobs'[v].parent = heads[p]
      /\ jobs'[v].seq = Cardinality(Jobs) + 1 /\ jobs'[v].state = "STAGING"
  BY DEF Prepare, ParentFor, NextSeq, Jobs
<1>3. \A w : Published(w)' <=> Published(w)
  BY <1>1, <1>2 DEF Published
<1>4. \A w : Published(w) => w \in Jobs
  BY DEF Published
<1>5. Cardinality(Jobs) \in Nat /\ Cardinality(Jobs)' = Cardinality(Jobs) + 1
  BY <1>1, FS_AddElement, FS_CardinalityType DEF TypeOK
<1>6. \A w \in Jobs : jobs[w].seq \in Nat /\ jobs[w].path \in Path
  BY DEF TypeOK, Job
<1>7. HeadIsPublished'
  BY <1>1, <1>3, <1>4 DEF HistoryInv, HeadIsPublished
<1>8. HeadHasNoChild' /\ OthersHaveChild' /\ NoFork'
  BY <1>1, <1>3, <1>4
     DEF HistoryInv, HeadHasNoChild, OthersHaveChild, NoFork
<1>9. SeqBounded'
  BY <1>1, <1>2, <1>5, <1>6 DEF HistoryInv, SeqBounded
<1>10. ParentsFirst'
  <2>1. Ancestry(v)'
    <3>1. CASE heads[p] = NoVersion
      BY <1>2, <3>1 DEF Ancestry
    <3>2. CASE heads[p] # NoVersion
      <4> DEFINE q == heads[p]
      <4>1. Published(q) /\ jobs[q].path = p /\ q \in Jobs
        BY <1>4, <3>2 DEF HistoryInv, HeadIsPublished
      <4>2. jobs[q].seq <= Cardinality(Jobs) /\ jobs[q].seq \in Nat
        BY <1>6, <4>1 DEF HistoryInv, SeqBounded
      <4>3. jobs'[v].parent = q /\ jobs'[q] = jobs[q] /\ q \in Jobs'
        BY <1>1, <1>2, <4>1
      <4> HIDE DEF q
      <4>4. jobs'[jobs'[v].parent] = jobs[q]
        BY <4>3
      <4>5. jobs[q].seq < jobs'[v].seq
        BY <1>2, <1>5, <4>2
      <4> QED BY <1>2, <4>1, <4>3, <4>4, <4>5 DEF Ancestry, Published
    <3> QED BY <3>1, <3>2
  <2>2. ASSUME NEW w \in Jobs
        PROVE  Ancestry(w)'
    <3> DEFINE q == jobs[w].parent
    <3>1. jobs'[w] = jobs[w] /\ Ancestry(w)
      BY <1>1 DEF HistoryInv, ParentsFirst, Ancestry
    <3>2. CASE q = NoVersion
      BY <3>1, <3>2 DEF Ancestry
    <3>3. CASE q # NoVersion
      <4>1. /\ Published(q) /\ q \in Jobs
            /\ jobs[q].path = jobs[w].path /\ jobs[q].seq < jobs[w].seq
        BY <1>4, <3>1, <3>3 DEF Ancestry
      <4>2. jobs'[w].parent = q /\ jobs'[q] = jobs[q] /\ q \in Jobs'
        BY <1>1, <3>1, <4>1
      <4> HIDE DEF q
      <4> QED BY <3>1, <4>1, <4>2 DEF Ancestry, Published
    <3> QED BY <3>2, <3>3
  <2> QED BY <1>1, <2>1, <2>2 DEF ParentsFirst, Ancestry
<1> QED BY <1>7, <1>8, <1>9, <1>10 DEF HistoryInv

LEMMA CommitHistory ==
    ASSUME TypeOK, HistoryInv, NEW d \in Device, NEW v \in Version, Commit(d, v)
    PROVE  HistoryInv'
<1> DEFINE p == jobs[v].path
<1>1. v \in Jobs /\ jobs[v].state = "STAGING" /\ heads[p] = jobs[v].parent /\ p \in Path
  BY DEF Commit, MayCommit, TypeOK, Job
<1>2. /\ Jobs' = Jobs /\ heads'[p] = v
      /\ \A q \in Path : q # p => heads'[q] = heads[q]
  BY <1>1 DEF Commit, SetState, Jobs, TypeOK
<1>3. \A w \in Jobs : /\ jobs'[w].path = jobs[w].path
                      /\ jobs'[w].parent = jobs[w].parent
                      /\ jobs'[w].seq = jobs[w].seq
                      /\ jobs'[w].state = IF w = v THEN "READY" ELSE jobs[w].state
                      /\ jobs[w].path \in Path
  BY <1>1 DEF Commit, SetState, TypeOK, Job
<1>4. \A w : Published(w)' <=> (Published(w) \/ w = v)
  BY <1>1, <1>2, <1>3 DEF Published
<1>5. ~Published(v) /\ v # NoVersion /\ \A w : Published(w) => w \in Jobs
  BY <1>1, BrokerAssumption DEF Published
<1> HIDE DEF p
<1>6. \A w \in Jobs : jobs[w].parent # v
  BY <1>5 DEF HistoryInv, ParentsFirst, Ancestry
<1>7. HeadIsPublished'
  BY <1>1, <1>2, <1>3, <1>4, <1>5 DEF HistoryInv, HeadIsPublished, p
<1>8. HeadHasNoChild'
  BY <1>1, <1>2, <1>3, <1>4, <1>6 DEF HistoryInv, HeadHasNoChild, p
<1>9. OthersHaveChild'
  <2>1. ASSUME NEW w \in Jobs, Published(w)'
        PROVE  heads'[jobs'[w].path] = w \/ \E u \in Jobs : Published(u)' /\ jobs'[u].parent = w
    <3>1. CASE w = v
      BY <1>2, <1>3, <3>1 DEF p
    <3>2. CASE w # v /\ heads[jobs[w].path] = w
      BY <1>1, <1>2, <1>3, <1>4, <3>2 DEF p
    <3>3. CASE w # v /\ heads[jobs[w].path] # w
      BY <1>3, <1>4, <2>1, <3>3 DEF HistoryInv, OthersHaveChild
    <3> QED BY <3>1, <3>2, <3>3
  <2> QED BY <1>2, <2>1 DEF OthersHaveChild
<1>10. NoFork'
  BY <1>1, <1>2, <1>3, <1>4 DEF HistoryInv, NoFork, HeadHasNoChild, p
<1>11. ParentsFirst'
  BY <1>2, <1>3, <1>4, <1>5 DEF HistoryInv, ParentsFirst, Ancestry
<1>12. SeqBounded'
  BY <1>2, <1>3 DEF HistoryInv, SeqBounded
<1> QED BY <1>7, <1>8, <1>9, <1>10, <1>11, <1>12 DEF HistoryInv

LEMMA NextHistory == TypeOK /\ HistoryInv /\ [Next]_vars => HistoryInv'
BY QuietSteps, SameHistoryInv, PrepareHistory, CommitHistory

LEMMA InitHistory == Init => HistoryInv
BY DEF Init, HistoryInv, HeadIsPublished, HeadHasNoChild, OthersHaveChild,
       NoFork, ParentsFirst, Ancestry, SeqBounded, Jobs

\* Versions of a path form one chain whatever the devices prepare and commit
\* concurrently: no published version is silently superseded (broker.py
\* prepare and commit).
THEOREM HistoryLinear == Spec => []LinearHistory
BY InitTypeOK, NextTypeOK, InitHistory, NextHistory, HistoryInvImplies, PTL DEF Spec

\* The order pending answers in respects the chain (broker.py pending).
THEOREM PendingOrder == Spec => []ParentsFirst
BY InitTypeOK, NextTypeOK, InitHistory, NextHistory, HistoryInvImplies, PTL DEF Spec

-----------------------------------------------------------------------------
(***************************************************************************)
(* What the server believes about the devices.  A receipt for a version    *)
(* the server does not know would cover the chunks of a version prepared   *)
(* later, and commit fills the inventory of the origin, so the invariant   *)
(* also says that receipts are of known versions and that an origin holds  *)
(* what it prepared.                                                       *)
(***************************************************************************)
ReceiptsOfJobs == \A v \in Version, d \in Device : HasReceipt(v, d) => v \in Jobs
OriginHolds == \A v \in Jobs : ({jobs[v].origin} \X jobs[v].chunks) \subseteq cache

HoldingInv == InventoryIsHeld /\ ReceiptsOfJobs /\ OriginHolds

\* Records that keep their chunks and origin, with nothing new to account for.
SameContent ==
    /\ Jobs' = Jobs
    /\ \A v \in Jobs : /\ jobs'[v].chunks = jobs[v].chunks
                       /\ jobs'[v].origin = jobs[v].origin
    /\ cache \subseteq cache'

\* A device that holds the chunks of a version may be credited with them.
LEMMA CreditHolding ==
    ASSUME TypeOK, HoldingInv, SameContent,
           NEW d \in Device, NEW v \in Jobs, ({d} \X jobs[v].chunks) \subseteq cache,
           inventory' = inventory \union ({d} \X jobs[v].chunks),
           receipts' = receipts \union {<<v, d>>}
    PROVE  HoldingInv'
<1>1. inventory' \subseteq cache'
  BY DEF HoldingInv, InventoryIsHeld, SameContent
<1>2. ASSUME NEW w \in Jobs, NEW e \in Device, HasReceipt(w, e)'
      PROVE  ({e} \X jobs'[w].chunks) \subseteq inventory'
  <2>1. CASE w = v /\ e = d
    BY <2>1 DEF SameContent
  <2>2. CASE HasReceipt(w, e)
    BY <2>2 DEF HoldingInv, InventoryIsHeld, SameContent
  <2> QED BY <1>2, <2>1, <2>2 DEF HasReceipt
<1>3. ReceiptsOfJobs'
  BY DEF HoldingInv, ReceiptsOfJobs, HasReceipt, SameContent
<1>4. OriginHolds'
  BY DEF HoldingInv, OriginHolds, SameContent
<1> QED BY <1>1, <1>2, <1>3, <1>4 DEF HoldingInv, InventoryIsHeld, SameContent

\* A step that credits nobody.
LEMMA SameHolding ==
    ASSUME TypeOK, HoldingInv, SameContent, UNCHANGED <<inventory, receipts>>
    PROVE  HoldingInv'
BY DEF HoldingInv, InventoryIsHeld, ReceiptsOfJobs, OriginHolds, HasReceipt, SameContent

LEMMA PrepareHolding ==
    ASSUME TypeOK, HoldingInv, NEW d \in Device, NEW v \in Version, NEW p \in Path,
           NEW C \in SUBSET Chunk, Prepare(d, v, p, C)
    PROVE  HoldingInv'
<1>1. /\ v \notin Jobs /\ Jobs' = Jobs \union {v}
      /\ \A w \in Jobs : jobs'[w] = jobs[w]
      /\ jobs'[v].origin = d /\ jobs'[v].chunks = C
      /\ cache' = cache \union ({d} \X C)
      /\ UNCHANGED <<inventory, receipts>>
  BY DEF Prepare, Jobs, dbVars
<1>2. \A e \in Device : ~HasReceipt(v, e)'
  BY <1>1 DEF HoldingInv, ReceiptsOfJobs, HasReceipt
<1>3. InventoryIsHeld'
  BY <1>1, <1>2 DEF HoldingInv, InventoryIsHeld, HasReceipt
<1>4. ReceiptsOfJobs' /\ OriginHolds'
  BY <1>1 DEF HoldingInv, ReceiptsOfJobs, OriginHolds, HasReceipt
<1> QED BY <1>3, <1>4 DEF HoldingInv

LEMMA CommitHolding ==
    ASSUME TypeOK, HoldingInv, NEW d \in Device, NEW v \in Version, Commit(d, v)
    PROVE  HoldingInv'
<1>1. v \in Jobs /\ jobs[v].origin = d
  BY DEF Commit
<1>2. SameContent
  BY DEF Commit, SetState, SameContent, Jobs, TypeOK, Job
<1>3. ({d} \X jobs[v].chunks) \subseteq cache
  BY <1>1 DEF HoldingInv, OriginHolds
<1> QED BY <1>1, <1>2, <1>3, CreditHolding DEF Commit

LEMMA AcknowledgeHolding ==
    ASSUME TypeOK, HoldingInv, NEW d \in Device, NEW v \in Version, Acknowledge(d, v)
    PROVE  HoldingInv'
<1>1. v \in Jobs /\ ({d} \X jobs[v].chunks) \subseteq cache
  BY DEF Acknowledge, Published, Holds
<1>2. SameContent
  BY DEF Acknowledge, SetState, SameContent, Jobs, TypeOK, Job
<1> QED BY <1>1, <1>2, CreditHolding DEF Acknowledge

LEMMA BindHolding ==
    ASSUME TypeOK, HoldingInv, NEW d \in Device, NEW s \in Dataset, Bind(d, s)
    PROVE  HoldingInv'
<1>1. \A v \in Jobs : jobs[v] \in Job
  BY DEF TypeOK
<1>2. SameContent
  BY <1>1 DEF Bind, SameContent, Jobs, Job
<1> QED BY <1>2, SameHolding DEF Bind

LEMMA NextHolding == TypeOK /\ HoldingInv /\ [Next]_vars => HoldingInv'
<1> SUFFICES ASSUME TypeOK, HoldingInv, [Next]_vars PROVE HoldingInv'
  OBVIOUS
<1>1. ASSUME UNCHANGED <<jobs, inventory, receipts>>, cache \subseteq cache'
      PROVE  HoldingInv'
  BY <1>1, SameHolding DEF SameContent, Jobs
<1>2. ASSUME NEW d \in Device,
             \/ \E s \in Dataset : Unbind(d, s)
             \/ CollectGarbage(d) \/ CollectCrash(d) \/ RepairCrash(d)
             \/ \E v \in Version : RepairPlan(d, v)
             \/ \E v \in Version, h \in Chunk :
                    \/ QueryOffset(d, v, h) \/ Upload(d, v, h)
                    \/ UploadMismatch(d, v, h) \/ UploadCrash(d, v, h)
                    \/ Get(d, v, h)
                    \/ RepairObject(d, v, h) \/ RepairNeed(d, v, h)
      PROVE UNCHANGED <<jobs, inventory, receipts>> /\ cache \subseteq cache'
  BY <1>2, ZenonT(40) DEF Unbind, CollectGarbage, DeleteRows, CollectCrash, RepairCrash,
      RepairPlan, QueryOffset, Upload, UploadMismatch, UploadCrash, Get, RepairObject,
      RepairNeed, dbVars
<1>3. CASE UNCHANGED vars
  BY <1>1, <1>3 DEF vars
<1> QED
  BY <1>1, <1>2, <1>3, BindHolding, PrepareHolding, CommitHolding, AcknowledgeHolding
     DEF Next

\* The server skips an upload only for a device that really has the chunk,
\* however subscriptions, commits, receipts and crashes interleave (broker.py
\* prepare, commit, acknowledge).
THEOREM InventoryHeld == Spec => []InventoryIsHeld
<1>1. Init => HoldingInv
  BY DEF Init, HoldingInv, InventoryIsHeld, ReceiptsOfJobs, OriginHolds, HasReceipt, Jobs
<1>2. HoldingInv => InventoryIsHeld
  BY DEF HoldingInv
<1> QED BY <1>1, <1>2, InitTypeOK, NextTypeOK, NextHolding, PTL DEF Spec

-----------------------------------------------------------------------------
(***************************************************************************)
(* What the object rows say of the files.  Until a session dies or an      *)
(* upload is corrupted, a row marked complete has its file and a partial   *)
(* file is never as long as a whole one.                                   *)
(***************************************************************************)
RowsMatchFiles ==
    faults = 0 => /\ complete \subseteq chunkFiles
                  /\ \A h \in Chunk : parts[h] < Packets

LEMMA NextRows == TypeOK /\ RowsMatchFiles /\ [Next]_vars => RowsMatchFiles'
<1> SUFFICES ASSUME TypeOK, RowsMatchFiles, [Next]_vars, faults' = 0
             PROVE  complete' \subseteq chunkFiles' /\ \A h \in Chunk : parts'[h] < Packets
  BY DEF RowsMatchFiles
<1> USE BrokerAssumption
<1>1. ASSUME NEW d \in Device, \/ CollectCrash(d) \/ RepairCrash(d)
                               \/ \E v \in Version, h \in Chunk :
                                      UploadMismatch(d, v, h) \/ UploadCrash(d, v, h)
      PROVE  FALSE
  BY <1>1 DEF CollectCrash, RepairCrash, UploadMismatch, UploadCrash, TypeOK
<1>2. ASSUME UNCHANGED <<complete, chunkFiles, parts, faults>>
      PROVE  complete' \subseteq chunkFiles' /\ \A h \in Chunk : parts'[h] < Packets
  BY <1>2 DEF RowsMatchFiles
<1>3. ASSUME NEW d \in Device,
             \/ \E s \in Dataset : Bind(d, s) \/ Unbind(d, s)
             \/ \E v \in Version : \/ Acknowledge(d, v) \/ RepairPlan(d, v)
                                   \/ \E p \in Path, C \in SUBSET Chunk : Prepare(d, v, p, C)
             \/ \E v \in Version, h \in Chunk :
                    Get(d, v, h) \/ RepairObject(d, v, h) \/ RepairNeed(d, v, h)
      PROVE UNCHANGED <<complete, chunkFiles, parts, faults>>
  BY <1>3 DEF Bind, Unbind, Acknowledge, RepairPlan, Prepare, Get, RepairObject,
              RepairNeed, fileVars
<1>4. ASSUME NEW d \in Device, NEW v \in Version, Commit(d, v)
      PROVE  complete' \subseteq chunkFiles' /\ \A h \in Chunk : parts'[h] < Packets
  BY <1>4 DEF Commit, Refreshed, RowsMatchFiles, fileVars
<1>5. ASSUME NEW d \in Device, NEW v \in Version, NEW h \in Chunk,
             QueryOffset(d, v, h) \/ Upload(d, v, h)
      PROVE  complete' \subseteq chunkFiles' /\ \A g \in Chunk : parts'[g] < Packets
  <2>1. CASE QueryOffset(d, v, h)
    BY <2>1 DEF QueryOffset, Refreshed, RowsMatchFiles, fileVars
  <2>2. CASE Upload(d, v, h)
    BY <2>2 DEF Upload, RowsMatchFiles, TypeOK
  <2> QED BY <1>5, <2>1, <2>2
<1>6. ASSUME NEW d \in Device, CollectGarbage(d)
      PROVE  complete' \subseteq chunkFiles' /\ \A h \in Chunk : parts'[h] < Packets
  BY <1>6 DEF CollectGarbage, DeleteRows, DeleteFiles, RowsMatchFiles
<1>7. CASE UNCHANGED vars
  BY <1>2, <1>7 DEF vars
<1> QED
  BY <1>1, <1>2, <1>3, <1>4, <1>5, <1>6, <1>7 DEF Next

LEMMA InitRows == Init => RowsMatchFiles
BY BrokerAssumption DEF Init, RowsMatchFiles

LEMMA ObtainableFromRows == RowsMatchFiles => ObtainableUnlessCrashed
BY DEF RowsMatchFiles, ObtainableUnlessCrashed, Obtainable, NeedsRepair, Lacking, Jobs

\* Nothing a recipient waits for is out of everybody's reach: it is in the
\* store, or repairs names it to its origin (broker.py gc, repairs, put).
THEOREM ObtainableSafe == Spec => []ObtainableUnlessCrashed
BY InitTypeOK, NextTypeOK, InitRows, NextRows, ObtainableFromRows, PTL DEF Spec

LEMMA CommitStep ==
    ASSUME TypeOK, RowsMatchFiles, [Next]_vars, faults = 0,
           NEW v \in Jobs, jobs[v].state = "STAGING", jobs'[v].state = "READY"
    PROVE  \A h \in NeedsOf(v) : h \in chunkFiles
<1>1. PICK d \in Device, u \in Version : Commit(d, u)
  <2>1. ASSUME NEW d \in Device, NEW u \in Version, NEW p \in Path,
               NEW C \in SUBSET Chunk, Prepare(d, u, p, C)
        PROVE  FALSE
    BY <2>1 DEF Prepare, Jobs
  <2> QED BY <2>1, QuietSteps DEF SameHistory
<1>2. u = v
  BY <1>1 DEF Commit, SetState, TypeOK
<1>3. MayCommit(v)
  BY <1>1, <1>2 DEF Commit
<1>4. \A h \in NeedsOf(v) : h \in Chunk
  BY DEF NeedsOf, TypeOK
<1>5. \A h \in Chunk : parts[h] # Packets
  BY BrokerAssumption DEF RowsMatchFiles, TypeOK
<1> QED BY <1>3, <1>4, <1>5 DEF MayCommit, Offset

\* commit publishes only chunks whose files are whole and verified, until a
\* session dies or an upload is corrupted (broker.py commit, object_offset).
THEOREM CommitWhole == Spec => CommitIsWhole
<1>1. TypeOK /\ RowsMatchFiles /\ [Next]_vars =>
        [\A v \in Jobs :
            (faults = 0 /\ jobs[v].state = "STAGING" /\ jobs'[v].state = "READY")
                => \A h \in NeedsOf(v) : h \in chunkFiles]_vars
  BY CommitStep
<1> QED
  BY <1>1, InitTypeOK, NextTypeOK, InitRows, NextRows, PTL DEF Spec, CommitIsWhole
=============================================================================
