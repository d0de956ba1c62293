-------------------------- MODULE ConfigStoreProofs --------------------------
(***************************************************************************)
(* Theorems about the configuration store and the server dialog, for every *)
(* set of endpoints, any number of tabs and profiles and any number of     *)
(* saves, failures, crashes and tamperings.  The bounds of the runs only   *)
(* limit the counters: no proof uses them.                                 *)
(***************************************************************************)
EXTENDS ConfigStore, TLAPS

----------------------------------------------------------------------------
(* The inductive invariant.  StoreInv is about the files, the tables and   *)
(* the transaction; FormInv about the dialog; OnRecord about both.         *)

\* The selected tab of some tables is one of their tabs.
Fits(tables) == tables.local < Count(tables.shared)

\* The files a start would read hold these tables.
Agree(files, tables) ==
  /\ files["runtime"] = tables.shared
  /\ \/ files["local"] = tables.local
     \/ files["local"] = Missing /\ tables.local = 0

Doing(kind) == txn # Missing /\ txn.task.kind = kind

\* The saved login of each profile of a document is one of its endpoint.
Matches(doc) ==
  \A i \in DOMAIN doc.servers : vault[i] # Missing => vault[i].host = doc.servers[i]

StoreTypes ==
  /\ IsDisk(disk)
  /\ nova \in Tables \cup {Missing, Damaged}
  /\ db \in Tables \cup {Missing}
  /\ txn # Missing => /\ txn \in Transactions({txn.to}, {txn.from})
                      /\ IsDisk(txn.to) /\ IsDisk(txn.from)

Selections ==
  /\ db # Missing => Fits(db)
  /\ txn # Missing => Fits(txn.want)
  /\ nova \in Tables => Fits(nova)

\* NOVA damages no file.
Undamaged ==
  /\ tampers \in Nat
  /\ tampers = 0 => /\ nova # Damaged
                    /\ \A f \in Files : disk[f] # Damaged
                    /\ txn # Missing => \A f \in Files : txn.from[f] # Damaged

\* What a transaction publishes and what it would put back.
Snapshots == txn # Missing =>
  /\ db # Missing
  /\ txn.to["local"] = txn.want.local /\ txn.to["runtime"] = txn.want.shared
  /\ \A f \in {"base", "seed"} :
       txn.to[f] = IF txn.from["runtime"] = Missing THEN txn.want.shared ELSE txn.from[f]
  /\ {txn.from["runtime"], txn.to["runtime"]} \subseteq may
  /\ txn.from["runtime"] \in SharedDoc \/ txn.task.kind = "open"
  /\ txn.from["runtime"] = Missing => txn.from["base"] = Missing
  /\ txn.task.kind # "open" /\ ~astray => Agree(txn.from, db)

\* How far it is: each file is published, or still (or again) what it was.
Progress == txn # Missing =>
  /\ \A f \in txn.done : disk[f] = txn.to[f]
  /\ \A f \in Files \ txn.done : disk[f] = txn.from[f] \/ (astray /\ disk[f] = txn.to[f])
  /\ ~txn.undo => \A f \in Files \ txn.done : disk[f] = txn.from[f]
  /\ ~txn.undo => \A f \in Files \ (txn.done \cup txn.todo) : txn.from[f] = txn.to[f]

\* The baseline is published after the runtime data and put back before it.
BaseLast ==
  ~astray /\ tampers = 0 /\ disk["runtime"] = Missing => disk["base"] = Missing

Between ==
  /\ disk["runtime"] \in may
  /\ Idle => disk["runtime"] \in SharedDoc
  /\ Idle /\ ~astray => Agree(disk, db)

StoreInv == StoreTypes /\ Selections /\ Undamaged /\ Snapshots /\ Progress /\ BaseLast /\ Between

FormTypes ==
  /\ vault \in [Ids -> Logins \cup {Missing}]
  /\ dialog \in Forms \cup {Missing}
  /\ ids \in 0..MaxIds

\* The selected profile is one of the form, and what the form does once a save
\* succeeds is possible: it does not change while the save runs.
Editing ==
  /\ dialog # Missing /\ dialog.id # 0 => dialog.id \in DOMAIN dialog.servers
  /\ txn # Missing /\ txn.task.kind = "server" =>
       /\ dialog # Missing /\ txn.task.id \in Ids
       /\ txn.task.then = "new" => ids < MaxIds
       /\ txn.task.then = "stay" => /\ dialog.host \in Hosts
                                    /\ dialog.id \in DOMAIN txn.want.shared.servers

\* A login names the endpoint it is kept or shown for.
OwnKeys ==
  /\ \A i \in Ids : vault[i] # Missing => vault[i].key = vault[i].host
  /\ txn # Missing /\ txn.login # Missing => txn.login.key = txn.login.host
  /\ dialog # Missing /\ dialog.key \in Hosts => dialog.loaded /\ dialog.key = dialog.host

\* The form works on a copy of the committed profiles: only the selected one
\* may differ.
FormOnTables ==
  /\ dialog # Missing =>
       /\ db # Missing /\ db.shared.count # 0 /\ ~Doing("open")
       /\ \A i \in DOMAIN dialog.servers \ {dialog.id} :
            i \in DOMAIN db.shared.servers /\ dialog.servers[i] = db.shared.servers[i]
  /\ Doing("session") => txn.want.shared.count # 0 /\ txn.want.shared.servers = db.shared.servers
  /\ Doing("server") => txn.want.shared.count # 0

FormInv == FormTypes /\ Editing /\ OwnKeys /\ FormOnTables

\* The logins on record match the file and, while a save runs, both documents
\* the file may end with: a server transaction keeps the previous login.
OnRecord ==
  /\ nova \in Tables => nova.shared.servers = NoProfiles
  /\ ~loose /\ txn = Missing =>
       /\ disk["runtime"] \in SharedDoc => Matches(disk["runtime"])
       /\ Idle => disk["runtime"].servers = db.shared.servers
  /\ ~loose /\ txn # Missing =>
       /\ Matches(txn.want.shared)
       /\ txn.from["runtime"] \in SharedDoc /\ ~Doing("server") => Matches(txn.from["runtime"])
       /\ ~Doing("open") => txn.from["runtime"].servers = db.shared.servers
  /\ ~loose /\ Doing("server") =>
       /\ \A f \in Files \ txn.done : disk[f] = txn.from[f]
       /\ \A i \in DOMAIN db.shared.servers :
            LET login == IF i = txn.task.id THEN txn.login ELSE vault[i]
            IN login # Missing => login.host = db.shared.servers[i]

IInv == StoreInv /\ FormInv /\ OnRecord

----------------------------------------------------------------------------
(* Data.                                                                   *)

\* Documents, tables and logins are neither missing nor damaged.
LEMMA Absent ==
  /\ Missing # Damaged
  /\ \A x : x \in SharedDoc \/ x \in LocalDoc \/ x \in Tables \/ x \in Logins
         => x # Missing /\ x # Damaged
BY SpecialValues, DocumentValues

\* Files are published in the order of their rank.
LEMMA FirstIsFirst ==
  ASSUME NEW S \in SUBSET Files, S # {}
  PROVE  FirstOf(S) \in S /\ \A g \in S : Rank[FirstOf(S)] <= Rank[g]
<1>1. \E f \in S : \A g \in S : Rank[f] <= Rank[g]
  <2>1. CASE "local" \in S
    BY <2>1 DEF Files, Rank
  <2>2. CASE "local" \notin S /\ "runtime" \in S
    BY <2>2 DEF Files, Rank
  <2>3. CASE "local" \notin S /\ "runtime" \notin S /\ "base" \in S
    BY <2>3 DEF Files, Rank
  <2>4. CASE "local" \notin S /\ "runtime" \notin S /\ "base" \notin S
    <3>1. "seed" \in S
      BY <2>4 DEF Files
    <3> QED
      BY <2>4, <3>1 DEF Files, Rank
  <2> QED
    BY <2>1, <2>2, <2>3, <2>4
<1> QED
  BY <1>1 DEF FirstOf

\* They are put back in the opposite order.
LEMMA LastIsLast ==
  ASSUME NEW S \in SUBSET Files, S # {}
  PROVE  LastOf(S) \in S /\ \A g \in S : Rank[g] <= Rank[LastOf(S)]
<1>1. \E f \in S : \A g \in S : Rank[g] <= Rank[f]
  <2>1. CASE "seed" \in S
    BY <2>1 DEF Files, Rank
  <2>2. CASE "seed" \notin S /\ "base" \in S
    BY <2>2 DEF Files, Rank
  <2>3. CASE "seed" \notin S /\ "base" \notin S /\ "runtime" \in S
    BY <2>3 DEF Files, Rank
  <2>4. CASE "seed" \notin S /\ "base" \notin S /\ "runtime" \notin S
    <3>1. "local" \in S
      BY <2>4 DEF Files
    <3> QED
      BY <2>4, <3>1 DEF Files, Rank
  <2> QED
    BY <2>1, <2>2, <2>3, <2>4
<1> QED
  BY <1>1 DEF LastOf

\* What a start finds in the files, when it accepts them.
LEMMA LoadedFits ==
  ASSUME IsDisk(disk), nova \in Tables \cup {Missing, Damaged}, Loadable
  PROVE  Loaded \in Tables /\ Fits(Loaded)
<1>1. LoadedShared \in SharedDoc
  <2>1. Empty.shared \in SharedDoc
    BY BoundsAssumption DEF Empty, SharedDoc, Tabs, Profiles, NoProfiles
  <2>2. nova \in Tables => nova.shared \in SharedDoc
    BY DEF Tables
  <2>3. disk["runtime"] \in SharedDoc \cup {Missing, Damaged}
    BY DEF IsDisk, Files, Stored
  <2> QED
    BY <2>1, <2>2, <2>3 DEF LoadedShared, Source, Loadable, MustMigrate
<1>2. disk["local"] \in LocalDoc \cup {Missing}
  BY DEF IsDisk, Files, Stored, Loadable
<1>3. LoadedLocal \in LocalDoc
  <2>1. 0 \in LocalDoc
    BY BoundsAssumption DEF LocalDoc
  <2>2. CASE disk["local"] \in LocalDoc
    <3>1. LoadedLocal = Normalised(LoadedShared, disk["local"])
      BY <2>2, Absent DEF LoadedLocal
    <3> QED
      BY <2>1, <2>2, <3>1 DEF Normalised
  <2>3. CASE disk["local"] = Missing
    BY <2>1, <2>3, Absent DEF LoadedLocal, Tables
  <2> QED
    BY <1>2, <2>2, <2>3
<1> QED
  BY <1>1, <1>3 DEF Loaded, Tables, Fits, Loadable

\* A start on files that agree with some tables loads these tables.
LEMMA AgreementLoads ==
  ASSUME NEW tables \in Tables, Fits(tables), Agree(disk, tables)
  PROVE  Loadable /\ Loaded = tables
<1>1. tables.shared \in SharedDoc /\ tables.local \in LocalDoc
      /\ tables = [shared |-> tables.shared, local |-> tables.local]
  BY DEF Tables
<1>2. disk["runtime"] # Missing /\ disk["runtime"] # Damaged
  BY <1>1, Absent DEF Agree
<1>3. Source = tables.shared /\ LoadedShared = tables.shared
  BY <1>1, <1>2, Absent DEF Agree, Source, LoadedShared, MustMigrate
<1>4. LoadedLocal = tables.local /\ disk["local"] # Damaged
  <2>1. CASE disk["local"] = tables.local
    <3>1. Count(tables.shared) \in Int /\ tables.local \in Int
      BY <1>1, BoundsAssumption DEF SharedDoc, LocalDoc, Count, Tabs
    <3>2. ~(tables.local >= Count(tables.shared))
      BY <3>1 DEF Fits
    <3> QED
      BY <1>1, <1>3, <2>1, <3>2, Absent DEF LoadedLocal, Normalised
  <2>2. CASE disk["local"] = Missing /\ tables.local = 0
    BY <1>1, <1>2, <2>2, Absent DEF LoadedLocal, MustMigrate
  <2> QED
    BY <2>1, <2>2 DEF Agree
<1>5. Loaded = tables
  BY <1>1, <1>3, <1>4 DEF Loaded
<1> QED
  BY <1>1, <1>2, <1>3, <1>4, <1>5, Absent DEF Loadable, Fits

----------------------------------------------------------------------------
(* The store.                                                              *)

\* What a transaction publishes in each file.
LEMMA WantedFiles ==
  ASSUME IsDisk(disk), NEW want \in Tables
  PROVE  /\ IsDisk(Wanted(want))
         /\ Wanted(want)["local"] = want.local
         /\ Wanted(want)["runtime"] = want.shared
         /\ \A f \in {"base", "seed"} :
              Wanted(want)[f] = IF disk["runtime"] = Missing THEN want.shared ELSE disk[f]
<1>1. want.shared \in SharedDoc /\ want.local \in LocalDoc
  BY DEF Tables
<1>2. /\ Wanted(want)["local"] = want.local
      /\ Wanted(want)["runtime"] = want.shared
      /\ \A f \in {"base", "seed"} :
           Wanted(want)[f] = IF disk["runtime"] = Missing THEN want.shared ELSE disk[f]
  BY DEF Wanted, Files, MustMigrate
<1>3. Wanted(want) = [f \in Files |-> Wanted(want)[f]]
  BY DEF Wanted
<1>4. \A f \in Files : Wanted(want)[f] \in Stored(f)
  BY <1>1, <1>2 DEF Files, Stored, IsDisk
<1> QED
  BY <1>2, <1>3, <1>4 DEF IsDisk

\* A transaction is not mistaken for none.
LEMMA PresentTransaction ==
  ASSUME NEW t, t \in Transactions({t.to}, {t.from}), IsDisk(t.to), IsDisk(t.from)
  PROVE  t # Missing
<1>1. \A files : IsDisk(files) => files \in AnyDisk
  <2> SUFFICES ASSUME NEW files, IsDisk(files) PROVE files \in AnyDisk
    OBVIOUS
  <2>1. \A f \in Files : files[f] \in UNION {SharedDoc, LocalDoc, {Missing, Damaged}}
    BY DEF IsDisk, Stored
  <2> QED
    BY <2>1 DEF IsDisk, AnyDisk
<1>2. t \in Transactions(AnyDisk, AnyDisk)
  BY <1>1 DEF Transactions
<1> QED
  BY <1>2, TransactionValues

\* The transaction that begins in some state of the files is well formed.
LEMMA TransactionTypes ==
  ASSUME IsDisk(disk), NEW task \in TaskDomain, NEW want \in Tables,
         NEW previous \in Logins \cup {Missing},
         NEW t, t = Transaction(task, want, previous)
  PROVE  /\ t \in Transactions({t.to}, {t.from}) /\ IsDisk(t.to) /\ IsDisk(t.from)
         /\ t # Missing
<1>1. t.to = Wanted(want) /\ t.from = disk
  BY DEF Transaction
<1>2. IsDisk(t.to) /\ IsDisk(t.from)
  BY <1>1, WantedFiles
<1>3. t \in Transactions({t.to}, {t.from})
  BY <1>1 DEF Transaction, Transactions, Changed
<1> QED
  BY <1>2, <1>3, PresentTransaction

\* Steps of the dialog alone leave the store alone.
LEMMA StoreStutters ==
  ASSUME StoreInv, UNCHANGED <<disk, nova, db, txn, may, astray, tampers>>
  PROVE  StoreInv'
BY DEF StoreInv, StoreTypes, Selections, Undamaged, Snapshots, Progress, BaseLast, Between,
       Idle, Agree, IsDisk, Transactions, Fits

\* A save begins: nothing is published yet.
LEMMA BeginKeeps ==
  ASSUME StoreInv, Idle, NEW task \in TaskDomain, task.kind # "open",
         NEW want \in Tables, Fits(want), NEW previous \in Logins \cup {Missing},
         Begin(task, want, previous), UNCHANGED <<disk, nova, db, astray, tampers>>
  PROVE  StoreInv'
<1> USE DEF Begin
<1>1. IsDisk(disk)
  BY DEF StoreInv, StoreTypes
<1>2. /\ txn' \in Transactions({txn'.to}, {txn'.from})
      /\ IsDisk(txn'.to) /\ IsDisk(txn'.from) /\ txn' # Missing
  BY <1>1, TransactionTypes
<1>3. /\ txn'.task = task /\ txn'.want = want /\ txn'.undo = FALSE
      /\ txn'.todo = Changed(want) /\ txn'.done = {} /\ txn'.to = Wanted(want) /\ txn'.from = disk
  BY DEF Transaction
<1>4. StoreTypes'
  BY <1>1, <1>2 DEF StoreInv, StoreTypes, IsDisk, Transactions
<1>5. Selections'
  BY <1>3 DEF StoreInv, Selections, Fits
<1>6. Undamaged'
  BY <1>3 DEF StoreInv, Undamaged
<1>7. Snapshots'
  BY <1>1, <1>3, WantedFiles, Absent DEF StoreInv, Snapshots, Between, Idle, Agree
<1>8. Progress'
  BY <1>3 DEF Progress, Changed
<1>9. BaseLast' /\ Between'
  BY <1>2 DEF StoreInv, BaseLast, Between, Idle
<1> QED
  BY <1>4, <1>5, <1>6, <1>7, <1>8, <1>9 DEF StoreInv

\* store_open, with or without a publication of its own.
LEMMA OpenKeeps == ASSUME StoreInv, Open PROVE StoreInv'
<1>1. IsDisk(disk) /\ nova \in Tables \cup {Missing, Damaged}
  BY DEF StoreInv, StoreTypes
<1>2. Loaded \in Tables /\ Fits(Loaded)
  BY <1>1, LoadedFits DEF Open
<1>3. UNCHANGED <<disk, nova, tampers>> /\ db' = Loaded /\ db' # Missing /\ astray' = FALSE
  BY <1>2, Absent DEF Open, fileVars, bounds
<1>4. CASE ~Republish
  <2>1. txn' = txn /\ may' = {disk["runtime"]}
    BY <1>4 DEF Open
  <2>2. disk["runtime"] # Missing /\ disk["runtime"] \in SharedDoc
    BY <1>1, <1>4 DEF Open, Loadable, Source, Republish, MustMigrate, IsDisk, Files, Stored
  <2>3. Agree(disk, Loaded)
    <3>1. Loaded.shared = disk["runtime"] /\ Loaded.local = LoadedLocal
      BY <2>2 DEF Loaded, LoadedShared, Source, MustMigrate
    <3>2. disk["local"] = Missing => LoadedLocal = 0
      BY <2>2, Absent DEF LoadedLocal, MustMigrate
    <3> QED
      BY <1>4, <3>1, <3>2 DEF Agree, Republish
  <2>4. txn' = Missing
    BY <2>1 DEF Open, StoreInv, Snapshots
  <2>5. StoreTypes' /\ Selections' /\ Undamaged'
    BY <1>1, <1>2, <1>3, <2>4 DEF StoreInv, StoreTypes, Selections, Undamaged, IsDisk, Fits
  <2>6. Snapshots' /\ Progress' /\ BaseLast'
    BY <1>3, <2>2, <2>4 DEF Snapshots, Progress, BaseLast
  <2>7. Between'
    BY <1>3, <2>1, <2>2, <2>3 DEF Between, Agree
  <2> QED
    BY <2>5, <2>6, <2>7 DEF StoreInv
<1>5. CASE Republish
  <2> DEFINE task == Task("open", 0, "stay")
  <2>1. txn' = Transaction(task, Loaded, Missing) /\ may' = {disk["runtime"], Loaded.shared}
    BY <1>5 DEF Open
  <2>2. task \in TaskDomain
    BY BoundsAssumption DEF Task, TaskDomain
  <2>3. /\ txn' \in Transactions({txn'.to}, {txn'.from})
        /\ IsDisk(txn'.to) /\ IsDisk(txn'.from) /\ txn' # Missing
    BY <1>1, <1>2, <2>1, <2>2, TransactionTypes
  <2>4. /\ txn'.task.kind = "open" /\ txn'.want = Loaded /\ txn'.undo = FALSE
        /\ txn'.todo = Changed(Loaded) /\ txn'.done = {}
        /\ txn'.to = Wanted(Loaded) /\ txn'.from = disk
    BY <2>1 DEF Transaction, Task
  <2>5. disk["runtime"] = Missing => disk["base"] = Missing
    BY DEF Open, Loadable, Source, MustMigrate
  <2>6. StoreTypes'
    BY <1>1, <1>2, <1>3, <2>3 DEF StoreTypes, IsDisk, Transactions
  <2>7. Selections'
    BY <1>2, <1>3, <2>4 DEF StoreInv, Selections, Fits
  <2>8. Undamaged'
    BY <1>3, <2>4 DEF StoreInv, Undamaged
  <2>9. Snapshots'
    BY <1>1, <1>2, <1>3, <2>1, <2>4, <2>5, WantedFiles DEF Snapshots
  <2>10. Progress'
    BY <1>3, <2>4 DEF Progress, Changed
  <2>11. BaseLast' /\ Between'
    BY <1>3, <2>1, <2>3, <2>5 DEF BaseLast, Between, Idle
  <2> QED
    BY <2>6, <2>7, <2>8, <2>9, <2>10, <2>11 DEF StoreInv
<1> QED
  BY <1>4, <1>5

\* Only the progress of a transaction changes.
LEMMA TaskOf ==
  ASSUME StoreTypes, txn # Missing
  PROVE  /\ txn.task \in TaskDomain /\ txn.want \in Tables
         /\ txn.todo \in SUBSET Files /\ txn.done \in SUBSET Files /\ txn.undo \in BOOLEAN
         /\ txn.login \in Logins \cup {Missing}
         /\ \A f \in Files : txn.to[f] \in Stored(f) /\ txn.from[f] \in Stored(f)
         /\ txn.want.shared \in SharedDoc /\ txn.want.shared # Missing
<1>1. txn \in Transactions({txn.to}, {txn.from})
  BY DEF StoreTypes
<1>2. txn.want \in Tables
  BY <1>1 DEF Transactions
<1> QED
  BY <1>1, <1>2, Absent DEF StoreTypes, IsDisk, Transactions, Tables

\* Whoever changes only the files and the progress of the transaction.
LEMMA ProgressKeeps ==
  ASSUME StoreInv, txn # Missing, IsDisk(disk'),
         txn' = [txn EXCEPT !.done = txn'.done, !.todo = txn'.todo, !.undo = txn'.undo],
         txn'.done \in SUBSET Files, txn'.todo \in SUBSET Files, txn'.undo \in BOOLEAN,
         UNCHANGED <<nova, db, may, tampers>>, astray' = astray \/ astray' = TRUE,
         tampers = 0 => \A g \in Files : disk'[g] # Damaged,
         disk'["runtime"] \in {txn.from["runtime"], txn.to["runtime"]}
  PROVE  /\ StoreTypes' /\ Selections' /\ Undamaged' /\ Snapshots' /\ Between'
         /\ txn' # Missing /\ txn'.to = txn.to /\ txn'.from = txn.from
<1>1. txn \in Transactions({txn.to}, {txn.from}) /\ IsDisk(txn.to) /\ IsDisk(txn.from)
  BY DEF StoreInv, StoreTypes
<1>2. /\ txn'.to = txn.to /\ txn'.from = txn.from /\ txn'.task = txn.task /\ txn'.want = txn.want
      /\ txn'.login = txn.login
  BY <1>1 DEF Transactions
<1>3. txn' \in Transactions({txn'.to}, {txn'.from})
  BY <1>1, <1>2 DEF Transactions
<1>4. txn' # Missing
  BY <1>1, <1>2, <1>3, PresentTransaction
<1>5. StoreTypes'
  <2>1. IsDisk(disk)' /\ IsDisk(txn.to)' /\ IsDisk(txn.from)'
    BY <1>1, <1>2 DEF IsDisk
  <2>2. (txn \in Transactions({txn.to}, {txn.from}))'
    BY <1>3 DEF Transactions
  <2> QED
    BY <2>1, <2>2 DEF StoreInv, StoreTypes
<1>6. Selections'
  BY <1>2 DEF StoreInv, Selections, Fits
<1>7. Undamaged'
  BY <1>2 DEF StoreInv, Undamaged
<1>8. Snapshots'
  BY <1>2 DEF StoreInv, Snapshots, Agree
<1>9. Between'
  BY <1>4 DEF StoreInv, Snapshots, Between, Idle
<1> QED
  BY <1>2, <1>4, <1>5, <1>6, <1>7, <1>8, <1>9

\* The parts of a transaction that publishing and undoing change.
LEMMA TransactionParts ==
  ASSUME StoreInv, txn # Missing,
         \/ \E todo, done : txn' = [txn EXCEPT !.todo = todo, !.done = done]
         \/ \E done : txn' = [txn EXCEPT !.done = done]
         \/ txn' = [txn EXCEPT !.undo = TRUE]
  PROVE  txn' = [txn EXCEPT !.done = txn'.done, !.todo = txn'.todo, !.undo = txn'.undo]
BY DEF StoreInv, StoreTypes, Transactions

\* The transaction turns to its undoing: nothing else changes.
LEMMA TurnKeeps ==
  ASSUME StoreInv, txn # Missing, ~txn.undo, txn' = [txn EXCEPT !.undo = TRUE],
         UNCHANGED <<disk, nova, db, may, astray, tampers>>
  PROVE  StoreInv'
<1>1. IsDisk(disk') /\ \A g \in Files : tampers = 0 => disk'[g] # Damaged
  BY DEF StoreInv, StoreTypes, Undamaged, IsDisk
<1>2. disk'["runtime"] \in {txn.from["runtime"], txn.to["runtime"]}
  BY DEF StoreInv, Progress, Files
<1>3. txn'.done = txn.done /\ txn'.todo = txn.todo /\ txn'.undo = TRUE
  BY DEF StoreInv, StoreTypes, Transactions
<1>4. txn.done \in SUBSET Files /\ txn.todo \in SUBSET Files
  BY TaskOf DEF StoreInv
<1>5. txn' = [txn EXCEPT !.done = txn'.done, !.todo = txn'.todo, !.undo = txn'.undo]
  BY TransactionParts
<1>6. /\ StoreTypes' /\ Selections' /\ Undamaged' /\ Snapshots' /\ Between'
      /\ txn'.to = txn.to /\ txn'.from = txn.from
  BY <1>1, <1>2, <1>3, <1>4, <1>5, ProgressKeeps
<1>7. Progress' /\ BaseLast'
  BY <1>3, <1>6 DEF StoreInv, Progress, BaseLast
<1> QED
  BY <1>6, <1>7 DEF StoreInv

\* One file is published, the first of those left, or the transaction turns.
LEMMA PublishKeeps == ASSUME StoreInv, Publish PROVE StoreInv'
<1> DEFINE f == FirstOf(txn.todo)
<1>1. txn # Missing /\ ~txn.undo /\ txn.todo # {} /\ UNCHANGED <<nova, db, may, astray, tampers>>
  BY DEF Publish, history, bounds
<1>2. /\ txn.done \in SUBSET Files /\ txn.todo \in SUBSET Files
      /\ txn.want.shared # Missing /\ txn.want \in Tables
      /\ \A g \in Files : txn.to[g] \in Stored(g) /\ txn.from[g] \in Stored(g)
  BY <1>1, TaskOf DEF StoreInv
<1>3. f \in txn.todo /\ f \in Files /\ \A g \in txn.todo : Rank[f] <= Rank[g]
  BY <1>1, <1>2, FirstIsFirst
<1>4. CASE txn' = [txn EXCEPT !.undo = TRUE] /\ disk' = disk
  BY <1>1, <1>4, TurnKeeps
<1>5. CASE /\ disk' = [disk EXCEPT ![f] = txn.to[f]]
           /\ txn' = [txn EXCEPT !.todo = @ \ {f}, !.done = @ \cup {f}]
  <2> DEFINE todo == txn.todo \ {f}
             done == txn.done \cup {f}
  <2> HIDE DEF f
  <2>1. \A g \in Files : disk'[g] = IF g = f THEN txn.to[f] ELSE disk[g]
    BY <1>3, <1>5 DEF StoreInv, StoreTypes, IsDisk
  <2>2. txn'.done = done /\ txn'.todo = todo /\ txn'.undo = txn.undo
    BY <1>1, <1>5 DEF StoreInv, StoreTypes, Transactions
  <2>3. txn' = [txn EXCEPT !.done = txn'.done, !.todo = txn'.todo, !.undo = txn'.undo]
    BY <1>1, <1>5, TransactionParts
  <2>4. disk'["runtime"] \in {txn.from["runtime"], txn.to["runtime"]}
    BY <1>1, <2>1 DEF StoreInv, Progress, Files
  <2>5. tampers = 0 => \A g \in Files : disk'[g] # Damaged
    <3>1. txn.want.shared # Damaged /\ txn.want.local # Damaged
      BY <1>2, Absent DEF Tables
    <3>2. tampers = 0 => txn.to[f] # Damaged
      BY <1>1, <1>3, <3>1 DEF StoreInv, Snapshots, Undamaged, Files
    <3> QED
      BY <2>1, <3>2 DEF StoreInv, Undamaged
  <2>6. /\ StoreTypes' /\ Selections' /\ Undamaged' /\ Snapshots' /\ Between' /\ txn' # Missing
        /\ txn'.to = txn.to /\ txn'.from = txn.from
    <3>1. IsDisk(disk')
      BY <1>2, <1>3, <1>5, <2>1 DEF StoreInv, StoreTypes, IsDisk
    <3>2. txn'.done \in SUBSET Files /\ txn'.todo \in SUBSET Files /\ txn'.undo \in BOOLEAN
      BY <1>1, <1>2, <1>3, <2>2, TaskOf DEF StoreInv
    <3> HIDE DEF done, todo
    <3> QED
      BY <1>1, <2>3, <2>4, <2>5, <3>1, <3>2, ProgressKeeps
  <2>7. Progress'
    BY <1>1, <1>2, <1>3, <2>1, <2>2, <2>6 DEF StoreInv, Progress
  <2>8. BaseLast'
    <3> SUFFICES ASSUME ~astray, tampers = 0, disk'["runtime"] = Missing
                 PROVE  disk'["base"] = Missing
      BY <1>1 DEF BaseLast
    <3>1. f # "runtime" /\ disk["runtime"] = Missing
      BY <1>1, <1>2, <2>1 DEF StoreInv, Snapshots, Files
    <3>2. txn.from["runtime"] = Missing /\ txn.to["runtime"] # Missing
          /\ "runtime" \notin txn.done
      BY <1>1, <1>2, <3>1 DEF StoreInv, Snapshots, Progress, Files
    <3>3. "runtime" \in txn.todo
      BY <1>1, <3>2 DEF StoreInv, Progress, Files
    <3>4. f # "base"
      BY <1>3, <3>3 DEF Rank
    <3> QED
      BY <2>1, <3>1, <3>4 DEF StoreInv, BaseLast, Files
  <2> QED
    BY <2>6, <2>7, <2>8 DEF StoreInv
<1> QED
  BY <1>4, <1>5 DEF Publish

\* One file is put back, the last one published, or stays astray.
LEMMA UndoKeeps == ASSUME StoreInv, Undo PROVE StoreInv'
<1> DEFINE f == LastOf(txn.done)
           done == txn.done \ {f}
<1>1. /\ txn # Missing /\ txn.undo /\ txn.done # {} /\ UNCHANGED <<nova, db, may, tampers>>
      /\ txn' = [txn EXCEPT !.done = done]
  BY DEF Undo, bounds
<1>2. /\ txn.done \in SUBSET Files /\ txn.todo \in SUBSET Files /\ txn.undo \in BOOLEAN
      /\ \A g \in Files : txn.to[g] \in Stored(g) /\ txn.from[g] \in Stored(g)
  BY <1>1, TaskOf DEF StoreInv
<1>3. f \in txn.done /\ f \in Files /\ \A g \in txn.done : Rank[g] <= Rank[f]
  BY <1>1, <1>2, LastIsLast
<1>4. PICK content \in {txn.from[f], disk[f]} :
        /\ disk' = [disk EXCEPT ![f] = content]
        /\ \/ content = txn.from[f] /\ astray' = astray
           \/ content = txn.to[f] /\ astray' = TRUE
  <2>1. CASE disk' = [disk EXCEPT ![f] = Restored(f)] /\ astray' = astray
    BY <2>1 DEF Restored
  <2>2. CASE disk' = disk /\ astray' = TRUE
    BY <1>1, <1>3, <2>2 DEF StoreInv, StoreTypes, IsDisk, Progress
  <2> QED
    BY <2>1, <2>2 DEF Undo
<1> HIDE DEF f
<1>5. \A g \in Files : disk'[g] = IF g = f THEN content ELSE disk[g]
  BY <1>3, <1>4 DEF StoreInv, StoreTypes, IsDisk
<1>6. /\ txn' = [txn EXCEPT !.done = txn'.done, !.todo = txn'.todo, !.undo = txn'.undo]
      /\ txn'.done = done /\ txn'.todo = txn.todo /\ txn'.undo = txn.undo
  BY <1>1, TransactionParts DEF StoreInv, StoreTypes, Transactions
<1>7. disk'["runtime"] \in {txn.from["runtime"], txn.to["runtime"]}
  BY <1>1, <1>4, <1>5 DEF StoreInv, Progress, Files
<1>8. IsDisk(disk') /\ (tampers = 0 => \A g \in Files : disk'[g] # Damaged)
  <2>1. content \in Stored(f) /\ (tampers = 0 => content # Damaged)
    BY <1>1, <1>2, <1>3, <1>4 DEF StoreInv, StoreTypes, IsDisk, Undamaged
  <2> QED
    BY <1>4, <1>5, <2>1 DEF StoreInv, StoreTypes, IsDisk, Undamaged
<1>10. /\ StoreTypes' /\ Selections' /\ Undamaged' /\ Snapshots' /\ Between' /\ txn' # Missing
       /\ txn'.to = txn.to /\ txn'.from = txn.from
  <2>1. txn'.done \in SUBSET Files /\ txn'.todo \in SUBSET Files /\ txn'.undo \in BOOLEAN
    BY <1>2, <1>6
  <2> QED
    BY <1>1, <1>4, <1>6, <1>7, <1>8, <2>1, ProgressKeeps
<1>11. Progress'
  BY <1>1, <1>2, <1>3, <1>4, <1>5, <1>6, <1>10 DEF StoreInv, Progress
<1>12. BaseLast'
  <2> SUFFICES ASSUME ~astray', tampers = 0, disk'["runtime"] = Missing
               PROVE  disk'["base"] = Missing
    BY <1>1 DEF BaseLast
  <2>1. content = txn.from[f] /\ ~astray
    BY <1>4
  <2>2. CASE f = "runtime"
    <3>1. txn.from["runtime"] = Missing /\ txn.from["base"] = Missing
      BY <1>1, <1>5, <2>1, <2>2 DEF StoreInv, Snapshots, Files
    <3>2. "base" \notin txn.done
      BY <1>3, <2>2 DEF Rank
    <3> QED
      BY <1>1, <1>5, <2>1, <2>2, <3>1, <3>2 DEF StoreInv, Progress, Files
  <2>3. CASE f = "base"
    <3>1. disk["runtime"] = Missing
      BY <1>5, <2>3 DEF Files
    <3> QED
      BY <1>1, <1>4, <1>5, <2>1, <2>3, <3>1, Absent DEF StoreInv, BaseLast, Progress, Snapshots, Files
  <2>4. CASE f # "runtime" /\ f # "base"
    BY <1>1, <1>5, <2>1, <2>4 DEF StoreInv, BaseLast, Files
  <2> QED
    BY <2>2, <2>3, <2>4
<1> QED
  BY <1>10, <1>11, <1>12 DEF StoreInv

\* Every file is published: the transaction becomes the tables.
LEMMA CommittedKeeps == ASSUME StoreInv, Committed PROVE StoreInv'
<1>1. /\ txn # Missing /\ ~txn.undo /\ txn.todo = {}
      /\ db' = txn.want /\ txn' = Missing /\ may' = {txn.want.shared} /\ astray' = FALSE
      /\ UNCHANGED <<disk, nova, tampers>>
  BY DEF Committed, fileVars, bounds
<1>2. txn.want \in Tables /\ txn.want.shared # Missing /\ txn.want.shared \in SharedDoc
  BY <1>1, TaskOf DEF StoreInv
<1>3. \A f \in {"local", "runtime"} : disk[f] = txn.to[f]
  BY <1>1 DEF StoreInv, Progress, Files
<1>4. disk["runtime"] = txn.want.shared /\ disk["local"] = txn.want.local
  BY <1>1, <1>3 DEF StoreInv, Snapshots
<1>5. StoreTypes' /\ Selections' /\ Undamaged'
  BY <1>1, <1>2 DEF StoreInv, StoreTypes, Selections, Undamaged, IsDisk, Fits
<1>6. Snapshots' /\ Progress' /\ BaseLast' /\ Between'
  BY <1>1, <1>2, <1>4 DEF Snapshots, Progress, BaseLast, Between, Agree
<1> QED
  BY <1>5, <1>6 DEF StoreInv

\* Every file is back, but for those that could not be put back.
LEMMA RolledBackKeeps == ASSUME StoreInv, RolledBack PROVE StoreInv'
<1>1. /\ txn # Missing /\ txn.undo /\ txn.done = {} /\ txn' = Missing
      /\ may' = IF astray THEN may ELSE {disk["runtime"]}
      /\ db' = (IF txn.task.kind = "open" \/ db.shared.count = 0 THEN Missing ELSE db)
      /\ UNCHANGED <<disk, nova, tampers, astray>>
  BY DEF RolledBack, fileVars, bounds
<1>2. StoreTypes' /\ Selections' /\ Undamaged'
  BY <1>1 DEF StoreInv, StoreTypes, Selections, Undamaged, IsDisk, Fits
<1>3. Snapshots' /\ Progress' /\ BaseLast'
  BY <1>1 DEF StoreInv, Snapshots, Progress, BaseLast
<1>4. Between'
  <2>1. disk["runtime"] \in may'
    BY <1>1 DEF StoreInv, Between
  <2>2. ASSUME db' # Missing
        PROVE  disk["runtime"] \in SharedDoc /\ (~astray => Agree(disk, db))
    <3>1. txn.task.kind # "open" /\ db' = db
      BY <1>1, <2>2
    <3>2. txn.from["runtime"] \in SharedDoc /\ txn.to["runtime"] \in SharedDoc
      BY <1>1, <3>1, TaskOf DEF StoreInv, Snapshots
    <3>3. \A f \in {"local", "runtime"} :
            disk[f] = txn.from[f] \/ (astray /\ disk[f] = txn.to[f])
      BY <1>1 DEF StoreInv, Progress, Files
    <3> QED
      BY <1>1, <3>1, <3>2, <3>3 DEF StoreInv, Snapshots, Agree
  <2> QED
    BY <1>1, <2>1, <2>2 DEF Between, Idle, Agree
<1> QED
  BY <1>2, <1>3, <1>4 DEF StoreInv

\* A crash between any two steps of a publication.
LEMMA StopKeeps == ASSUME StoreInv, Stop PROVE StoreInv'
<1>1. db' = Missing /\ txn' = Missing /\ UNCHANGED <<disk, nova, may, astray, tampers>>
  BY DEF Stop, fileVars
<1> QED
  BY <1>1 DEF StoreInv, StoreTypes, Selections, Undamaged, Snapshots, Progress, BaseLast, Between,
              Idle, IsDisk, Fits

\* Others change the files while NOVA is closed.
LEMMA TamperKeeps == ASSUME StoreInv, Tamper PROVE StoreInv'
<1>1. db = Missing /\ tampers' = tampers + 1 /\ UNCHANGED <<db, txn, astray>> /\ txn = Missing
  BY DEF Tamper, StoreInv, Snapshots
<1>2. tampers' \in Nat /\ tampers' # 0
  BY <1>1 DEF StoreInv, Undamaged
<1>3. IsDisk(disk') /\ disk'["runtime"] \in may'
  <2>1. IsDisk(disk) /\ disk["runtime"] \in may
    BY DEF StoreInv, StoreTypes, Between
  <2> QED
    BY <2>1 DEF Tamper, IsDisk, Files, Stored
<1>4. nova' \in Tables \cup {Missing, Damaged} /\ (nova' \in Tables => Fits(nova'))
  <2>1. CASE nova' = nova
    BY <2>1 DEF StoreInv, StoreTypes, Selections
  <2>2. CASE nova' = Damaged
    BY <2>2, Absent
  <2>3. ASSUME NEW n \in 1..MaxTabs,
               nova' = [shared |-> [count |-> n, servers |-> NoProfiles], local |-> 0]
        PROVE  nova' \in Tables /\ Fits(nova')
    <3>1. NoProfiles \in Profiles
      BY DEF NoProfiles, Profiles
    <3> QED
      BY <2>3, <3>1, BoundsAssumption DEF Tables, SharedDoc, LocalDoc, Tabs, Fits, Count
  <2> QED
    BY <2>1, <2>2, <2>3 DEF Tamper
<1>5. StoreTypes' /\ Selections' /\ Undamaged' /\ Snapshots' /\ Progress'
  BY <1>1, <1>2, <1>3, <1>4
  DEF StoreInv, StoreTypes, Selections, Undamaged, Snapshots, Progress, IsDisk, Fits
<1>6. BaseLast' /\ Between'
  BY <1>1, <1>2, <1>3 DEF BaseLast, Between, Idle
<1> QED
  BY <1>5, <1>6 DEF StoreInv

\* The tabs and the selection of a pane are saved together.
LEMMA SaveSessionKeeps == ASSUME StoreInv, SaveSession PROVE StoreInv'
<1> DEFINE task == Task("session", 0, "stay")
<1>0. PICK n \in 1..MaxTabs : \E selected \in 0..(n - 1) :
        Begin(task, [shared |-> [db.shared EXCEPT !.count = n], local |-> selected], Missing)
  BY DEF SaveSession
<1>1. PICK selected \in 0..(n - 1) :
        Begin(task, [shared |-> [db.shared EXCEPT !.count = n], local |-> selected], Missing)
  BY <1>0
<1> DEFINE want == [shared |-> [db.shared EXCEPT !.count = n], local |-> selected]
<1>2. Idle /\ UNCHANGED <<disk, nova, db, astray, tampers>>
  BY DEF SaveSession, fileVars
<1>3. want \in Tables /\ Fits(want)
  <2>1. db.shared \in SharedDoc
    BY <1>2 DEF StoreInv, StoreTypes, Idle, Tables
  <2>2. [db.shared EXCEPT !.count = n] \in SharedDoc /\ [db.shared EXCEPT !.count = n].count = n
    BY <2>1, BoundsAssumption DEF SharedDoc, Tabs
  <2>3. selected \in LocalDoc /\ selected < n /\ n # 0
    BY BoundsAssumption DEF LocalDoc
  <2>4. want.shared = [db.shared EXCEPT !.count = n] /\ want.local = selected
    OBVIOUS
  <2>5. Count(want.shared) = n
    BY <2>2, <2>3, <2>4 DEF Count
  <2> QED
    BY <2>2, <2>3, <2>4, <2>5 DEF Tables, Fits
<1>4. task \in TaskDomain /\ task.kind # "open"
  BY BoundsAssumption DEF Task, TaskDomain
<1> QED
  BY <1>1, <1>2, <1>3, <1>4, BeginKeeps

----------------------------------------------------------------------------
(* The server dialog.                                                      *)

\* Profiles as functions from some identities.
LEMMA ProfileValues ==
  /\ \A s : s \in Profiles <=> /\ s = [i \in DOMAIN s |-> s[i]] /\ DOMAIN s \in SUBSET Ids
                               /\ \A i \in DOMAIN s : s[i] \in Hosts
  /\ \A s : s \in Entered <=> /\ s = [i \in DOMAIN s |-> s[i]] /\ DOMAIN s \in SUBSET Ids
                              /\ \A i \in DOMAIN s : s[i] \in Hosts \cup {NoHost}
<1>1. ASSUME NEW s, NEW values
      PROVE  s \in UNION {[S -> values] : S \in SUBSET Ids}
               <=> /\ s = [i \in DOMAIN s |-> s[i]] /\ DOMAIN s \in SUBSET Ids
                   /\ \A i \in DOMAIN s : s[i] \in values
  <2>1. ASSUME NEW S \in SUBSET Ids, s \in [S -> values]
        PROVE  /\ s = [i \in DOMAIN s |-> s[i]] /\ DOMAIN s \in SUBSET Ids
               /\ \A i \in DOMAIN s : s[i] \in values
    BY <2>1
  <2>2. ASSUME s = [i \in DOMAIN s |-> s[i]], DOMAIN s \in SUBSET Ids,
               \A i \in DOMAIN s : s[i] \in values
        PROVE  s \in [DOMAIN s -> values]
    BY <2>2
  <2> QED
    BY <2>1, <2>2
<1> QED
  BY <1>1 DEF Profiles, Entered

\* 0 stands for no profile.
LEMMA IdsArePositive == 0 \notin Ids /\ Ids \subseteq 0..MaxIds
BY BoundsAssumption DEF Ids

\* What the form shows, of whatever profile.
LEMMA ShowKeeps ==
  ASSUME vault \in [Ids -> Logins \cup {Missing}],
         \A i \in Ids : vault[i] # Missing => vault[i].key = vault[i].host,
         NEW servers \in Entered, NEW id \in DOMAIN servers \cup {0}, Show(servers, id)
  PROVE  /\ dialog' \in Forms /\ dialog'.servers = servers /\ dialog'.id = id
         /\ dialog'.key \in Hosts => dialog'.loaded /\ dialog'.key = dialog'.host
<1>1. PICK key : /\ dialog' = Fields(servers, id, key)
                 /\ \/ key = Blank
                    \/ id # 0 /\ servers[id] # NoHost /\ key = Recalled(id, servers[id])
  BY DEF Show
<1>2. id # 0 => id \in Ids /\ servers[id] \in Hosts \cup {NoHost}
  BY ProfileValues
<1>3. Blank \notin Hosts /\ NoHost \notin Hosts
  BY SpecialValues
<1>4. \/ key = Blank
      \/ id # 0 /\ key \in Hosts /\ key = servers[id]
  BY <1>1, <1>2 DEF Recalled, Logins
<1>5. id \in 0..MaxIds
  <2>1. 0 \in 0..MaxIds
    BY BoundsAssumption
  <2> QED
    BY <1>2, <2>1, IdsArePositive
<1> DEFINE host == IF id = 0 THEN NoHost ELSE servers[id]
<1>6. dialog' = [servers |-> servers, id |-> id, host |-> host, key |-> key, loaded |-> key # Blank]
  BY <1>1 DEF Fields
<1>7. host \in Hosts \cup {NoHost}
  BY <1>2
<1> HIDE DEF host
<1>8. dialog' \in Forms
  BY <1>4, <1>5, <1>6, <1>7, <1>2 DEF Forms
<1> QED
  BY <1>3, <1>4, <1>6, <1>8 DEF host

\* A new profile joins the form.
LEMMA NewProfile ==
  ASSUME ids \in 0..MaxIds, ids < MaxIds, NEW servers \in Entered
  PROVE  /\ WithNew(servers) \in Entered /\ ids + 1 \in DOMAIN WithNew(servers)
         /\ ids + 1 \in 0..MaxIds
         /\ \A i \in DOMAIN WithNew(servers) \ {ids + 1} :
              i \in DOMAIN servers /\ WithNew(servers)[i] = servers[i]
<1>1. ids + 1 \in Ids /\ ids + 1 \in 0..MaxIds
  BY BoundsAssumption DEF Ids
<1>2. /\ DOMAIN servers \in SUBSET Ids
      /\ \A i \in DOMAIN servers : servers[i] \in Hosts \cup {NoHost}
  BY ProfileValues
<1>3. /\ DOMAIN WithNew(servers) = DOMAIN servers \cup {ids + 1}
      /\ \A i \in DOMAIN servers \cup {ids + 1} :
           WithNew(servers)[i] = IF i = ids + 1 THEN NoHost ELSE servers[i]
      /\ WithNew(servers) = [i \in DOMAIN WithNew(servers) |-> WithNew(servers)[i]]
  BY DEF WithNew
<1>4. WithNew(servers) \in Entered
  BY <1>1, <1>2, <1>3, ProfileValues
<1> QED
  BY <1>1, <1>3, <1>4

\* Saved profiles are fit for the form.
LEMMA EmptyForms == NoProfiles \in Profiles /\ Profiles \subseteq Entered
<1>1. NoProfiles \in Profiles
  BY DEF NoProfiles, Profiles
<1> QED
  BY <1>1, ProfileValues

\* A step of the form alone, between transactions.
LEMMA FormStepKeeps ==
  ASSUME IInv, Ready, UNCHANGED <<disk, nova, db, txn, may, astray, loose, tampers>>,
         ids' \in 0..MaxIds,
         vault' \in [Ids -> Logins \cup {Missing}],
         \A i \in Ids : vault'[i] = vault[i] \/ vault'[i] = Missing,
         dialog' # Missing =>
           /\ dialog' \in Forms
           /\ dialog'.id # 0 => dialog'.id \in DOMAIN dialog'.servers
           /\ dialog'.key \in Hosts => dialog'.loaded /\ dialog'.key = dialog'.host
           /\ \A i \in DOMAIN dialog'.servers \ {dialog'.id} :
                i \in DOMAIN db.shared.servers /\ dialog'.servers[i] = db.shared.servers[i]
  PROVE  IInv'
<1>1. StoreInv'
  BY StoreStutters DEF IInv
<1>2. db # Missing /\ txn = Missing /\ db.shared.count # 0
  BY DEF Ready, Idle
<1>3. FormTypes' /\ Editing' /\ OwnKeys'
  BY <1>2 DEF IInv, FormInv, FormTypes, Editing, OwnKeys
<1>4. FormOnTables'
  BY <1>2 DEF FormOnTables, Doing
<1>5. OnRecord'
  <2>1. \A i : i \in DOMAIN disk["runtime"].servers /\ disk["runtime"] \in SharedDoc => i \in Ids
    BY ProfileValues DEF SharedDoc
  <2>2. disk["runtime"] \in SharedDoc /\ Matches(disk["runtime"]) => Matches(disk["runtime"])'
    BY <2>1 DEF Matches
  <2> QED
    BY <1>2, <2>2 DEF IInv, OnRecord, Doing, Idle
<1> QED
  BY <1>1, <1>3, <1>4, <1>5 DEF IInv, FormInv

\* The profiles on which the form opens.
LEMMA TableProfiles ==
  ASSUME StoreTypes, db # Missing
  PROVE  /\ db \in Tables /\ db.shared \in SharedDoc
         /\ db.shared.servers \in Profiles /\ db.shared.servers \in Entered
BY EmptyForms DEF StoreTypes, Tables, SharedDoc

\* The steps of the dialog between two transactions.
LEMMA OpenDialogKeeps == ASSUME IInv, OpenDialog PROVE IInv'
<1>1. /\ Ready /\ UNCHANGED <<disk, nova, db, txn, vault, may, astray, loose, tampers>>
      /\ db.shared.servers \in Entered
  BY TableProfiles DEF OpenDialog, fileVars, history, bounds, Ready, Idle, IInv, StoreInv
<1>2. /\ vault \in [Ids -> Logins \cup {Missing}] /\ ids \in 0..MaxIds
      /\ \A i \in Ids : vault[i] # Missing => vault[i].key = vault[i].host
  BY DEF IInv, FormInv, FormTypes, OwnKeys
<1>3. CASE ids < MaxIds /\ ids' = ids + 1 /\ Show(WithNew(NoProfiles), ids + 1)
  <2>1. /\ WithNew(NoProfiles) \in Entered /\ ids + 1 \in DOMAIN WithNew(NoProfiles)
        /\ ids' \in 0..MaxIds /\ DOMAIN WithNew(NoProfiles) \ {ids + 1} = {}
    BY <1>2, <1>3, EmptyForms, NewProfile DEF NoProfiles
  <2>2. /\ dialog' \in Forms /\ dialog'.servers = WithNew(NoProfiles) /\ dialog'.id = ids + 1
        /\ dialog'.key \in Hosts => dialog'.loaded /\ dialog'.key = dialog'.host
    BY <1>2, <1>3, <2>1, ShowKeeps
  <2> QED
    BY <1>1, <1>2, <2>1, <2>2, FormStepKeeps
<1>4. ASSUME NEW i \in DOMAIN db.shared.servers, Show(db.shared.servers, i), ids' = ids
      PROVE  IInv'
  <2>1. /\ dialog' \in Forms /\ dialog'.servers = db.shared.servers /\ dialog'.id = i
        /\ dialog'.key \in Hosts => dialog'.loaded /\ dialog'.key = dialog'.host
    BY <1>1, <1>2, <1>4, ShowKeeps
  <2> QED
    BY <1>1, <1>2, <1>4, <2>1, FormStepKeeps
<1> QED
  BY <1>3, <1>4 DEF OpenDialog

LEMMA CloseDialogKeeps == ASSUME IInv, CloseDialog PROVE IInv'
<1>1. /\ Ready /\ UNCHANGED <<disk, nova, db, txn, vault, ids, may, astray, loose, tampers>>
      /\ dialog' = Missing
  BY DEF CloseDialog, fileVars, history, bounds
<1>2. vault' \in [Ids -> Logins \cup {Missing}] /\ ids' \in 0..MaxIds
  BY <1>1 DEF IInv, FormInv, FormTypes
<1> QED
  BY <1>1, <1>2, FormStepKeeps

\* The fields of the form, for the steps that change some of them.
LEMMA FormFields ==
  ASSUME FormInv, dialog # Missing
  PROVE  /\ dialog \in Forms /\ dialog.servers \in Entered /\ dialog.id \in 0..MaxIds
         /\ dialog.host \in Hosts \cup {NoHost} /\ dialog.key \in Hosts \cup {Blank, Fresh}
         /\ dialog.loaded \in BOOLEAN
         /\ dialog.id # 0 => dialog.id \in DOMAIN dialog.servers /\ dialog.id \in Ids
         /\ dialog.key \in Hosts => dialog.loaded /\ dialog.key = dialog.host
         /\ \A i \in DOMAIN dialog.servers \ {dialog.id} :
              i \in DOMAIN db.shared.servers /\ dialog.servers[i] = db.shared.servers[i]
<1>1. dialog \in Forms
  BY DEF FormInv, FormTypes
<1>2. dialog.servers \in Entered
  BY <1>1 DEF Forms
<1> QED
  BY <1>1, <1>2, ProfileValues DEF FormInv, Editing, OwnKeys, FormOnTables, Forms

LEMMA EditHostKeeps == ASSUME IInv, EditHost PROVE IInv'
<1>1. /\ Ready /\ UNCHANGED <<disk, nova, db, txn, vault, ids, may, astray, loose, tampers>>
      /\ dialog # Missing
  BY DEF EditHost, fileVars, history, bounds
<1>2. PICK h \in Hosts : dialog' = AfterEdit(h)
  BY DEF EditHost
<1>3. vault' \in [Ids -> Logins \cup {Missing}] /\ ids' \in 0..MaxIds
  BY <1>1 DEF IInv, FormInv, FormTypes
<1>4. Blank \notin Hosts
  BY SpecialValues
<1>5. /\ dialog' \in Forms /\ dialog'.servers = dialog.servers /\ dialog'.id = dialog.id
      /\ dialog'.key \notin Hosts
  BY <1>1, <1>2, <1>4, FormFields DEF AfterEdit, Forms, IInv
<1> QED
  BY <1>1, <1>3, <1>5, FormFields, FormStepKeeps DEF IInv

LEMMA TypeLoginKeeps == ASSUME IInv, TypeLogin PROVE IInv'
<1>1. /\ Ready /\ UNCHANGED <<disk, nova, db, txn, vault, ids, may, astray, loose, tampers>>
      /\ dialog # Missing
  BY DEF TypeLogin, fileVars, history, bounds
<1>2. PICK k \in {Blank, Fresh} : dialog' = [dialog EXCEPT !.key = k]
  BY DEF TypeLogin
<1>3. vault' \in [Ids -> Logins \cup {Missing}] /\ ids' \in 0..MaxIds
  BY <1>1 DEF IInv, FormInv, FormTypes
<1>4. Blank \notin Hosts /\ Fresh \notin Hosts
  BY SpecialValues
<1>5. /\ dialog' \in Forms /\ dialog'.servers = dialog.servers /\ dialog'.id = dialog.id
      /\ dialog'.key \notin Hosts
  BY <1>1, <1>2, <1>4, FormFields DEF Forms, IInv
<1> QED
  BY <1>1, <1>3, <1>5, FormFields, FormStepKeeps DEF IInv

LEMMA NewServerKeeps == ASSUME IInv, NewServer PROVE IInv'
<1>1. /\ Ready /\ UNCHANGED <<disk, nova, db, txn, vault, may, astray, loose, tampers>>
      /\ dialog # Missing /\ dialog.id = 0 /\ ids < MaxIds /\ ids' = ids + 1
      /\ Show(WithNew(dialog.servers), ids + 1)
  BY DEF NewServer, fileVars, history, bounds
<1>2. /\ vault \in [Ids -> Logins \cup {Missing}] /\ ids \in 0..MaxIds
      /\ \A i \in Ids : vault[i] # Missing => vault[i].key = vault[i].host
  BY DEF IInv, FormInv, FormTypes, OwnKeys
<1>3. /\ dialog.servers \in Entered
      /\ \A i \in DOMAIN dialog.servers \ {0} :
           i \in DOMAIN db.shared.servers /\ dialog.servers[i] = db.shared.servers[i]
      /\ DOMAIN dialog.servers \subseteq Ids
  BY <1>1, FormFields, ProfileValues DEF IInv
<1>4. /\ WithNew(dialog.servers) \in Entered /\ ids + 1 \in DOMAIN WithNew(dialog.servers)
      /\ ids + 1 \in 0..MaxIds
      /\ \A i \in DOMAIN WithNew(dialog.servers) \ {ids + 1} :
           i \in DOMAIN dialog.servers /\ WithNew(dialog.servers)[i] = dialog.servers[i]
  BY <1>1, <1>2, <1>3, NewProfile
<1>5. /\ dialog' \in Forms /\ dialog'.servers = WithNew(dialog.servers) /\ dialog'.id = ids + 1
      /\ dialog'.key \in Hosts => dialog'.loaded /\ dialog'.key = dialog'.host
  BY <1>1, <1>2, <1>4, ShowKeeps
<1> QED
  BY <1>1, <1>2, <1>3, <1>4, <1>5, IdsArePositive, FormStepKeeps

LEMMA ForgetLoginKeeps == ASSUME IInv, ForgetLogin PROVE IInv'
<1>1. /\ Ready /\ UNCHANGED <<disk, nova, db, txn, ids, may, astray, loose, tampers>>
      /\ dialog # Missing
  BY DEF ForgetLogin, fileVars, history, bounds
<1>2. /\ vault \in [Ids -> Logins \cup {Missing}] /\ ids' \in 0..MaxIds
  BY <1>1 DEF IInv, FormInv, FormTypes
<1>3. CASE vault' = vault /\ dialog' = dialog
  BY <1>1, <1>2, <1>3, FormFields, FormStepKeeps DEF IInv
<1>4. CASE /\ vault' = [vault EXCEPT ![dialog.id] = Missing]
           /\ dialog' = [dialog EXCEPT !.loaded = FALSE, !.key = Blank]
  <2>1. /\ vault' \in [Ids -> Logins \cup {Missing}]
        /\ \A i \in Ids : vault'[i] = vault[i] \/ vault'[i] = Missing
    BY <1>2, <1>4
  <2>2. Blank \notin Hosts
    BY SpecialValues
  <2>3. /\ dialog' \in Forms /\ dialog'.servers = dialog.servers /\ dialog'.id = dialog.id
        /\ dialog'.key \notin Hosts
    BY <1>1, <1>4, <2>2, FormFields DEF Forms, IInv
  <2> QED
    BY <1>1, <1>2, <2>1, <2>3, FormFields, FormStepKeeps DEF IInv
<1> QED
  BY <1>3, <1>4 DEF ForgetLogin

----------------------------------------------------------------------------
(* The form and the saved logins while transactions come and go.           *)

Going == PrepareFails \/ Publish \/ CommitFails \/ Undo

\* A transaction that goes on, towards its end or back.
LEMMA GoingKeepsStore == ASSUME StoreInv, Going PROVE StoreInv'
<1>1. CASE PrepareFails
  BY <1>1, TurnKeeps DEF PrepareFails, fileVars, history, bounds
<1>2. CASE CommitFails
  BY <1>2, TurnKeeps DEF CommitFails, fileVars, history, bounds
<1> QED
  BY <1>1, <1>2, PublishKeeps, UndoKeeps DEF Going

\* It remains the same transaction.
LEMMA SameTransaction ==
  ASSUME StoreInv, Going
  PROVE  /\ txn # Missing /\ txn' # Missing
         /\ txn'.task = txn.task /\ txn'.want = txn.want /\ txn'.login = txn.login
         /\ txn'.from = txn.from /\ txn'.to = txn.to
         /\ UNCHANGED <<nova, db, vault, dialog, ids>>
<1>1. txn # Missing /\ UNCHANGED <<nova, db, vault, dialog, ids>>
  BY DEF Going, PrepareFails, Publish, CommitFails, Undo, fileVars, uiVars
<1>2. /\ txn \in Transactions({txn.to}, {txn.from}) /\ IsDisk(txn.to) /\ IsDisk(txn.from)
      /\ txn.todo \in SUBSET Files /\ txn.done \in SUBSET Files
  BY <1>1, TaskOf DEF StoreInv, StoreTypes
<1>3. PICK todo \in SUBSET Files, done \in SUBSET Files, undo \in BOOLEAN :
        txn' = [txn EXCEPT !.todo = todo, !.done = done, !.undo = undo]
  <2>1. CASE txn' = [txn EXCEPT !.undo = TRUE]
    <3>1. txn' = [txn EXCEPT !.todo = txn.todo, !.done = txn.done, !.undo = TRUE]
      BY <1>2, <2>1 DEF Transactions
    <3> QED
      BY <1>2, <3>1
  <2>2. ASSUME NEW f, f \in Files, txn' = [txn EXCEPT !.todo = @ \ {f}, !.done = @ \cup {f}]
        PROVE  \E todo \in SUBSET Files, done \in SUBSET Files, undo \in BOOLEAN :
                 txn' = [txn EXCEPT !.todo = todo, !.done = done, !.undo = undo]
    <3>1. txn' = [txn EXCEPT !.todo = txn.todo \ {f}, !.done = txn.done \cup {f}, !.undo = txn.undo]
      BY <1>2, <2>2 DEF Transactions
    <3>2. txn.undo \in BOOLEAN /\ txn.todo \ {f} \in SUBSET Files /\ txn.done \cup {f} \in SUBSET Files
      BY <1>2, <2>2 DEF Transactions
    <3> QED
      BY <3>1, <3>2
  <2>3. ASSUME NEW f, txn' = [txn EXCEPT !.done = @ \ {f}]
        PROVE  \E todo \in SUBSET Files, done \in SUBSET Files, undo \in BOOLEAN :
                 txn' = [txn EXCEPT !.todo = todo, !.done = done, !.undo = undo]
    <3>1. txn' = [txn EXCEPT !.todo = txn.todo, !.done = txn.done \ {f}, !.undo = txn.undo]
      BY <1>2, <2>3 DEF Transactions
    <3>2. txn.undo \in BOOLEAN /\ txn.done \ {f} \in SUBSET Files
      BY <1>2 DEF Transactions
    <3> QED
      BY <1>2, <3>1, <3>2
  <2>4. Publish => FirstOf(txn.todo) \in Files
    BY <1>2, FirstIsFirst DEF Publish
  <2> QED
    BY <2>1, <2>2, <2>3, <2>4 DEF Going, PrepareFails, Publish, CommitFails, Undo
<1>4. /\ txn'.task = txn.task /\ txn'.want = txn.want /\ txn'.login = txn.login
      /\ txn'.from = txn.from /\ txn'.to = txn.to
  BY <1>2, <1>3 DEF Transactions
<1>5. txn' \in Transactions({txn'.to}, {txn'.from})
  BY <1>2, <1>3, <1>4 DEF Transactions
<1> QED
  BY <1>1, <1>2, <1>4, <1>5, PresentTransaction

\* No server transaction ends in a file that could not be put back unnoticed.
LEMMA PutBack ==
  ASSUME StoreInv, Going, ~loose', txn.task.kind = "server",
         \A f \in Files \ txn.done : disk[f] = txn.from[f]
  PROVE  ~loose /\ \A f \in Files \ txn'.done : disk'[f] = txn.from[f]
<1>1. /\ txn # Missing /\ txn \in Transactions({txn.to}, {txn.from})
      /\ txn.done \in SUBSET Files /\ txn.todo \in SUBSET Files
      /\ disk = [g \in Files |-> disk[g]]
  BY TaskOf DEF StoreInv, StoreTypes, IsDisk, Going, PrepareFails, Publish, CommitFails, Undo
<1>2. CASE txn' = [txn EXCEPT !.undo = TRUE] /\ disk' = disk /\ loose' = loose
  BY <1>1, <1>2 DEF Transactions
<1>3. CASE Publish /\ disk' # disk
  <2> DEFINE f == FirstOf(txn.todo)
  <2> HIDE DEF f
  <2>1. /\ disk' = [disk EXCEPT ![f] = txn.to[f]] /\ loose' = loose
        /\ txn' = [txn EXCEPT !.todo = @ \ {f}, !.done = @ \cup {f}]
    BY <1>3 DEF Publish, history, f
  <2>2. txn'.done = txn.done \cup {f} /\ \A g \in Files \ {f} : disk'[g] = disk[g]
    BY <1>1, <2>1 DEF Transactions
  <2> QED
    BY <2>1, <2>2
<1>4. CASE Publish /\ disk' = disk
  <2>1. txn'.done = txn.done \/ txn'.done = txn.done \cup {FirstOf(txn.todo)}
    BY <1>1, <1>4 DEF Publish, Transactions
  <2> QED
    BY <1>4, <2>1 DEF Publish, history
<1>5. CASE Undo
  <2> DEFINE f == LastOf(txn.done)
  <2> HIDE DEF f
  <2>1. /\ disk' = [disk EXCEPT ![f] = txn.from[f]] /\ loose' = loose
        /\ txn' = [txn EXCEPT !.done = @ \ {f}]
    BY <1>5 DEF Undo, Restored, f
  <2>2. txn'.done = txn.done \ {f} /\ \A g \in Files : disk'[g] = IF g = f THEN txn.from[f] ELSE disk[g]
    BY <1>1, <2>1 DEF Transactions
  <2> QED
    BY <2>1, <2>2
<1> QED
  BY <1>2, <1>3, <1>4, <1>5
  DEF Going, PrepareFails, CommitFails, fileVars, history

\* The dialog and the logins do not change meanwhile.
LEMMA GoingKeeps == ASSUME IInv, Going PROVE IInv'
<1>1. StoreInv'
  BY GoingKeepsStore DEF IInv
<1>2. /\ txn # Missing /\ txn' # Missing
      /\ txn'.task = txn.task /\ txn'.want = txn.want /\ txn'.login = txn.login
      /\ txn'.from = txn.from /\ txn'.to = txn.to
      /\ UNCHANGED <<nova, db, vault, dialog, ids>>
  BY SameTransaction DEF IInv
<1>3. FormInv'
  BY <1>2 DEF IInv, FormInv, FormTypes, Editing, OwnKeys, FormOnTables, Doing
<1>4. OnRecord'
  <2>1. ~loose' => ~loose
    BY DEF Going, PrepareFails, Publish, CommitFails, Undo, history
  <2>2. ASSUME ~loose', Doing("server")'
        PROVE  \A f \in Files \ txn'.done : disk'[f] = txn'.from[f]
    BY <1>2, <2>1, <2>2, PutBack DEF IInv, OnRecord, Doing
  <2> QED
    BY <1>2, <2>1, <2>2 DEF IInv, OnRecord, Doing, Matches
<1> QED
  BY <1>1, <1>3, <1>4 DEF IInv

\* A save succeeded: the dialog goes on with the saved profiles.
LEMMA CommittedKeepsForm ==
  ASSUME IInv, Committed
  PROVE  FormInv'
<1>1. /\ txn # Missing /\ db' = txn.want /\ txn' = Missing /\ vault' = vault
      /\ txn.want \in Tables /\ txn.want.shared.servers \in Entered
  BY TaskOf, EmptyForms DEF Committed, Tables, SharedDoc, IInv, StoreInv
<1>2. /\ vault \in [Ids -> Logins \cup {Missing}] /\ ids \in 0..MaxIds
      /\ \A i \in Ids : vault[i] # Missing => vault[i].key = vault[i].host
  BY DEF IInv, FormInv, FormTypes, OwnKeys
<1>3. dialog # Missing => txn.want.shared.count # 0 /\ txn.task.kind # "open" /\ db' # Missing
  BY <1>1, TaskOf, Absent DEF IInv, StoreInv, FormInv, FormOnTables, Doing, TaskDomain
<1>4. CASE txn.task.kind # "server"
  <2>1. dialog' = dialog /\ ids' = ids
    BY <1>4 DEF Committed
  <2>2. dialog # Missing => txn.want.shared.servers = db.shared.servers
    BY <1>1, <1>3, <1>4, TaskOf DEF IInv, StoreInv, FormInv, FormOnTables, Doing, TaskDomain
  <2>3. FormTypes' /\ Editing' /\ OwnKeys'
    BY <1>1, <2>1 DEF IInv, FormInv, FormTypes, Editing, OwnKeys
  <2>4. FormOnTables'
    BY <1>1, <1>3, <2>1, <2>2 DEF IInv, FormInv, FormOnTables, Doing
  <2> QED
    BY <2>3, <2>4 DEF FormInv
<1>5. CASE txn.task.kind = "server"
  <2> DEFINE servers == txn.want.shared.servers
  <2>1. /\ dialog # Missing /\ txn.task.id \in Ids
        /\ txn.task.then = "new" => ids < MaxIds
        /\ txn.task.then = "stay" => dialog.host \in Hosts /\ dialog.id \in DOMAIN servers
    BY <1>1, <1>5 DEF IInv, FormInv, Editing
  <2>2. ASSUME dialog' # Missing =>
                 /\ dialog' \in Forms
                 /\ dialog'.id # 0 => dialog'.id \in DOMAIN dialog'.servers
                 /\ dialog'.key \in Hosts => dialog'.loaded /\ dialog'.key = dialog'.host
                 /\ \A i \in DOMAIN dialog'.servers \ {dialog'.id} :
                      i \in DOMAIN servers /\ dialog'.servers[i] = servers[i],
               ids' \in 0..MaxIds
        PROVE  FormInv'
    <3>1. FormTypes' /\ Editing' /\ OwnKeys'
      BY <1>1, <1>2, <2>2 DEF FormTypes, Editing, OwnKeys
    <3>2. FormOnTables'
      BY <1>1, <1>3, <2>1, <2>2 DEF FormOnTables, Doing
    <3> QED
      BY <3>1, <3>2 DEF FormInv
  <2>3. ASSUME NEW i \in DOMAIN servers \cup {0}, Show(servers, i), ids' = ids PROVE FormInv'
    <3>1. /\ dialog' \in Forms /\ dialog'.servers = servers /\ dialog'.id = i
          /\ dialog'.key \in Hosts => dialog'.loaded /\ dialog'.key = dialog'.host
      BY <1>1, <1>2, <2>3, ShowKeeps
    <3> QED
      BY <1>2, <2>2, <2>3, <3>1
  <2>4. CASE txn.task.then = "stay"
    <3>1. dialog' = [dialog EXCEPT !.servers = servers, !.loaded = dialog.key # Blank,
                       !.key = IF @ = Blank THEN Blank ELSE dialog.host] /\ ids' = ids
      BY <1>5, <2>4 DEF Committed, DialogSaved
    <3>2. Blank \notin Hosts /\ dialog \in Forms
      BY <2>1, SpecialValues DEF IInv, FormInv, FormTypes
    <3>3. dialog' = [servers |-> servers, id |-> dialog.id, host |-> dialog.host,
                     key |-> IF dialog.key = Blank THEN Blank ELSE dialog.host,
                     loaded |-> dialog.key # Blank]
      BY <3>1, <3>2 DEF Forms
    <3>4. dialog.id \in 0..MaxIds /\ dialog.host \in Hosts /\ servers \in Entered
      BY <1>1, <2>1, <2>4, <3>2 DEF Forms
    <3> DEFINE key == IF dialog.key = Blank THEN Blank ELSE dialog.host
               loaded == dialog.key # Blank
    <3>5. /\ key \in Hosts \cup {Blank, Fresh} /\ loaded \in BOOLEAN
          /\ key \in Hosts => loaded /\ key = dialog.host
      BY <3>2, <3>4
    <3>6. ids' = ids /\ dialog.id \in DOMAIN servers
      BY <2>1, <2>4, <3>1
    <3> HIDE DEF servers, key, loaded
    <3>7. /\ dialog' \in Forms /\ dialog'.servers = servers /\ dialog'.id = dialog.id
          /\ dialog'.key = key /\ dialog'.loaded = loaded /\ dialog'.host = dialog.host
      BY <3>3, <3>4, <3>5 DEF Forms, servers, key, loaded
    <3> QED
      BY <1>2, <2>2, <3>5, <3>6, <3>7
  <2>5. CASE txn.task.then = "connect"
    BY <1>2, <1>5, <2>2, <2>5 DEF Committed, DialogSaved
  <2>6. CASE txn.task.then = "next"
    BY <1>5, <2>3, <2>6 DEF Committed, DialogSaved
  <2>7. CASE txn.task.then = "new"
    <3>1. Show(WithNew(servers), ids + 1) /\ ids' = ids + 1 /\ ids < MaxIds
      BY <1>5, <2>1, <2>7 DEF Committed, DialogSaved
    <3>2. /\ WithNew(servers) \in Entered /\ ids + 1 \in DOMAIN WithNew(servers)
          /\ ids + 1 \in 0..MaxIds
          /\ \A i \in DOMAIN WithNew(servers) \ {ids + 1} :
               i \in DOMAIN servers /\ WithNew(servers)[i] = servers[i]
      BY <1>1, <1>2, <3>1, NewProfile
    <3>3. /\ dialog' \in Forms /\ dialog'.servers = WithNew(servers) /\ dialog'.id = ids + 1
          /\ dialog'.key \in Hosts => dialog'.loaded /\ dialog'.key = dialog'.host
      BY <1>2, <3>1, <3>2, ShowKeeps
    <3> QED
      BY <2>2, <3>1, <3>2, <3>3
  <2>8. CASE txn.task.then = "removed"
    <3>1. (\E i \in Neighbours(servers, txn.task.id) : Show(servers, i)) /\ ids' = ids
      BY <1>5, <2>8 DEF Committed, DialogSaved
    <3>2. Neighbours(servers, txn.task.id) \subseteq DOMAIN servers \cup {0}
      BY DEF Neighbours
    <3> QED
      BY <2>3, <3>1, <3>2
  <2>9. txn.task.then \in {"stay", "connect", "next", "new", "removed"}
    BY <1>1, TaskOf DEF IInv, StoreInv, TaskDomain
  <2> QED
    BY <2>4, <2>5, <2>6, <2>7, <2>8, <2>9
<1> QED
  BY <1>4, <1>5

\* The published document is the one whose login was written.
LEMMA CommittedKeepsLogins == ASSUME IInv, Committed PROVE OnRecord'
<1>1. /\ txn # Missing /\ ~txn.undo /\ txn.todo = {} /\ db' = txn.want /\ txn' = Missing
      /\ UNCHANGED <<disk, nova, vault, loose>>
  BY DEF Committed, fileVars
<1>2. disk["runtime"] = txn.want.shared
  BY <1>1 DEF IInv, StoreInv, Snapshots, Progress, Files
<1> QED
  BY <1>1, <1>2 DEF IInv, OnRecord, Matches, Idle, Doing

\* A save failed: the previous login is given back, or loose.
LEMMA RolledBackKeepsForm == ASSUME IInv, RolledBack PROVE FormInv' /\ OnRecord'
<1>1. /\ txn # Missing /\ txn.undo /\ txn.done = {} /\ txn' = Missing
      /\ db' = (IF txn.task.kind = "open" \/ db.shared.count = 0 THEN Missing ELSE db)
      /\ UNCHANGED <<disk, nova, dialog, ids>>
      /\ \/ txn.task.kind # "server" /\ vault' = vault /\ loose' = loose
         \/ txn.task.kind = "server" /\ vault' = [vault EXCEPT ![txn.task.id] = txn.login]
            /\ loose' = loose
         \/ txn.task.kind = "server" /\ vault' = vault /\ loose' = TRUE
  BY DEF RolledBack, fileVars, GivenBack
<1>2. /\ txn.login \in Logins \cup {Missing} /\ txn.task \in TaskDomain /\ db # Missing
      /\ vault \in [Ids -> Logins \cup {Missing}] /\ txn.want \in Tables
      /\ Doing("server") => txn.task.id \in Ids
  BY <1>1, TaskOf DEF IInv, StoreInv, Snapshots, FormInv, FormTypes, Editing, Doing
<1>3. vault' \in [Ids -> Logins \cup {Missing}]
  BY <1>1, <1>2 DEF Doing
<1>4. FormTypes' /\ Editing'
  BY <1>1, <1>3 DEF IInv, FormInv, FormTypes, Editing
<1>5. FormOnTables'
  BY <1>1 DEF IInv, FormInv, FormOnTables, Doing
<1>6. OwnKeys'
  BY <1>1, <1>2 DEF IInv, FormInv, OwnKeys, Doing
<1>7. OnRecord'
  <2>1. \A g \in {"runtime"} : disk[g] = txn.from[g] \/ disk[g] = txn.want.shared
    BY <1>1 DEF IInv, StoreInv, Progress, Snapshots, Files
  <2>2. CASE txn.task.kind # "server"
    BY <1>1, <1>2, <2>1, <2>2 DEF IInv, StoreInv, FormInv, FormOnTables, OnRecord, Matches, Idle, Doing, TaskDomain
  <2>3. CASE txn.task.kind = "server" /\ ~loose'
    <3>1. ~loose /\ vault' = [vault EXCEPT ![txn.task.id] = txn.login]
      BY <1>1, <2>3
    <3>2. disk["runtime"] = txn.from["runtime"] /\ disk["runtime"].servers = db.shared.servers
      BY <1>1, <2>3, <3>1 DEF IInv, OnRecord, Doing, Files
    <3>3. DOMAIN db.shared.servers \subseteq Ids
      BY <1>2, TableProfiles, ProfileValues DEF IInv, StoreInv
    <3>4. Matches(disk["runtime"])'
      BY <1>1, <1>2, <2>3, <3>1, <3>2, <3>3 DEF IInv, OnRecord, Doing, Matches
    <3> QED
      BY <1>1, <3>2, <3>4 DEF IInv, OnRecord, Idle, Doing
  <2>4. CASE loose'
    BY <1>1, <2>4 DEF IInv, OnRecord
  <2> QED
    BY <1>1, <2>2, <2>3, <2>4
<1> QED
  BY <1>4, <1>5, <1>6, <1>7 DEF FormInv

\* No dialog is open yet; the logins match what is loaded.
LEMMA OpenKeepsForm == ASSUME IInv, Open PROVE FormInv' /\ OnRecord'
<1>1. /\ db = Missing /\ txn = Missing /\ dialog = Missing
      /\ IsDisk(disk) /\ nova \in Tables \cup {Missing, Damaged}
  BY DEF Open, IInv, StoreInv, StoreTypes, Snapshots, FormInv, FormOnTables
<1>2. UNCHANGED <<disk, nova, vault, dialog, ids, loose>> /\ db' = Loaded
  BY DEF Open, fileVars, uiVars
<1>3. \/ txn' = Missing
      \/ /\ txn' = Transaction(Task("open", 0, "stay"), Loaded, Missing)
         /\ txn'.task.kind = "open" /\ txn'.login = Missing /\ txn'.want = Loaded /\ txn'.from = disk
  BY <1>1 DEF Open, Transaction, Task
<1>4. FormInv'
  BY <1>1, <1>2, <1>3 DEF IInv, FormInv, FormTypes, Editing, OwnKeys, FormOnTables, Doing
<1>5. OnRecord'
  <2> SUFFICES ASSUME ~loose PROVE OnRecord'
    BY <1>1, <1>2, <1>3 DEF IInv, OnRecord, Doing
  <2>1. disk["runtime"] \in SharedDoc => Matches(disk["runtime"])
    BY <1>1 DEF IInv, OnRecord
  <2>2. \/ Loaded.shared = disk["runtime"] /\ disk["runtime"] \in SharedDoc
        \/ Loaded.shared.servers = NoProfiles /\ MustMigrate
    <3>1. disk["runtime"] \in SharedDoc \cup {Missing, Damaged}
      BY <1>1 DEF IsDisk, Files, Stored
    <3>2. CASE ~MustMigrate
      BY <3>1, <3>2, Absent DEF Open, Loadable, Loaded, LoadedShared, Source, MustMigrate
    <3>3. CASE MustMigrate
      <4>1. Source = Missing \/ (nova \in Tables /\ Source = nova.shared /\ Source # Missing)
        <5>1. nova \in Tables => nova.shared # Missing
          BY Absent DEF Tables
        <5> QED
          BY <1>1, <3>3, <5>1 DEF Open, Loadable, Source
      <4>2. Loaded.shared.servers = NoProfiles
        BY <4>1 DEF Loaded, LoadedShared, Empty, IInv, OnRecord
      <4> QED
        BY <3>3, <4>2
    <3> QED
      BY <3>2, <3>3
  <2>3. \A i \in DOMAIN Loaded.shared.servers :
          vault'[i] # Missing => vault'[i].host = Loaded.shared.servers[i]
    <3>1. DOMAIN NoProfiles = {}
      BY DEF NoProfiles
    <3> QED
      BY <1>2, <2>1, <2>2, <3>1 DEF Matches
  <2>4. CASE txn' = Missing
    <3>1. ~MustMigrate
      <4>1. Loaded \in Tables /\ Task("open", 0, "stay") \in TaskDomain
        BY <1>1, LoadedFits, BoundsAssumption DEF Open, Task, TaskDomain
      <4>2. txn' # Transaction(Task("open", 0, "stay"), Loaded, Missing)
        BY <1>1, <2>4, <4>1, TransactionTypes
      <4> QED
        BY <4>2 DEF Open, Republish
    <3> QED
      BY <1>1, <1>2, <2>1, <2>2, <2>4, <3>1 DEF IInv, OnRecord, Idle, Doing, Matches
  <2>5. CASE txn'.task.kind = "open" /\ txn'.want = Loaded /\ txn'.from = disk /\ txn' # Missing
    BY <1>1, <1>2, <2>1, <2>3, <2>5 DEF IInv, OnRecord, Doing, Matches
  <2> QED
    BY <1>3, <2>4, <2>5
<1> QED
  BY <1>4, <1>5

\* Saving the tabs touches no profile.
LEMMA SaveSessionKeepsForm == ASSUME IInv, SaveSession PROVE FormInv' /\ OnRecord'
<1>0. PICK n \in 1..MaxTabs : \E selected \in 0..(n - 1) :
        Begin(Task("session", 0, "stay"),
              [shared |-> [db.shared EXCEPT !.count = n], local |-> selected], Missing)
  BY DEF SaveSession
<1>1. PICK selected \in 0..(n - 1) :
        Begin(Task("session", 0, "stay"),
              [shared |-> [db.shared EXCEPT !.count = n], local |-> selected], Missing)
  BY <1>0
<1>2. db # Missing /\ txn = Missing /\ UNCHANGED <<disk, nova, db, vault, dialog, ids, loose>>
  BY DEF SaveSession, Idle, fileVars, uiVars
<1>3. /\ txn'.task.kind = "session" /\ txn'.login = Missing /\ txn'.from = disk
      /\ txn'.want.shared = [db.shared EXCEPT !.count = n]
  BY <1>1 DEF Begin, Transaction, Task
<1>4. db.shared \in SharedDoc
  BY <1>2, TableProfiles DEF IInv, StoreInv
<1>5. txn'.want.shared.count # 0 /\ txn'.want.shared.servers = db.shared.servers
  BY <1>3, <1>4 DEF SharedDoc
<1>6. FormInv'
  BY <1>2, <1>3, <1>5 DEF IInv, FormInv, FormTypes, Editing, OwnKeys, FormOnTables, Doing
<1>7. OnRecord'
  <2>1. disk["runtime"] \in SharedDoc
    BY <1>2 DEF IInv, StoreInv, Between, Idle
  <2>2. ~loose => disk["runtime"].servers = db.shared.servers
    BY <1>2 DEF IInv, OnRecord, Idle
  <2>3. ~loose /\ disk["runtime"] \in SharedDoc => Matches(disk["runtime"])
    BY <1>2 DEF IInv, OnRecord
  <2> QED
    BY <1>2, <1>3, <1>5, <2>1, <2>2, <2>3 DEF IInv, OnRecord, Doing, Matches
<1> QED
  BY <1>6, <1>7

\* A crash during a server transaction leaves its login loose.
LEMMA StopKeepsForm == ASSUME IInv, Stop PROVE FormInv' /\ OnRecord'
<1>1. /\ db' = Missing /\ txn' = Missing /\ dialog' = Missing
      /\ UNCHANGED <<disk, nova, vault, ids>>
      /\ loose' = (loose \/ (txn # Missing /\ txn.task.kind = "server"))
  BY DEF Stop, fileVars
<1>2. FormInv'
  BY <1>1 DEF IInv, FormInv, FormTypes, Editing, OwnKeys, FormOnTables, Doing
<1>3. OnRecord'
  <2>1. txn # Missing => disk["runtime"] = txn.from["runtime"] \/ disk["runtime"] = txn.want.shared
    BY DEF IInv, StoreInv, Progress, Snapshots, Files
  <2> QED
    BY <1>1, <2>1 DEF IInv, OnRecord, Matches, Idle, Doing
<1> QED
  BY <1>2, <1>3

\* Nobody else writes profiles.
LEMMA TamperKeepsForm == ASSUME IInv, Tamper PROVE FormInv' /\ OnRecord'
<1>1. /\ db = Missing /\ txn = Missing /\ UNCHANGED <<db, txn, vault, dialog, ids, loose>>
  BY DEF Tamper, uiVars, IInv, StoreInv, Snapshots
<1>2. FormInv'
  BY <1>1 DEF IInv, FormInv, FormTypes, Editing, OwnKeys, FormOnTables, Doing
<1>3. nova' \in Tables => nova'.shared.servers = NoProfiles
  BY Absent DEF Tamper, IInv, OnRecord
<1>4. disk'["runtime"] \in SharedDoc => disk'["runtime"] = disk["runtime"]
  <2>1. disk = [f \in Files |-> disk[f]]
    BY DEF IInv, StoreInv, StoreTypes, IsDisk
  <2> QED
    BY <2>1, Absent DEF Tamper, Files
<1>5. OnRecord'
  BY <1>1, <1>3, <1>4 DEF IInv, OnRecord, Idle, Doing, Matches
<1> QED
  BY <1>2, <1>5

\* The login and the transaction of a saved or removed profile, together.
LEMMA WriteKeeps ==
  ASSUME IInv, Ready, dialog # Missing, NEW servers \in Profiles, NEW id \in Ids,
         NEW login \in Logins \cup {Missing}, login # Missing => login.key = login.host,
         NEW then \in {"stay", "connect", "next", "new", "removed"},
         then = "new" => ids < MaxIds,
         then = "stay" => dialog.host \in Hosts /\ dialog.id \in DOMAIN servers,
         \A i \in DOMAIN servers \ {id} :
           i \in DOMAIN db.shared.servers /\ servers[i] = db.shared.servers[i],
         id \in DOMAIN servers /\ login # Missing => login.host = servers[id],
         vault' = [vault EXCEPT ![id] = login],
         Begin(Task("server", id, then), [db EXCEPT !.shared.servers = servers], vault[id]),
         UNCHANGED <<disk, nova, db, dialog, ids, astray, loose, tampers>>
  PROVE  IInv'
<1> DEFINE task == Task("server", id, then)
           want == [db EXCEPT !.shared.servers = servers]
<1>1. /\ db \in Tables /\ db.shared \in SharedDoc /\ db # Missing /\ txn = Missing
      /\ db.shared.servers \in Profiles /\ db.shared.count # 0
      /\ DOMAIN db.shared.servers \in SUBSET Ids
  BY TableProfiles, ProfileValues DEF Ready, Idle, IInv, StoreInv
<1>2. /\ vault \in [Ids -> Logins \cup {Missing}] /\ Fits(db)
      /\ \A i \in Ids : vault[i] # Missing => vault[i].key = vault[i].host
  BY <1>1 DEF IInv, FormInv, FormTypes, OwnKeys, StoreInv, Selections
<1>3. /\ want \in Tables /\ want.local = db.local
      /\ want.shared.servers = servers /\ want.shared.count = db.shared.count
  BY <1>1 DEF Tables, SharedDoc
<1>4. Fits(want)
  BY <1>2, <1>3 DEF Fits, Count
<1>5. task \in TaskDomain /\ task.kind = "server" /\ task.id = id /\ task.then = then
  BY IdsArePositive DEF Task, TaskDomain
<1>6. StoreInv'
  <2> HIDE DEF want, task
  <2>1. Idle /\ Begin(task, want, vault[id]) /\ vault[id] \in Logins \cup {Missing}
    BY <1>1, <1>2 DEF Idle, want, task
  <2> QED
    BY <1>3, <1>4, <1>5, <2>1, BeginKeeps DEF IInv
<1>7. /\ txn'.task = task /\ txn'.want = want /\ txn'.login = vault[id]
      /\ txn'.from = disk /\ txn'.done = {}
  BY DEF Begin, Transaction
<1>8. /\ vault' \in [Ids -> Logins \cup {Missing}]
      /\ \A i \in Ids : vault'[i] = IF i = id THEN login ELSE vault[i]
  BY <1>2
<1> HIDE DEF want, task
<1>9. FormTypes' /\ OwnKeys'
  BY <1>2, <1>7, <1>8 DEF IInv, FormInv, FormTypes, OwnKeys
<1>10. Editing'
  BY <1>3, <1>5, <1>7 DEF IInv, FormInv, Editing
<1>11. FormOnTables'
  BY <1>1, <1>3, <1>5, <1>7 DEF IInv, FormInv, FormOnTables, Doing
<1>12. OnRecord'
  <2>1. /\ disk["runtime"] \in SharedDoc
        /\ ~loose => Matches(disk["runtime"]) /\ disk["runtime"].servers = db.shared.servers
    BY DEF IInv, StoreInv, Between, OnRecord, Ready, Idle
  <2>2. ~loose => \A i \in DOMAIN servers : vault'[i] # Missing => vault'[i].host = servers[i]
    BY <1>1, <1>8, <2>1 DEF Matches
  <2>3. ~loose => \A i \in DOMAIN db.shared.servers :
                    (IF i = id THEN vault[id] ELSE vault'[i]) # Missing =>
                      (IF i = id THEN vault[id] ELSE vault'[i]).host = db.shared.servers[i]
    BY <1>1, <1>8, <2>1 DEF Matches
  <2>4. ~loose => Matches(txn.want.shared)'
    BY <1>3, <1>7, <2>2 DEF Matches
  <2>5. txn' # Missing
    <3>1. IsDisk(disk) /\ vault[id] \in Logins \cup {Missing}
      BY <1>2 DEF IInv, StoreInv, StoreTypes
    <3>2. txn' = Transaction(task, want, vault[id])
      BY DEF Begin, task, want
    <3> QED
      BY <1>3, <1>5, <3>1, <3>2, TransactionTypes
  <2> QED
    BY <1>1, <1>5, <1>7, <2>1, <2>3, <2>4, <2>5 DEF IInv, OnRecord, Doing
<1> QED
  BY <1>6, <1>9, <1>10, <1>11, <1>12 DEF IInv, FormInv

\* persist_server_change: the write, or a failure before it.
LEMMA PersistKeeps ==
  ASSUME IInv, Ready, dialog # Missing, NEW servers, servers \in Entered,
         NEW login \in Logins \cup {Missing}, login # Missing => login.key = login.host,
         NEW then \in {"stay", "connect", "next", "new", "removed"}, dialog.id # 0,
         then = "new" => ids < MaxIds,
         then = "stay" /\ Valid(servers) =>
           dialog.host \in Hosts /\ dialog.id \in DOMAIN servers,
         \A i \in DOMAIN servers \ {dialog.id} :
           i \in DOMAIN db.shared.servers /\ servers[i] = db.shared.servers[i],
         dialog.id \in DOMAIN servers /\ login # Missing => login.host = servers[dialog.id],
         Persist(servers, dialog.id, login, then)
  PROVE  IInv'
<1>1. Valid(servers) /\ UNCHANGED <<disk, nova, db, dialog, ids, astray, loose, tampers>>
  BY DEF Persist, fileVars
<1>2. servers \in Profiles /\ dialog.id \in Ids
  BY <1>1, ProfileValues, FormFields DEF Valid, IInv
<1>3. CASE /\ vault' = [vault EXCEPT ![dialog.id] = login]
           /\ Begin(Task("server", dialog.id, then),
                    [db EXCEPT !.shared.servers = servers], vault[dialog.id])
  BY <1>1, <1>2, <1>3, WriteKeeps
<1>4. CASE UNCHANGED <<vault, txn, may>>
  <2>1. /\ ids' \in 0..MaxIds /\ vault' \in [Ids -> Logins \cup {Missing}]
    BY <1>1, <1>4 DEF IInv, FormInv, FormTypes
  <2> QED
    BY <1>1, <1>4, <2>1, FormFields, FormStepKeeps DEF IInv
<1> QED
  BY <1>3, <1>4 DEF Persist

\* A saved profile takes the login of the form.
LEMMA SaveServerKeeps ==
  ASSUME IInv, NEW then \in {"stay", "connect", "next", "new"}, SaveServer(then)
  PROVE  IInv'
<1> DEFINE servers == [dialog.servers EXCEPT ![dialog.id] = dialog.host]
           login == LoginOf(dialog.host, dialog.key)
<1>1. /\ Ready /\ dialog # Missing /\ dialog.id # 0 /\ (then = "new" => ids < MaxIds)
      /\ Persist(servers, dialog.id, login, then)
  BY DEF SaveServer
<1>2. /\ dialog.servers \in Entered /\ dialog.id \in DOMAIN dialog.servers
      /\ dialog.host \in Hosts \cup {NoHost} /\ dialog.key \in Hosts \cup {Blank, Fresh}
      /\ dialog.key \in Hosts => dialog.key = dialog.host
      /\ \A i \in DOMAIN dialog.servers \ {dialog.id} :
           i \in DOMAIN db.shared.servers /\ dialog.servers[i] = db.shared.servers[i]
  BY <1>1, FormFields DEF IInv
<1>3. /\ DOMAIN servers = DOMAIN dialog.servers
      /\ \A i \in DOMAIN servers :
           servers[i] = IF i = dialog.id THEN dialog.host ELSE dialog.servers[i]
      /\ servers = [i \in DOMAIN servers |-> servers[i]]
  BY <1>2
<1> HIDE DEF servers
<1>4. servers \in Entered
  BY <1>2, <1>3, ProfileValues
<1>5. dialog.host \in Hosts
  BY <1>1, <1>2, <1>3 DEF Persist, Valid
<1>6. /\ login \in Logins \cup {Missing}
      /\ login # Missing => login.key = login.host /\ login.host = dialog.host
  BY <1>2, <1>5, SpecialValues DEF LoginOf, Logins
<1> HIDE DEF login
<1>7. /\ \A i \in DOMAIN servers \ {dialog.id} :
           i \in DOMAIN db.shared.servers /\ servers[i] = db.shared.servers[i]
      /\ dialog.id \in DOMAIN servers /\ servers[dialog.id] = dialog.host
  BY <1>2, <1>3
<1> QED
  BY <1>1, <1>4, <1>5, <1>6, <1>7, PersistKeeps

\* A removed profile takes its login along.
LEMMA RemoveServerKeeps == ASSUME IInv, RemoveServer PROVE IInv'
<1> DEFINE servers == [i \in DOMAIN dialog.servers \ {dialog.id} |-> dialog.servers[i]]
<1>1. /\ Ready /\ dialog # Missing /\ dialog.id # 0
      /\ Persist(servers, dialog.id, Missing, "removed")
  BY DEF RemoveServer
<1>2. /\ dialog.servers \in Entered
      /\ \A i \in DOMAIN dialog.servers \ {dialog.id} :
           i \in DOMAIN db.shared.servers /\ dialog.servers[i] = db.shared.servers[i]
  BY <1>1, FormFields DEF IInv
<1>3. servers \in Entered
  <2>1. /\ DOMAIN servers \in SUBSET Ids
        /\ \A i \in DOMAIN servers : servers[i] \in Hosts \cup {NoHost}
        /\ servers = [i \in DOMAIN servers |-> servers[i]]
    BY <1>2, ProfileValues
  <2> QED
    BY <2>1, ProfileValues
<1>4. \A i \in DOMAIN servers \ {dialog.id} :
        i \in DOMAIN db.shared.servers /\ servers[i] = db.shared.servers[i]
  BY <1>2
<1>5. dialog.id \notin DOMAIN servers
  OBVIOUS
<1> HIDE DEF servers
<1> QED
  BY <1>1, <1>3, <1>4, <1>5, PersistKeeps

----------------------------------------------------------------------------
(* The theorems.                                                           *)

\* The invariant holds before the first start.
LEMMA InitIInv == Init => IInv
<1> SUFFICES ASSUME Init PROVE IInv
  OBVIOUS
<1>1. disk = [f \in Files |-> Missing] /\ \A f \in Files : disk[f] = Missing
  BY DEF Init
<1>2. IsDisk(disk)
  BY <1>1 DEF IsDisk, Stored
<1>3. /\ nova \in Tables \cup {Missing} /\ nova # Damaged
      /\ nova \in Tables => Fits(nova) /\ nova.shared.servers = NoProfiles
  <2>1. \A t \in Tables : t # Missing /\ t # Damaged
    BY Absent
  <2>2. CASE nova = Missing
    BY <2>1, <2>2, Absent
  <2>3. CASE nova = [shared |-> [count |-> MaxTabs, servers |-> NoProfiles], local |-> MaxTabs - 1]
    <3>1. nova \in Tables
      BY <2>3, BoundsAssumption, EmptyForms DEF Tables, SharedDoc, LocalDoc, Tabs
    <3>2. Fits(nova) /\ nova.shared.servers = NoProfiles
      BY <2>3, BoundsAssumption DEF Fits, Count
    <3> QED
      BY <2>1, <3>1, <3>2
  <2> QED
    BY <2>2, <2>3 DEF Init
<1>4. StoreInv
  BY <1>1, <1>2, <1>3, Absent
  DEF Init, StoreInv, StoreTypes, Selections, Undamaged, Snapshots, Progress, BaseLast, Between, Idle,
      Files
<1>5. FormInv
  BY BoundsAssumption DEF Init, FormInv, FormTypes, Editing, OwnKeys, FormOnTables, Doing
<1>6. OnRecord
  BY <1>1, <1>3, Absent DEF Init, OnRecord, Idle, Doing, Files
<1> QED
  BY <1>4, <1>5, <1>6 DEF IInv

\* Every step keeps it.
LEMMA NextIInv == IInv /\ [Next]_vars => IInv'
<1> SUFFICES ASSUME IInv, [Next]_vars PROVE IInv'
  OBVIOUS
<1>1. CASE Open
  BY <1>1, OpenKeeps, OpenKeepsForm DEF IInv
<1>2. CASE SaveSession
  BY <1>2, SaveSessionKeeps, SaveSessionKeepsForm DEF IInv
<1>3. CASE RemoveServer
  BY <1>3, RemoveServerKeeps
<1>4. ASSUME NEW then \in {"stay", "connect", "next", "new"}, SaveServer(then) PROVE IInv'
  BY <1>4, SaveServerKeeps
<1>5. CASE PrepareFails \/ Publish \/ CommitFails \/ Undo
  BY <1>5, GoingKeeps DEF Going
<1>6. CASE Committed
  BY <1>6, CommittedKeeps, CommittedKeepsForm, CommittedKeepsLogins DEF IInv
<1>7. CASE RolledBack
  BY <1>7, RolledBackKeeps, RolledBackKeepsForm DEF IInv
<1>8. CASE Form
  BY <1>8, OpenDialogKeeps, CloseDialogKeeps, EditHostKeeps, TypeLoginKeeps, NewServerKeeps,
     ForgetLoginKeeps DEF Form
<1>9. CASE Stop
  BY <1>9, StopKeeps, StopKeepsForm DEF IInv
<1>10. CASE Tamper
  BY <1>10, TamperKeeps, TamperKeepsForm DEF IInv
<1>11. CASE UNCHANGED vars
  <2>1. StoreInv'
    BY <1>11, StoreStutters DEF IInv, vars
  <2>2. FormInv' /\ OnRecord'
    BY <1>11 DEF IInv, FormInv, FormTypes, Editing, OwnKeys, FormOnTables, OnRecord, Matches,
                 Doing, Idle, vars
  <2> QED
    BY <2>1, <2>2 DEF IInv
<1> QED
  BY <1>1, <1>2, <1>3, <1>4, <1>5, <1>6, <1>7, <1>8, <1>9, <1>10, <1>11
  DEF Next, Save, Store

\* It always holds.
LEMMA StoreIInv == Spec => []IInv
BY InitIInv, NextIInv, PTL DEF Spec

\* The variables keep their types, whatever fails and whoever tampers with the
\* files (storage.c, config_json.c, ssh_view.c).
THEOREM StoreTypeOK == Spec => []TypeOK
<1>1. IInv => TypeOK
  BY DEF IInv, StoreInv, StoreTypes, FormInv, FormTypes, TypeOK
<1> QED
  BY <1>1, StoreIInv, PTL

\* A save that was reported is what the next start loads, and a failed one
\* leaves no trace (store_end, config_json_commit, config_json_load).  A
\* replacement that fails is taken to leave its file as it was (213, 220).
THEOREM StoreIsDurable == Spec => []SavesAreDurable
<1>1. IInv => SavesAreDurable
  <2> SUFFICES ASSUME IInv PROVE SavesAreDurable
    OBVIOUS
  <2>1. disk["runtime"] \in may
    BY DEF IInv, StoreInv, Between
  <2>2. ASSUME Idle, ~astray PROVE Loadable /\ Loaded = db
    <3>1. db \in Tables /\ Fits(db) /\ Agree(disk, db)
      BY <2>2 DEF Idle, IInv, StoreInv, StoreTypes, Selections, Between
    <3> QED
      BY <3>1, AgreementLoads
  <2> QED
    BY <2>1, <2>2 DEF SavesAreDurable
<1> QED
  BY <1>1, StoreIInv, PTL

\* A start accepts what any interrupted publication left, of however many files
\* (config_json_load, config_json_load_local, validate_preferences), where a
\* replacement that fails is taken to leave its file as it was (213, 220).
THEOREM StoreAlwaysOpens == Spec => []AlwaysOpens
<1>1. IInv => AlwaysOpens
  <2> SUFFICES ASSUME IInv, ~astray, tampers = 0 PROVE Loadable
    BY DEF AlwaysOpens
  <2>1. /\ \A f \in Files : disk[f] # Damaged /\ disk[f] \in Stored(f)
        /\ nova # Damaged /\ nova \in Tables \cup {Missing}
        /\ disk["runtime"] = Missing => disk["base"] = Missing
    BY DEF IInv, StoreInv, StoreTypes, IsDisk, Undamaged, BaseLast
  <2>2. nova \in Tables => nova.shared \in SharedDoc /\ nova.shared # Damaged /\ Fits(nova)
    BY Absent DEF IInv, StoreInv, Selections, Tables
  <2>3. Source # Damaged
    BY <2>1, <2>2, Absent DEF Source, MustMigrate, Files
  <2>4. LoadedShared \in SharedDoc
    <3>1. Empty.shared \in SharedDoc
      BY BoundsAssumption, EmptyForms DEF Empty, SharedDoc, Tabs
    <3> QED
      BY <2>1, <2>2, <2>3, <3>1 DEF LoadedShared, Source, MustMigrate, Files, Stored
  <2>5. Count(LoadedShared) \in Nat \ {0}
    BY <2>4 DEF Count, SharedDoc, Tabs
  <2>6. LoadedLocal < Count(LoadedShared)
    <3>1. CASE disk["local"] \in LocalDoc
      <4>1. LoadedLocal = Normalised(LoadedShared, disk["local"]) /\ disk["local"] \in Int
        BY <3>1, Absent DEF LoadedLocal, LocalDoc
      <4> QED
        BY <2>5, <4>1 DEF Normalised
    <3>2. CASE disk["local"] = Missing
      <4>1. LoadedLocal = IF MustMigrate /\ nova \in Tables THEN nova.local ELSE 0
        BY <3>2, Absent DEF LoadedLocal
      <4>2. CASE MustMigrate /\ nova \in Tables
        <5>1. LoadedShared = nova.shared
          BY <2>1, <2>2, <4>2, Absent DEF LoadedShared, Source, MustMigrate
        <5> QED
          BY <2>2, <4>1, <4>2, <5>1 DEF Fits
      <4>3. CASE ~(MustMigrate /\ nova \in Tables)
        BY <2>5, <4>1, <4>3
      <4> QED
        BY <4>2, <4>3
    <3> QED
      BY <2>1, <3>1, <3>2 DEF Files, Stored
  <2> QED
    BY <2>1, <2>3, <2>6 DEF Loadable, Files
<1> QED
  BY <1>1, StoreIInv, PTL

\* No login is shown for, or on record with, another endpoint than its own
\* (ssh_credentials_load, persist_server_change).
THEOREM StoredLoginsStayHome == Spec => []LoginsStayHome
<1>1. IInv => LoginsStayHome
  <2> SUFFICES ASSUME IInv PROVE LoginsStayHome
    OBVIOUS
  <2>1. dialog # Missing /\ dialog.key \in Hosts => dialog.key = dialog.host
    BY DEF IInv, FormInv, OwnKeys
  <2>2. ASSUME Idle, ~loose, NEW i \in DOMAIN db.shared.servers, vault[i] # Missing
        PROVE  vault[i].host = db.shared.servers[i]
    <3>1. disk["runtime"] \in SharedDoc /\ disk["runtime"].servers = db.shared.servers
      BY <2>2 DEF IInv, StoreInv, Between, OnRecord, Idle
    <3> QED
      BY <2>2, <3>1 DEF IInv, OnRecord, Matches, Idle
  <2> QED
    BY <2>1, <2>2 DEF LoginsStayHome
<1> QED
  BY <1>1, StoreIInv, PTL
=============================================================================
