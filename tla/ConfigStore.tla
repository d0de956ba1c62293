----------------------------- MODULE ConfigStore -----------------------------
(***************************************************************************)
(* The configuration of NOVA Desktop: an in-memory SQLite database that is *)
(* loaded from JSON files and published back to them by every transaction  *)
(* (src/src/platform/storage.c, config_json.c), and the server dialog,     *)
(* which keeps the saved login of a profile in the Windows Credential      *)
(* Manager beside the profile in the configuration                         *)
(* (src/src/ui/ssh_view.c, src/src/platform/ssh_credentials.c).            *)
(*                                                                         *)
(* A shared document (runtime.json and its copies) is reduced to the tabs  *)
(* of one file pane and the endpoint of each SSH profile; the local one    *)
(* (local.json) to the selected tab.  The selected tab of one file indexes *)
(* the tabs of the other: a crash between the two must still leave files   *)
(* that open.                                                              *)
(***************************************************************************)
EXTENDS Integers, FiniteSets

CONSTANTS Hosts,      \* the endpoints (host, port and user) a profile may name
          Missing,    \* no file, no database, no login, no dialog
          Damaged,    \* a file the loader refuses
          NoHost,     \* the blank host of a profile that is being entered
          Blank,      \* empty login fields
          Fresh,      \* a login typed since the fields were filled
          MaxTabs, MaxIds,
          MaxSaves, MaxFaults, MaxCrashes, MaxTampers   \* bounds of a run

ASSUME BoundsAssumption == MaxTabs \in Nat \ {0} /\ MaxIds \in Nat
ASSUME SpecialValues == /\ Missing # Damaged
                        /\ {NoHost, Blank, Fresh} \cap Hosts = {}
                        /\ Cardinality({Missing, Damaged, NoHost, Blank, Fresh}) = 5

VARIABLES disk,     \* what each configuration file holds
          nova,     \* nova.json, the shared snapshot that Git replaces
          db,       \* the committed tables: [shared, local], Missing when closed
          txn,      \* the transaction being published, Missing when there is none
          vault,    \* the Credential Manager: the login saved for each profile
          dialog,   \* the server dialog: its copy of the profiles and its fields
          ids       \* profile identities given out
fileVars == <<disk, nova>>
uiVars == <<vault, dialog, ids>>

VARIABLES may,      \* what runtime.json is allowed to hold: the last saved document
                    \* and those of the saves that a crash or failure left open
          astray,   \* a published file could not be put back
          loose,    \* profile and login may differ: one of them could not be put
                    \* back, or the program died between the two
          saves, faults, crashes, tampers
history == <<may, astray, loose>>
bounds == <<saves, crashes, tampers>>
vars == <<disk, nova, db, txn, vault, dialog, ids, may, astray, loose,
          saves, faults, crashes, tampers>>

----------------------------------------------------------------------------
(* Documents.                                                              *)

Ids == 1..MaxIds
Profiles == UNION {[S -> Hosts] : S \in SUBSET Ids}
Tabs == 0..MaxTabs                  \* 0: the session was not migrated yet
SharedDoc == [count : Tabs, servers : Profiles]
LocalDoc == 0..(MaxTabs - 1)
Files == {"local", "runtime", "base", "seed"}
Tables == [shared : SharedDoc, local : LocalDoc]

Logins == [host : Hosts, key : Hosts]

\* No document is mistaken for a missing or a damaged one.
ASSUME DocumentValues ==
  {Missing, Damaged} \cap (UNION {SharedDoc, LocalDoc, Tables, Logins}) = {}

NoProfiles == [i \in {} |-> NoHost]
Empty == [shared |-> [count |-> 0, servers |-> NoProfiles], local |-> 0]

\* store_int(.., Count, 1): a missing count reads as one tab.
Count(shared) == IF shared.count = 0 THEN 1 ELSE shared.count

AsSaved(shared, selected) == selected        \* a mistake: checked in one file only

\* config_json_load_local: a selection beyond the tabs becomes the first tab.
Normalised(shared, selected) == IF selected >= Count(shared) THEN 0 ELSE selected

----------------------------------------------------------------------------
(* Opening.                                                                *)

MustMigrate == disk["runtime"] = Missing

\* config_json_load: which shared document is read, Damaged when it is refused.
\* A baseline without runtime data is a deletion, never a first use.
Source == CASE ~MustMigrate -> disk["runtime"]
            [] MustMigrate /\ disk["base"] # Missing -> Damaged
            [] MustMigrate /\ disk["base"] = Missing ->
                 IF nova \in {Missing, Damaged} THEN nova ELSE nova.shared

\* Neither a runtime nor an initialised snapshot: the legacy files, here empty.
LoadedShared == IF Source = Missing THEN Empty.shared ELSE Source

\* Selections in an old snapshot are overridden by local.json, when it exists.
LoadedLocal ==
  CASE disk["local"] \in LocalDoc -> Normalised(LoadedShared, disk["local"])
    [] disk["local"] = Missing -> IF MustMigrate /\ nova \in Tables THEN nova.local ELSE 0

Loaded == [shared |-> LoadedShared, local |-> LoadedLocal]

\* validate_preferences, and the loaders of the collections, refuse the rest.
Loadable == /\ Source # Damaged
            /\ disk["local"] # Damaged
            /\ LoadedLocal < Count(LoadedShared)

\* runtime_migration, or config_json_load_local changed a selection.
Republish == MustMigrate \/ (disk["local"] # Missing /\ disk["local"] # LoadedLocal)

----------------------------------------------------------------------------
(* A transaction.  The tables change in memory, in the transaction that    *)
(* config_json_commit commits only after every file is published.          *)

\* The first publication adds the merge baseline and the seed.
Wanted(want) ==
  [f \in Files |-> CASE f = "local" -> want.local
                     [] f = "runtime" -> want.shared
                     [] OTHER -> IF MustMigrate THEN want.shared ELSE disk[f]]

\* Files whose bytes are already right are not replaced.
Changed(want) == {f \in Files : Wanted(want)[f] # disk[f]}

Rank == [local |-> 1, runtime |-> 2, base |-> 3, seed |-> 4]
FirstOf(S) == CHOOSE f \in S : \A g \in S : Rank[f] <= Rank[g]
LastOf(S) == CHOOSE f \in S : \A g \in S : Rank[g] <= Rank[f]

\* What the transaction is for; "then" is what the dialog does once it is saved.
Task(kind, id, then) == [kind |-> kind, id |-> id, then |-> then]
TaskDomain == [kind : {"open", "session", "server"}, id : 0..MaxIds,
               then : {"stay", "connect", "next", "new", "removed"}]
Stored(f) == (IF f = "local" THEN LocalDoc ELSE SharedDoc) \cup {Missing, Damaged}
IsDisk(files) == /\ files = [f \in Files |-> files[f]]
                 /\ \A f \in Files : files[f] \in Stored(f)
Transactions(to, from) ==
  [task : TaskDomain, want : Tables, todo : SUBSET Files, done : SUBSET Files,
   to : to, from : from, undo : BOOLEAN, login : Logins \cup {Missing}]

\* No transaction is mistaken for none.
AnyDisk == [Files -> UNION {SharedDoc, LocalDoc, {Missing, Damaged}}]
ASSUME TransactionValues == Missing \notin Transactions(AnyDisk, AnyDisk)

\* store_begin .. store_end, up to the preparation of the temporary files.
\* previous is the snapshot of the login, for the server dialog.
Transaction(task, want, previous) ==
  [task |-> task, want |-> want, todo |-> Changed(want), done |-> {},
   to |-> Wanted(want), from |-> disk, undo |-> FALSE, login |-> previous]

Begin(task, want, previous) ==
  /\ txn' = Transaction(task, want, previous)
  /\ may' = may \cup {want.shared}

Fail == faults < MaxFaults /\ faults' = faults + 1
Works == UNCHANGED faults

\* A statement, a snapshot or a temporary file fails, before anything is
\* published: the transaction is rolled back.
PrepareFails ==
  /\ txn # Missing /\ txn.done = {} /\ ~txn.undo /\ Fail
  /\ txn' = [txn EXCEPT !.undo = TRUE]
  /\ UNCHANGED <<fileVars, db, uiVars, history, bounds>>

\* ReplaceFileW or MoveFileExW, local.json first.  One that fails leaves the file
\* as it was: ReplaceFileW failing after it moved the original aside, which
\* config_json.c 220 does not put back as published is FALSE (213), is left out.
Publish ==
  /\ txn # Missing /\ ~txn.undo /\ txn.todo # {}
  /\ LET f == FirstOf(txn.todo) IN
       \/ /\ disk' = [disk EXCEPT ![f] = txn.to[f]]
          /\ txn' = [txn EXCEPT !.todo = @ \ {f}, !.done = @ \cup {f}]
          /\ Works
       \/ /\ txn' = [txn EXCEPT !.undo = TRUE] /\ Fail
          /\ UNCHANGED disk
  /\ UNCHANGED <<nova, db, uiVars, history, bounds>>

CommitFails ==
  /\ txn # Missing /\ ~txn.undo /\ txn.todo = {} /\ Fail
  /\ txn' = [txn EXCEPT !.undo = TRUE]
  /\ UNCHANGED <<fileVars, db, uiVars, history, bounds>>

FirstKept(f) == IF f = "local" THEN txn.to[f] ELSE txn.from[f]   \* a mistake

\* The published files are put back, the last one first; a failure is logged.
Restored(f) == txn.from[f]
Undo ==
  /\ txn # Missing /\ txn.undo /\ txn.done # {}
  /\ LET f == LastOf(txn.done) IN
       /\ txn' = [txn EXCEPT !.done = @ \ {f}]
       /\ \/ /\ disk' = [disk EXCEPT ![f] = Restored(f)]
             /\ UNCHANGED <<astray, loose>> /\ Works
          \/ /\ astray' = TRUE /\ loose' = (loose \/ txn.task.kind = "server") /\ Fail
             /\ UNCHANGED disk
  /\ UNCHANGED <<nova, db, uiVars, may, bounds>>

----------------------------------------------------------------------------
(* The server dialog.                                                      *)

\* ssh_credentials_load: a login never follows a changed endpoint.
Recalled(id, host) ==
  IF vault[id] # Missing /\ vault[id].host = host THEN vault[id].key ELSE Blank

\* The profiles of the form may name no host yet.
Entered == UNION {[S -> Hosts \cup {NoHost}] : S \in SUBSET Ids}
Forms == [servers : Entered, id : 0..MaxIds, host : Hosts \cup {NoHost},
          key : Hosts \cup {Blank, Fresh}, loaded : BOOLEAN]

\* server_fields, with the login that was read (Blank when it could not be).
Fields(servers, id, key) ==
  [servers |-> servers, id |-> id,
   host |-> IF id = 0 THEN NoHost ELSE servers[id],
   key |-> key, loaded |-> key # Blank]

\* The profile that takes the place of a removed one in the list: the next one,
\* or the last; none in an empty list.
Neighbours(servers, id) ==
  IF DOMAIN servers = {} THEN {0}
  ELSE {i \in DOMAIN servers :
          \A j \in DOMAIN servers : IF i > id THEN j > id => i <= j ELSE j <= i}

\* server_fields reads the login of the profile; reading it may fail.
Show(servers, id) ==
  \/ /\ dialog' = Fields(servers, id,
          IF id = 0 \/ servers[id] = NoHost THEN Blank ELSE Recalled(id, servers[id]))
     /\ Works
  \/ /\ id # 0 /\ servers[id] # NoHost /\ Fail
     /\ dialog' = Fields(servers, id, Blank)

\* The dialog on an empty collection starts with a new profile.
WithNew(servers) == [i \in DOMAIN servers \cup {ids + 1} |->
                       IF i = ids + 1 THEN NoHost ELSE servers[i]]
Idle == db # Missing /\ txn = Missing

\* The window opens when the session of the file panes is there.
Ready == Idle /\ db.shared.count # 0

\* It opens on the first profile, or on the one of a remote tab.
OpenDialog ==
  /\ Ready /\ dialog = Missing
  /\ IF db.shared.servers = NoProfiles
     THEN /\ ids < MaxIds /\ ids' = ids + 1
          /\ Show(WithNew(NoProfiles), ids + 1)
     ELSE /\ \E i \in DOMAIN db.shared.servers : Show(db.shared.servers, i)
          /\ UNCHANGED ids
  /\ UNCHANGED <<fileVars, db, txn, vault, history, bounds>>

CloseDialog ==
  /\ Ready /\ dialog # Missing
  /\ dialog' = Missing
  /\ UNCHANGED <<fileVars, db, txn, vault, ids, history, bounds>> /\ Works

KeepsLogin(h) == [dialog EXCEPT !.host = h]  \* a mistake: the fields stay filled

\* EN_CHANGE of host, port or user: a login that was recalled is cleared.
AfterEdit(h) ==
  IF dialog.loaded THEN [dialog EXCEPT !.host = h, !.loaded = FALSE, !.key = Blank]
                   ELSE [dialog EXCEPT !.host = h]
EditHost ==
  /\ Ready /\ dialog # Missing /\ dialog.id # 0
  /\ \E h \in Hosts \ {dialog.host} : dialog' = AfterEdit(h)
  /\ UNCHANGED <<fileVars, db, txn, vault, ids, history, bounds>> /\ Works

TypeLogin ==
  /\ Ready /\ dialog # Missing /\ dialog.id # 0
  /\ \E k \in {Blank, Fresh} : dialog' = [dialog EXCEPT !.key = k]
  /\ UNCHANGED <<fileVars, db, txn, vault, ids, history, bounds>> /\ Works

\* ssh_servers_valid: every profile of the collection names a host.
Valid(servers) == \A i \in DOMAIN servers : servers[i] # NoHost

\* ssh_credentials_save: the typed or recalled login, now of this endpoint;
\* empty fields delete the saved one.
LoginOf(host, key) ==
  CASE key = Blank -> Missing
    [] key = Fresh -> [host |-> host, key |-> host]
    [] OTHER -> [host |-> host, key |-> key]

\* persist_server_change: the login is written first, then the configuration.
\* A login that cannot be read or written ends it there.
Persist(servers, id, login, then) ==
  /\ saves < MaxSaves /\ saves' = saves + 1
  /\ Valid(servers)
  /\ \/ /\ vault' = [vault EXCEPT ![id] = login]
        /\ Begin(Task("server", id, then),
                 [db EXCEPT !.shared.servers = servers], vault[id])
        /\ Works
     \/ /\ Fail /\ UNCHANGED <<vault, txn, may>>
  /\ UNCHANGED <<fileVars, db, dialog, ids, astray, loose, crashes, tampers>>

\* save_server, for Save, Connect, another selection or New.
SaveServer(then) ==
  /\ Ready /\ dialog # Missing /\ dialog.id # 0
  /\ then = "connect" => dialog.key # Blank
  /\ then = "next" => DOMAIN dialog.servers # {dialog.id}
  /\ then = "new" => ids < MaxIds
  /\ Persist([dialog.servers EXCEPT ![dialog.id] = dialog.host], dialog.id,
             LoginOf(dialog.host, dialog.key), then)

RemoveServer ==
  /\ Ready /\ dialog # Missing /\ dialog.id # 0
  /\ Persist([i \in DOMAIN dialog.servers \ {dialog.id} |-> dialog.servers[i]],
             dialog.id, Missing, "removed")

\* New, when nothing is selected: there is nothing to save first.
NewServer ==
  /\ Ready /\ dialog # Missing /\ dialog.id = 0 /\ ids < MaxIds
  /\ ids' = ids + 1 /\ Show(WithNew(dialog.servers), ids + 1)
  /\ UNCHANGED <<fileVars, db, txn, vault, history, bounds>>

ForgetLogin ==
  /\ Ready /\ dialog # Missing /\ dialog.id # 0
  /\ \/ /\ vault' = [vault EXCEPT ![dialog.id] = Missing]
        /\ dialog' = [dialog EXCEPT !.loaded = FALSE, !.key = Blank] /\ Works
     \/ /\ Fail /\ UNCHANGED <<vault, dialog>>
  /\ UNCHANGED <<fileVars, db, txn, ids, history, bounds>>

----------------------------------------------------------------------------
(* The end of a transaction.                                               *)

\* What the dialog does with a profile that is saved.
DialogSaved ==
  LET servers == txn.want.shared.servers
      others == DOMAIN servers \ {txn.task.id}
  IN CASE txn.task.then = "stay" ->
            /\ dialog' = [dialog EXCEPT !.servers = servers, !.loaded = dialog.key # Blank,
                            !.key = IF @ = Blank THEN Blank ELSE dialog.host]
            /\ UNCHANGED ids /\ Works
       [] txn.task.then = "connect" -> dialog' = Missing /\ UNCHANGED ids /\ Works
       [] txn.task.then = "next" -> (\E i \in others : Show(servers, i)) /\ UNCHANGED ids
       [] txn.task.then = "new" -> Show(WithNew(servers), ids + 1) /\ ids' = ids + 1
       [] txn.task.then = "removed" -> (\E i \in Neighbours(servers, txn.task.id) : Show(servers, i)) /\ UNCHANGED ids

\* COMMIT in memory, after every file is published.
Committed ==
  /\ txn # Missing /\ ~txn.undo /\ txn.todo = {}
  /\ db' = txn.want /\ txn' = Missing
  /\ may' = {txn.want.shared} /\ astray' = FALSE
  /\ IF txn.task.kind = "server" THEN DialogSaved
     ELSE UNCHANGED <<dialog, ids>> /\ Works
  /\ UNCHANGED <<fileVars, vault, loose, bounds>>

\* A failed save: memory was rolled back, the previous login is written again;
\* a store that could not be opened, or whose session could not be migrated, is
\* closed and the program ends.
GivenBack == txn.login
RolledBack ==
  /\ txn # Missing /\ txn.undo /\ txn.done = {}
  /\ txn' = Missing
  /\ may' = IF astray THEN may ELSE {disk["runtime"]}
  /\ db' = IF txn.task.kind = "open" \/ db.shared.count = 0 THEN Missing ELSE db
  /\ IF txn.task.kind = "server"
     THEN \/ /\ vault' = [vault EXCEPT ![txn.task.id] = GivenBack]
             /\ UNCHANGED loose /\ Works
          \/ /\ loose' = TRUE /\ Fail
             /\ UNCHANGED vault
     ELSE UNCHANGED <<vault, loose>> /\ Works
  /\ UNCHANGED <<fileVars, dialog, ids, astray, bounds>>

----------------------------------------------------------------------------
(* The program.                                                            *)

\* store_open: the files are read and checked; what had to be migrated or
\* normalised is published at once, or the store is closed again.
Open ==
  /\ db = Missing /\ Loadable
  /\ db' = Loaded
  /\ IF Republish
     THEN /\ txn' = Transaction(Task("open", 0, "stay"), Loaded, Missing)
          /\ may' = {disk["runtime"], Loaded.shared}
     ELSE /\ may' = {disk["runtime"]}
          /\ UNCHANGED txn
  /\ astray' = FALSE
  /\ UNCHANGED <<fileVars, uiVars, loose, bounds>> /\ Works

\* flush_session, and migrate_session at the first start: the tabs of the pane
\* and its selection, of two files, in one transaction.
SaveSession ==
  /\ Idle /\ saves < MaxSaves /\ saves' = saves + 1
  /\ \E n \in 1..MaxTabs : \E selected \in 0..(n - 1) :
       /\ Begin(Task("session", 0, "stay"),
                [shared |-> [db.shared EXCEPT !.count = n], local |-> selected], Missing)
  /\ UNCHANGED <<fileVars, db, uiVars, astray, loose, crashes, tampers>> /\ Works

\* The program ends or dies, in the middle of a publication too.
Stop ==
  /\ db # Missing /\ crashes < MaxCrashes /\ crashes' = crashes + 1
  /\ db' = Missing /\ txn' = Missing /\ dialog' = Missing
  /\ loose' = (loose \/ (txn # Missing /\ txn.task.kind = "server"))
  /\ UNCHANGED <<fileVars, vault, ids, may, astray, saves, tampers>> /\ Works

\* While NOVA is closed: a file is damaged or deleted, or Git replaces the snapshot.
Tamper ==
  /\ db = Missing /\ tampers < MaxTampers /\ tampers' = tampers + 1
  /\ \/ /\ \E d \in {Missing, Damaged} :
             /\ disk' = [disk EXCEPT !["runtime"] = d] /\ may' = {d}
        /\ UNCHANGED nova
     \/ /\ disk' = [disk EXCEPT !["local"] = Damaged] /\ UNCHANGED <<nova, may>>
     \/ /\ nova' = Damaged /\ UNCHANGED <<disk, may>>
     \/ /\ \E n \in 1..MaxTabs :
             nova' = [shared |-> [count |-> n, servers |-> NoProfiles], local |-> 0]
        /\ UNCHANGED <<disk, may>>
  /\ UNCHANGED <<db, txn, uiVars, astray, loose, saves, crashes>> /\ Works

Init ==
  /\ disk = [f \in Files |-> Missing]
  /\ nova \in {Missing, [shared |-> [count |-> MaxTabs, servers |-> NoProfiles],
                         local |-> MaxTabs - 1]}
  /\ db = Missing /\ txn = Missing
  /\ vault = [i \in Ids |-> Missing] /\ dialog = Missing /\ ids = 0
  /\ may = {Missing} /\ astray = FALSE /\ loose = FALSE
  /\ saves = 0 /\ faults = 0 /\ crashes = 0 /\ tampers = 0

Save == SaveSession \/ RemoveServer \/ \E then \in {"stay", "connect", "next", "new"} : SaveServer(then)
Store == PrepareFails \/ Publish \/ CommitFails \/ Undo \/ Committed \/ RolledBack
Form == OpenDialog \/ CloseDialog \/ EditHost \/ TypeLogin \/ NewServer \/ ForgetLogin
Next == Open \/ Save \/ Store \/ Form \/ Stop \/ Tamper

Spec == Init /\ [][Next]_vars

----------------------------------------------------------------------------
(* Properties.                                                             *)

\* The types of the variables.
TypeOK ==
  /\ IsDisk(disk)
  /\ nova \in Tables \cup {Missing, Damaged}
  /\ db \in Tables \cup {Missing}
  /\ txn # Missing => /\ txn \in Transactions({txn.to}, {txn.from})
                      /\ IsDisk(txn.to) /\ IsDisk(txn.from)
  /\ vault \in [Ids -> Logins \cup {Missing}]
  /\ dialog \in Forms \cup {Missing}
  /\ ids \in 0..MaxIds

\* A reported save is what the next start finds and a failed one leaves no
\* trace, through failures of every step (a replacement fails as a whole, see
\* Publish) and a crash between any two: the
\* shared file holds the last saved document or one whose save a crash or a
\* failed restoration left open, whatever became of nova.json, and a damaged or
\* deleted file is never written over; between transactions a start would load
\* what the tables in memory hold (store_end, config_json_commit, config_json_load).
SavesAreDurable ==
  /\ disk["runtime"] \in may
  /\ Idle /\ ~astray => Loadable /\ Loaded = db

\* Whatever crash or failing step interrupts publications, of two files and at
\* the first start of four, the next start accepts the files: the selection of
\* one against the tabs of the other, and no baseline without runtime data.  (A
\* file that could not be put back, or that somebody damaged, may be refused; a
\* ReplaceFileW that fails with a partial effect is not among the failures.)
AlwaysOpens == ~astray /\ tampers = 0 => Loadable

\* A login that was saved for an endpoint is never shown for another one, and
\* between transactions the login on record belongs to the endpoint of the saved
\* profile although the two are written one after the other: a failed
\* configuration write gives the previous login back (persist_server_change,
\* ssh_credentials_load; README.md:251-256).
LoginsStayHome ==
  /\ dialog # Missing /\ dialog.key \in Hosts => dialog.key = dialog.host
  /\ Idle /\ ~loose =>
       \A i \in DOMAIN db.shared.servers :
         vault[i] # Missing => vault[i].host = db.shared.servers[i]

\* The first publication leaves the merge baseline beside the runtime data
\* (ARCHITECTURE.md:62): deployment/config_snapshot.ps1:52 asks for it and names
\* a start of NOVA as the remedy when it is not there.
BaselineAccompanies ==
  Idle /\ tampers = 0 /\ ~astray => disk["base"] # Missing
=============================================================================
