------------------------- MODULE QueueMigrationProofs -------------------------
(***************************************************************************)
(* Theorems about moving queues, for any servers, computers and tokens,    *)
(* any files and any number of writes, quits and broken sessions.          *)
(***************************************************************************)
EXTENDS QueueMigration, TLAPS

-----------------------------------------------------------------------------
(* What the types rest on: a received file is staged, whole. *)

\* transfer.sqlite3 records a file only when its digest agrees, and a staged
\* file that agrees is neither emptied nor appended to.
ReceivedIsStaged ==
    \A t \in Token, f \in File :
        received[t][f] # None => Verified(staged[t][f], received[t][f])

\* A queue is renamed away only when all files of the staged one are received.
Complete(t) == \A f \in File : received[t][f] # None
MissingIsComplete ==
    \A d \in Server : phase[d] = "MISSING" => token[d] \in Token /\ Complete(token[d])

MigrationInv == TypeOK /\ ReceivedIsStaged /\ MissingIsComplete

-----------------------------------------------------------------------------
(* Routes: a token belongs to one source and one destination. *)

Moving == {"EXPORTING", "REDIRECT"}
Arriving == {"IMPORTING", "PREPARED", "MISSING"}
Lead == {"PREPARED", "ACTIVE", "EXPORTING", "REDIRECT"}

\* The records of the servers agree with the routes of the tokens.
RoutedQueues(from, to) ==
    \A x \in Server :
        /\ token[x] # None => /\ token[x] \in issued
                              /\ x \in {from[token[x]], to[token[x]]}
        /\ phase[x] \in Moving => /\ token[x] # None
                                  /\ from[token[x]] = x /\ destination[x] = to[token[x]]
        /\ phase[x] \in Arriving => /\ token[x] # None
                                    /\ to[token[x]] = x /\ previous[x] = from[token[x]]

RoutedClients(from, to) ==
    \A c \in Client : journal[c] # None =>
        /\ journal[c].token \in issued
        /\ journal[c].src = from[journal[c].token] /\ journal[c].dst = to[journal[c].token]

RoutedRequests(from, to) ==
    \A r \in late : /\ r.token \in issued
                    /\ r.src = from[r.token] /\ r.dst = to[r.token]

Routed(from, to) ==
    /\ \A t \in issued : from[t] # to[t]
    /\ RoutedClients(from, to) /\ RoutedRequests(from, to)

-----------------------------------------------------------------------------
(* Facts that hold from some point of a migration on. *)

Written(q) == \E f \in File : q[f].tag > 0

\* A queue with records, in use or given up: it can no longer be replaced.
Settled(x) == phase[x] \in {"ACTIVE", "EXPORTING", "REDIRECT"} /\ Written(files[x])

\* The queue of the destination was installed by this migration.
Arrived(from, to, t) ==
    /\ previous[to[t]] = from[t]
    /\ phase[to[t]] \in Lead /\ Written(files[to[t]])
    /\ phase[to[t]] = "PREPARED" => token[to[t]] = t

\* The source refuses rollback.
GivenUp(from, t) == phase[from[t]] = "REDIRECT" /\ token[from[t]] = t

-----------------------------------------------------------------------------
(* The queues. *)

EmptyOrWritten == \A x \in Server : files[x] = EmptyQueue \/ Written(files[x])

SourcesSettled(from) == \A x \in Server : token[x] # None => Settled(from[token[x]])

\* An import keeps the cluster identity of its source.
SameCluster == \A x \in Server : phase[x] \in Arriving => cluster[x] = cluster[previous[x]]

InstalledArrived(from, to) ==
    \A t \in issued :
        \/ token[to[t]] = t /\ phase[to[t]] \in {"PREPARED", "ACTIVE"}
        \/ GivenUp(from, t)
        => Arrived(from, to, t)

\* The queues that accept requests, may do so again, or will do so next.
InUse(x) == phase[x] \in {"ACTIVE", "EXPORTING"}
Heir(x) == /\ phase[x] \in Arriving
           /\ phase[previous[x]] = "REDIRECT" /\ token[previous[x]] = token[x]
Holds(x) == InUse(x) \/ Heir(x)

OneHolder ==
    \A x, y \in Server : Holds(x) /\ Holds(y) /\ cluster[x] = cluster[y] => x = y

QueuesInv(from, to) ==
    /\ RoutedQueues(from, to)
    /\ EmptyOrWritten /\ SourcesSettled(from) /\ SameCluster
    /\ InstalledArrived(from, to) /\ OneHolder

-----------------------------------------------------------------------------
(* The requests, sent or delayed, and what their senders were told. *)

Holding(c, t) == journal[c] # None /\ journal[c].token = t

Pending(op, t) ==
    \/ \E r \in late : r.op = op /\ r.token = t
    \/ \E c \in Client : Holding(c, t) /\ pc[c] = op

Later == Ops \ {"export_begin", "export_abort"}

\* export_begin of the token was accepted once.
Begun(t) ==
    \/ \E op \in Later : Pending(op, t)
    \/ \E x \in Server : token[x] = t
    \/ snapshot[t] # None \/ \E f \in File : staged[t][f] # <<>>

\* A file that was written before the first snapshot, so in every copy.
WarmCopies(from, t, f) ==
    /\ Settled(from[t]) /\ files[from[t]][f].tag > 0
    /\ snapshot[t] # None => snapshot[t][f].tag > 0
    /\ \A i \in 1 .. Len(staged[t][f]) : staged[t][f][i] > 0
Warm(from, t, f) ==
    /\ WarmCopies(from, t, f)
    /\ \A r \in late : r.op = "import_put" /\ r.token = t /\ r.arg.file = f => r.arg.tag > 0

SourceIsWarm(from) == \A t \in issued : Begun(t) => \E f \in File : Warm(from, t, f)

CommitsArrived(from, to) ==
    \A t \in issued : Pending("export_commit", t) => Arrived(from, to, t)

\* A client activates after the source redirects, or found it redirecting.
MayActivateNext(t) ==
    \/ Pending("import_activate", t)
    \/ \E c \in Client : Holding(c, t) /\ pc[c] = "import_begin" /\ seen[c].phase # "EXPORTING"

ActivatesGivenUp(from) == \A t \in issued : MayActivateNext(t) => GivenUp(from, t)

\* Nothing on disk has the name of a token not yet drawn.
FreshTokens ==
    \A t \in Token \ issued : snapshot[t] = None /\ \A f \in File : staged[t][f] = <<>>

RequestsInv(from, to) ==
    /\ FreshTokens
    /\ SourceIsWarm(from) /\ CommitsArrived(from, to) /\ ActivatesGivenUp(from)

Route == [Token -> Server]

\* No token is followed along two routes.
OrderInv == \E from, to \in Route :
    Routed(from, to) /\ QueuesInv(from, to) /\ RequestsInv(from, to)

-----------------------------------------------------------------------------
(* Types *)

ControlsOK ==
    /\ phase \in [Server -> {"ACTIVE", "EXPORTING", "REDIRECT", "IMPORTING",
                             "PREPARED", "MISSING"}]
    /\ token \in [Server -> Token \union {None}]
    /\ destination \in [Server -> Server \union {None}]
    /\ \A s \in Server : phase[s] \in {"EXPORTING", "REDIRECT"} => destination[s] \in Server
    /\ previous \in [Server -> Server \union {None}]
    /\ cluster \in [Server -> Server]

CopiesOK ==
    /\ snapshot \in [Token -> Queue \union {None}]
    /\ retained \in [Token -> SUBSET Queue]
    /\ plan \in [Token -> Sizes \union {None}]
    /\ received \in [Token -> [File -> Content \union {None}]]
    /\ staged \in [Token -> [File -> Seq(0 .. MaxWrites)]]
    /\ \A t \in Token, f \in File : Len(staged[t][f]) <= MaxSize

\* The part of MigrationInv that is about the servers.
ServersOK ==
    /\ ControlsOK /\ files \in [Server -> Queue] /\ CopiesOK
    /\ ReceivedIsStaged /\ MissingIsComplete

ClientsOK ==
    /\ server \in [Client -> Server]
    /\ journal \in [Client -> Ticket \union {None}]
    /\ pc \in [Client -> Ops \union {"idle", "switch", "switched", "restored"}]
    /\ \A c \in Client : pc[c] # "idle" => journal[c] # None
    /\ seen \in [Client -> Answer] /\ cursor \in [Client -> Cursor]
    /\ \A r \in late : WellFormed(r)
    /\ issued \subseteq Token /\ breaks \in 0 .. faults
    /\ writes \in 0 .. MaxWrites /\ quits \in 0 .. MaxQuits /\ faults \in 0 .. MaxFaults

LEMMA InvParts == MigrationInv <=> ServersOK /\ ClientsOK
BY DEF MigrationInv, TypeOK, ServersOK, ControlsOK, CopiesOK, ClientsOK

\* A queue just deployed is a queue.
LEMMA EmptyQueueType ==
    /\ EmptyQueue \in Queue /\ 1 \in File /\ EmptyQueue[1] \in Content
    /\ \A q \in Queue : SizesOf(q) \in Sizes
<1>1. [tag |-> 0, size |-> 1] \in Content /\ 1 \in File
  BY MigrationAssumption DEF Content, File
<1>2. ASSUME NEW q \in Queue PROVE SizesOf(q) \in Sizes
  BY DEF Queue, Sizes, SizesOf, Content
<1> QED BY <1>1, <1>2 DEF EmptyQueue, Queue

\* A copy whose digest agrees has a packet, and the size announced.
LEMMA VerifiedPackets ==
    ASSUME NEW p \in Seq(0 .. MaxWrites), NEW sha \in Content, Verified(p, sha)
    PROVE  Len(p) = sha.size /\ p # <<>> /\ p[1] = sha.tag
<1>1. sha.size \in Nat \ {0}
  BY MigrationAssumption DEF Content
<1>2. Len([i \in 1 .. sha.size |-> sha.tag]) = sha.size
  BY <1>1
<1> QED BY <1>1, <1>2 DEF Verified

\* A queue whose files are all received is a queue.
LEMMA StagedType ==
    ASSUME CopiesOK, ReceivedIsStaged, NEW t \in Token, Complete(t)
    PROVE  StagedQueue(t) \in Queue
<1>1. ASSUME NEW f \in File
      PROVE  [tag |-> staged[t][f][1], size |-> Len(staged[t][f])] \in Content
  <2>1. received[t][f] \in Content /\ Verified(staged[t][f], received[t][f])
    BY MigrationAssumption DEF CopiesOK, ReceivedIsStaged, Complete
  <2>2. staged[t][f] \in Seq(0 .. MaxWrites)
    BY DEF CopiesOK
  <2>3. Len(staged[t][f]) = received[t][f].size /\ staged[t][f][1] = received[t][f].tag
    BY <2>1, <2>2, VerifiedPackets
  <2> QED BY <2>1, <2>3 DEF Content
<1> QED BY <1>1 DEF StagedQueue, Queue

LEMMA InitMigrationInv == Init => MigrationInv
<1> SUFFICES ASSUME Init PROVE MigrationInv
  OBVIOUS
<1>1. ServersOK
  <2>1. ControlsOK /\ MissingIsComplete
    BY DEF Init, ControlsOK, MissingIsComplete
  <2>2. CopiesOK /\ ReceivedIsStaged
    <3>1. [f \in File |-> <<>>] \in [File -> Seq(0 .. MaxWrites)] /\ Len(<<>>) = 0
      OBVIOUS
    <3>2. staged \in [Token -> [File -> Seq(0 .. MaxWrites)]]
      BY <3>1 DEF Init
    <3>3. \A t \in Token, f \in File : Len(staged[t][f]) <= MaxSize /\ received[t][f] = None
      BY MigrationAssumption DEF Init
    <3>4. received \in [Token -> [File -> Content \union {None}]]
      BY DEF Init
    <3> QED BY <3>2, <3>3, <3>4 DEF Init, CopiesOK, ReceivedIsStaged
  <2> QED BY <2>1, <2>2, EmptyQueueType DEF ServersOK, Init
<1>2. ClientsOK
  <2>1. [sizes |-> SizesOf(EmptyQueue), phase |-> "EXPORTING"] \in Answer
    BY EmptyQueueType DEF Answer
  <2>2. [file |-> 1, offset |-> 0, sha |-> EmptyQueue[1]] \in Cursor
    BY EmptyQueueType, MigrationAssumption DEF Cursor
  <2> QED BY <2>1, <2>2, MigrationAssumption DEF Init, ClientsOK
<1> QED BY <1>1, <1>2, InvParts

LEMMA ServersUnchanged == ServersOK /\ UNCHANGED serverVars => ServersOK'
BY DEF ServersOK, ControlsOK, CopiesOK, ReceivedIsStaged, MissingIsComplete, Complete,
       serverVars, controlVars, exportVars, importVars

\* Only the control records change, and no queue goes missing.
LEMMA ControlsChange ==
    ASSUME ServersOK, ControlsOK', UNCHANGED <<files, importVars>>,
           CopiesOK',
           \A d \in Server : phase'[d] = "MISSING" => phase[d] = "MISSING" /\ token'[d] = token[d]
    PROVE  ServersOK'
BY DEF ServersOK, ReceivedIsStaged, MissingIsComplete, Complete, importVars

LEMMA WriteTypes ==
    ASSUME ServersOK, writes \in 0 .. MaxWrites, NEW s \in Server, Write(s)
    PROVE  ServersOK' /\ writes' \in 0 .. MaxWrites
<1>1. PICK others \in SUBSET (File \ {1}), sizes \in Sizes :
          files' = [files EXCEPT ![s] = [f \in File |->
                       IF f \in others \union {1}
                       THEN [tag |-> writes + 1, size |-> sizes[f]]
                       ELSE files[s][f]]]
  BY DEF Write
<1>2. writes + 1 \in 0 .. MaxWrites /\ writes' \in 0 .. MaxWrites
  BY MigrationAssumption DEF Write
<1> DEFINE q == [f \in File |-> IF f \in others \union {1}
                                THEN [tag |-> writes + 1, size |-> sizes[f]]
                                ELSE files[s][f]]
<1>3. q \in Queue /\ files' = [files EXCEPT ![s] = q]
  BY <1>1, <1>2 DEF Content, Queue, Sizes, ServersOK
<1> HIDE DEF q
<1>4. files' \in [Server -> Queue]
  BY <1>3 DEF ServersOK
<1> QED
  BY <1>2, <1>4 DEF Write, ServersOK, ControlsOK, CopiesOK, ReceivedIsStaged,
     MissingIsComplete, Complete, controlVars, exportVars, importVars

LEMMA FreezeTypes ==
    ASSUME ControlsOK, NEW s \in Server, NEW t \in Token, NEW d \in Server, Freeze(s, t, d)
    PROVE  ControlsOK'
BY DEF ControlsOK, Freeze

LEMMA ExportBeginTypes ==
    ASSUME ServersOK, NEW s \in Server, NEW t \in Token, NEW d \in Server,
           ExportBegin(s, t, d) \/ ExportBeginCrash(s, t, d)
    PROVE  ServersOK'
<1>1. UNCHANGED <<files, importVars>>
  BY DEF ExportBegin, ExportBeginCrash
<1>2. Freeze(s, t, d) \/ UNCHANGED controlVars
  BY DEF ExportBegin, ExportBeginCrash
<1>3. ControlsOK'
  BY <1>2, FreezeTypes DEF ServersOK, ControlsOK, controlVars
<1>4. \A x \in Server : phase'[x] = "MISSING" => phase[x] = "MISSING" /\ token'[x] = token[x]
  <2>1. CASE UNCHANGED controlVars
    BY <2>1 DEF controlVars
  <2>2. CASE Freeze(s, t, d)
    BY <2>2 DEF Freeze, ServersOK, ControlsOK
  <2> QED BY <1>2, <2>1, <2>2
<1>5. snapshot' \in [Token -> Queue \union {None}]
  <2>1. snapshot' = [snapshot EXCEPT ![t] = files[s]] \/ snapshot' = snapshot
        \/ snapshot' = [snapshot EXCEPT ![t] = None]
    BY DEF ExportBegin, ExportBeginCrash, ServersOK, CopiesOK
  <2> QED BY <2>1 DEF ServersOK, CopiesOK
<1>6. retained' \in [Token -> SUBSET Queue]
  BY DEF ExportBegin, ExportBeginCrash, SetAside, ServersOK, CopiesOK
<1>7. CopiesOK'
  BY <1>1, <1>5, <1>6 DEF CopiesOK, ServersOK, importVars
<1> QED BY <1>1, <1>3, <1>4, <1>7, ControlsChange

LEMMA PhaseTypes ==
    ASSUME ServersOK, NEW s \in Server, NEW p \in Lead,
           p = "ACTIVE" \/ phase[s] \in Moving,
           phase' = [phase EXCEPT ![s] = p],
           UNCHANGED <<token, destination, previous, cluster, files, exportVars, importVars>>
    PROVE  ServersOK'
<1>1. ControlsOK'
  BY DEF ServersOK, ControlsOK, Lead, Moving
<1>2. CopiesOK'
  BY DEF ServersOK, CopiesOK, exportVars, importVars
<1>3. \A x \in Server : phase'[x] = "MISSING" => phase[x] = "MISSING" /\ token'[x] = token[x]
  BY DEF ServersOK, ControlsOK, Lead
<1> QED BY <1>1, <1>2, <1>3, ControlsChange

LEMMA SourceTypes ==
    ASSUME ServersOK, NEW s \in Server, NEW t \in Token, NEW d \in Server,
           \/ ExportAbort(s, t) \/ ExportCommit(s, t, d)
           \/ ImportActivate(s, t, d)
    PROVE  ServersOK'
<1>1. CASE ExportAbort(s, t)
  BY <1>1, PhaseTypes DEF ExportAbort, Lead
<1>2. CASE ExportCommit(s, t, d)
  BY <1>2, PhaseTypes DEF ExportCommit, MayRedirect, Exporting, Lead, Moving
<1>3. CASE ImportActivate(s, t, d)
  BY <1>3, PhaseTypes DEF ImportActivate, Lead
<1> QED BY <1>1, <1>2, <1>3

LEMMA ImportBeginTypes ==
    ASSUME ServersOK, NEW d \in Server, NEW t \in Token, NEW s \in Server, NEW z \in Sizes,
           ImportBegin(d, t, s, z) \/ ImportBeginCrash(d, t, s, z)
    PROVE  ServersOK'
<1>1. Adopt(d, t, s) \/ UNCHANGED controlVars
  BY DEF ImportBegin, ImportBeginCrash, controlVars
<1>2. ControlsOK' /\ \A x \in Server :
          phase'[x] = "MISSING" => phase[x] = "MISSING" /\ token'[x] = token[x]
  <2>1. CASE UNCHANGED controlVars
    BY <2>1 DEF ServersOK, ControlsOK, controlVars
  <2>2. CASE Adopt(d, t, s) /\ phase[d] = "ACTIVE"
    BY <2>2 DEF ServersOK, ControlsOK, Adopt
  <2>3. CASE Adopt(d, t, s) /\ phase[d] # "ACTIVE"
    BY <2>3, <2>1 DEF Adopt
  <2> QED BY <1>1, <2>1, <2>2, <2>3
<1>3. plan' \in [Token -> Sizes \union {None}]
  BY DEF ImportBegin, ImportBeginCrash, ServersOK, CopiesOK, importVars
<1>4. UNCHANGED <<files, snapshot, retained, staged, received>>
  BY DEF ImportBegin, ImportBeginCrash, exportVars, importVars
<1>5. CopiesOK' /\ ReceivedIsStaged'
  BY <1>3, <1>4 DEF ServersOK, CopiesOK, ReceivedIsStaged
<1>6. MissingIsComplete'
  BY <1>2, <1>4 DEF ServersOK, MissingIsComplete, Complete
<1> QED BY <1>2, <1>4, <1>5, <1>6 DEF ServersOK

\* One entry of the table of received files, or of the staged ones, changes.
LEMMA OneFile ==
    ASSUME NEW S, NEW F \in [Token -> [File -> S]], NEW t \in Token, NEW f \in File, NEW x \in S
    PROVE  LET G == [F EXCEPT ![t][f] = x] IN
           /\ G \in [Token -> [File -> S]]
           /\ \A u \in Token, g \in File :
                 G[u][g] = IF u = t /\ g = f THEN x ELSE F[u][g]
<1> DEFINE G == [F EXCEPT ![t] = [F[t] EXCEPT ![f] = x]]
<1>1. [F[t] EXCEPT ![f] = x] \in [File -> S]
  OBVIOUS
<1>2. G \in [Token -> [File -> S]]
  BY <1>1
<1>3. ASSUME NEW u \in Token, NEW g \in File
      PROVE  G[u][g] = IF u = t /\ g = f THEN x ELSE F[u][g]
  <2>1. CASE u = t
    BY <2>1
  <2>2. CASE u # t
    BY <2>2
  <2> QED BY <2>1, <2>2
<1> QED BY <1>2, <1>3

\* A file that is received already stays as it is: it is whole and right.
LEMMA ImportQueryTypes ==
    ASSUME ServersOK, NEW d \in Server, NEW t \in Token, NEW f \in File, NEW sha \in Content,
           ImportQuery(d, t, f, sha)
    PROVE  ServersOK'
<1>1. ControlsOK' /\ files' \in [Server -> Queue]
  BY DEF ImportQuery, ServersOK, ControlsOK, controlVars
<1>2. \/ /\ Verified(staged[t][f], sha)
         /\ received' = [received EXCEPT ![t][f] = sha] /\ UNCHANGED staged
      \/ /\ ~Verified(staged[t][f], sha) /\ UNCHANGED received
         /\ staged' = staged \/ staged' = [staged EXCEPT ![t][f] = <<>>]
  BY DEF ImportQuery, ServersOK, CopiesOK
<1>3. received[t][f] \in {None, sha}
  BY DEF ImportQuery, MayPut
<1>4. staged' \in [Token -> [File -> Seq(0 .. MaxWrites)]]
      /\ \A u \in Token, g \in File : Len(staged'[u][g]) <= MaxSize
  <2>1. <<>> \in Seq(0 .. MaxWrites) /\ Len(<<>>) <= MaxSize
    BY MigrationAssumption
  <2>2. CASE staged' = [staged EXCEPT ![t][f] = <<>>]
    BY <2>1, <2>2 DEF ServersOK, CopiesOK
  <2>3. CASE staged' = staged
    BY <2>3 DEF ServersOK, CopiesOK
  <2> QED BY <1>2, <2>2, <2>3
<1>5. /\ received' \in [Token -> [File -> Content \union {None}]]
      /\ \A u \in Token, g \in File :
            received'[u][g] = IF u = t /\ g = f /\ Verified(staged[t][f], sha)
                              THEN sha ELSE received[u][g]
  <2>1. CASE ~Verified(staged[t][f], sha)
    BY <1>2, <2>1 DEF ServersOK, CopiesOK
  <2>2. CASE received' = [received EXCEPT ![t][f] = sha] /\ Verified(staged[t][f], sha)
    BY <2>2, OneFile DEF ServersOK, CopiesOK
  <2> QED BY <1>2, <2>1, <2>2
<1>6. CopiesOK'
  BY <1>4, <1>5 DEF ImportQuery, ServersOK, CopiesOK, exportVars
<1>7. ReceivedIsStaged'
  <2>1. ASSUME NEW u \in Token, NEW g \in File, received'[u][g] # None
        PROVE  Verified(staged'[u][g], received'[u][g])
    <3>1. CASE Verified(staged[t][f], sha)
      BY <1>2, <1>5, <2>1, <3>1 DEF ServersOK, ReceivedIsStaged
    <3>2. CASE ~Verified(staged[t][f], sha)
      <4>1. received[u][g] = received'[u][g] /\ Verified(staged[u][g], received[u][g])
        BY <1>5, <2>1, <3>2 DEF ServersOK, ReceivedIsStaged
      <4>2. u # t \/ g # f
        BY <1>3, <2>1, <3>2, <4>1
      <4>3. staged'[u][g] = staged[u][g]
        BY <1>2, <3>2, <4>2 DEF ServersOK, CopiesOK
      <4> QED BY <4>1, <4>3
    <3> QED BY <3>1, <3>2
  <2> QED BY <2>1 DEF ReceivedIsStaged
<1>8. MissingIsComplete'
  <2>1. ASSUME NEW u \in Token, NEW g \in File, received[u][g] # None
        PROVE  received'[u][g] # None
    BY <1>3, <1>5, <2>1
  <2> QED BY <2>1 DEF ServersOK, MissingIsComplete, Complete, ImportQuery, controlVars
<1> QED BY <1>1, <1>6, <1>7, <1>8 DEF ServersOK

LEMMA ImportPacketTypes ==
    ASSUME ServersOK, NEW d \in Server, NEW t \in Token, NEW f \in File, NEW sha \in Content,
           NEW n \in Nat, NEW tag \in 0 .. MaxWrites,
           ImportPacket(d, t, f, sha, n, tag) \/ ImportPacketCrash(d, t, f, sha, n, tag)
    PROVE  ServersOK'
<1>1. ControlsOK' /\ files' \in [Server -> Queue]
  BY DEF ImportPacket, ImportPacketCrash, ServersOK, ControlsOK, controlVars
<1> DEFINE p == Append(staged[t][f], tag)
<1>2. MayAppend(d, t, f, sha, n) /\ staged' = [staged EXCEPT ![t][f] = p]
  BY DEF ImportPacket, ImportPacketCrash, ServersOK, CopiesOK
<1>3. p \in Seq(0 .. MaxWrites) /\ Len(p) <= MaxSize
  <2>1. staged[t][f] \in Seq(0 .. MaxWrites) /\ sha.size \in 1 .. MaxSize
    BY DEF ServersOK, CopiesOK, Content
  <2>2. Len(p) = n + 1 /\ n < sha.size
    BY <1>2, <2>1 DEF MayAppend
  <2> QED BY <2>1, <2>2, MigrationAssumption
<1>4. received[t][f] = None
  <2>1. ASSUME received[t][f] = sha, sha # None PROVE FALSE
    <3>1. Verified(staged[t][f], sha) /\ staged[t][f] \in Seq(0 .. MaxWrites)
      BY <2>1 DEF ServersOK, CopiesOK, ReceivedIsStaged
    <3>2. Len(staged[t][f]) = sha.size /\ sha.size \in Nat
      BY <3>1, VerifiedPackets, MigrationAssumption DEF Content
    <3> QED BY <1>2, <3>2 DEF MayAppend
  <2> QED BY <1>2, <2>1 DEF MayAppend, MayPut
<1>5. /\ received' \in [Token -> [File -> Content \union {None}]]
      /\ \/ received' = received
         \/ /\ Verified(p, sha)
            /\ \A u \in Token, g \in File :
                  received'[u][g] = IF u = t /\ g = f THEN sha ELSE received[u][g]
  <2>1. CASE UNCHANGED received
    BY <2>1 DEF ServersOK, CopiesOK
  <2>2. CASE received' = [received EXCEPT ![t][f] = sha] /\ Verified(p, sha)
    BY <2>2, OneFile DEF ServersOK, CopiesOK
  <2> QED BY <2>1, <2>2 DEF ImportPacket, ImportPacketCrash
<1>6. CopiesOK'
  <2>1. staged' \in [Token -> [File -> Seq(0 .. MaxWrites)]]
        /\ \A u \in Token, g \in File : Len(staged'[u][g]) <= MaxSize
    BY <1>2, <1>3 DEF ServersOK, CopiesOK
  <2> QED
    BY <1>5, <2>1 DEF ImportPacket, ImportPacketCrash, ServersOK, CopiesOK, exportVars
<1>7. ReceivedIsStaged'
  BY <1>2, <1>4, <1>5, ZenonT(40) DEF ServersOK, CopiesOK, ReceivedIsStaged
<1>8. MissingIsComplete'
  <2>1. ASSUME NEW u \in Token, NEW g \in File, received[u][g] # None
        PROVE  received'[u][g] # None
    BY <1>4, <1>5, <2>1
  <2> QED
    BY <2>1 DEF ServersOK, MissingIsComplete, Complete, ImportPacket, ImportPacketCrash,
       controlVars
<1> QED BY <1>1, <1>6, <1>7, <1>8 DEF ServersOK

\* The staged queue takes the place of the old one, at once or after a crash.
LEMMA InstallTypes ==
    ASSUME ServersOK, NEW d \in Server, NEW t \in Token, Complete(t),
           phase' = [phase EXCEPT ![d] = "PREPARED"],
           files' = [files EXCEPT ![d] = StagedQueue(t)],
           UNCHANGED <<token, destination, previous, cluster, exportVars, importVars>>
    PROVE  ServersOK'
<1>1. StagedQueue(t) \in Queue
  BY StagedType DEF ServersOK
<1>2. ControlsOK' /\ files' \in [Server -> Queue]
  BY <1>1 DEF ServersOK, ControlsOK
<1>3. CopiesOK' /\ ReceivedIsStaged'
  BY DEF ServersOK, CopiesOK, ReceivedIsStaged, exportVars, importVars
<1>4. MissingIsComplete'
  BY DEF ServersOK, ControlsOK, MissingIsComplete, Complete, importVars
<1> QED BY <1>2, <1>3, <1>4 DEF ServersOK

LEMMA ImportPrepareTypes ==
    ASSUME ServersOK, NEW d \in Server, NEW t \in Token,
           ImportPrepare(d, t) \/ ImportPrepareCrash(d, t)
    PROVE  ServersOK'
<1>1. CASE Installed(d, t)
  BY <1>1, ServersUnchanged DEF ImportPrepare, ImportPrepareCrash, serverVars, controlVars
<1>2. CASE ~Installed(d, t) /\ ImportPrepare(d, t)
  BY <1>2, InstallTypes DEF ImportPrepare, MayPrepare, Complete
<1>3. CASE ~Installed(d, t) /\ ImportPrepareCrash(d, t)
  <2>1. Complete(t) /\ token[d] = t
    BY <1>3 DEF ImportPrepareCrash, MayPrepare, Complete
  <2>2. ControlsOK' /\ files' \in [Server -> Queue]
    BY <1>3 DEF ImportPrepareCrash, ServersOK, ControlsOK
  <2>3. CopiesOK' /\ ReceivedIsStaged'
    BY <1>3 DEF ImportPrepareCrash, ServersOK, CopiesOK, ReceivedIsStaged, exportVars, importVars
  <2>4. MissingIsComplete'
    BY <1>3, <2>1 DEF ImportPrepareCrash, ServersOK, ControlsOK, MissingIsComplete, Complete,
       importVars
  <2> QED BY <2>2, <2>3, <2>4 DEF ServersOK
<1> QED BY <1>1, <1>2, <1>3

LEMMA RecoverTypes ==
    ASSUME ServersOK, NEW d \in Server, Recover(d)
    PROVE  ServersOK'
<1>1. token[d] \in Token /\ Complete(token[d])
  BY DEF Recover, ServersOK, MissingIsComplete
<1> QED BY <1>1, InstallTypes DEF Recover

\* Whatever request a server handles, to the end or not.
LEMMA HandleTypes ==
    ASSUME ServersOK, NEW r, WellFormed(r), Handle(r) \/ HandleCrash(r)
    PROVE  ServersOK'
<1> USE DEF WellFormed
<1>1. CASE r.op = "export_begin" /\ (ExportBegin(r.src, r.token, r.dst)
                                       \/ ExportBeginCrash(r.src, r.token, r.dst))
  BY <1>1, ExportBeginTypes
<1>2. CASE \/ ExportCommit(r.src, r.token, r.dst) \/ ExportAbort(r.src, r.token)
           \/ ImportActivate(r.dst, r.token, r.src)
  BY <1>2, SourceTypes
<1>3. CASE r.op = "import_begin" /\ (ImportBegin(r.dst, r.token, r.src, r.arg)
                                       \/ ImportBeginCrash(r.dst, r.token, r.src, r.arg))
  BY <1>3, ImportBeginTypes
<1>4. CASE r.op = "import_query" /\ ImportQuery(r.dst, r.token, r.arg.file, r.arg.sha)
  BY <1>4, ImportQueryTypes
<1>5. CASE /\ r.op = "import_put"
           /\ \/ ImportPacket(r.dst, r.token, r.arg.file, r.arg.sha, r.arg.offset, r.arg.tag)
              \/ ImportPacketCrash(r.dst, r.token, r.arg.file, r.arg.sha, r.arg.offset,
                                   r.arg.tag)
  BY <1>5, ImportPacketTypes
<1>6. CASE ImportPrepare(r.dst, r.token) \/ ImportPrepareCrash(r.dst, r.token)
  BY <1>6, ImportPrepareTypes
<1>7. CASE UNCHANGED serverVars
  BY <1>7, ServersUnchanged
<1> QED BY <1>1, <1>2, <1>3, <1>4, <1>5, <1>6, <1>7 DEF Handle, HandleCrash

\* What a client sends is what the server expects to parse.
LEMMA RequestWellFormed ==
    ASSUME ServersOK, ClientsOK, NEW c \in Client, pc[c] \in Ops, MaySend(c)
    PROVE  /\ WellFormed(Request(c))
           /\ journal[c] \in Ticket
           /\ Request(c).op = pc[c] /\ Request(c).token = journal[c].token
           /\ Request(c).src = journal[c].src /\ Request(c).dst = journal[c].dst
<1>1. journal[c] \in Ticket
  BY DEF ClientsOK, Ops, SourceOps
<1>2. seen[c].sizes \in Sizes /\ cursor[c].file \in File /\ cursor[c].sha \in Content
      /\ cursor[c].offset \in Nat
  BY DEF ClientsOK, Answer, Cursor
<1>3. pc[c] \in {"import_query", "import_put"} =>
          snapshot[journal[c].token][cursor[c].file] \in Content
  BY <1>1, <1>2 DEF MaySend, ServersOK, CopiesOK, Ticket, Queue
<1>4. pc[c] = "import_begin" => Argument(c) \in Sizes
  BY <1>2 DEF Argument
<1>5. pc[c] = "import_query" => Argument(c).file \in File /\ Argument(c).sha \in Content
  BY <1>2, <1>3 DEF Argument
<1>6. pc[c] = "import_put" =>
          /\ Argument(c).file \in File /\ Argument(c).sha \in Content
          /\ Argument(c).offset \in Nat /\ Argument(c).tag \in 0 .. MaxWrites
  BY <1>2, <1>3 DEF Argument, Content
<1> QED BY <1>1, <1>4, <1>5, <1>6 DEF Request, WellFormed, Ticket

LEMMA ServedTypes ==
    ASSUME ServersOK, NEW r, WellFormed(r), Served(r)
    PROVE  ServersOK'
BY HandleTypes, ServersUnchanged DEF Served

LEMMA GotoTypes ==
    ASSUME ClientsOK, NEW c \in Client,
           NEW p \in Ops \union {"idle", "switch", "switched", "restored"}, Goto(c, p)
    PROVE  /\ pc' \in [Client -> Ops \union {"idle", "switch", "switched", "restored"}]
           /\ pc'[c] = p /\ \A b \in Client : b # c => pc'[b] = pc[b]
BY DEF ClientsOK, Goto

LEMMA NextFileTypes ==
    ASSUME ClientsOK, NEW c \in Client, NextFile(c)
    PROVE  /\ \E p \in Ops : Goto(c, p)
           /\ cursor' \in [Client -> Cursor]
<1>1. CASE cursor[c].file = Files
  BY <1>1 DEF NextFile, ClientsOK, Ops, SourceOps
<1>2. CASE cursor[c].file # Files
  <2>1. cursor[c].file + 1 \in File
    BY <1>2, MigrationAssumption DEF ClientsOK, Cursor, File
  <2>2. [cursor[c] EXCEPT !.file = @ + 1] \in Cursor
    BY <2>1 DEF ClientsOK, Cursor
  <2> QED BY <1>2, <2>2 DEF NextFile, ClientsOK, Ops, SourceOps
<1> QED BY <1>1, <1>2

LEMMA QueriedTypes ==
    ASSUME ServersOK, ClientsOK, NEW c \in Client, NEW r, WellFormed(r), r.op = "import_query",
           Queried(c, r)
    PROVE  /\ \E p \in Ops : Goto(c, p)
           /\ cursor' \in [Client -> Cursor]
<1> DEFINE n == OffsetOf(r.dst, r.token, r.arg.file, r.arg.sha)
<1>1. n \in 0 .. MaxSize
  <2>1. staged[r.token][r.arg.file] \in Seq(0 .. MaxWrites)
        /\ Len(staged[r.token][r.arg.file]) <= MaxSize /\ r.arg.sha.size \in 1 .. MaxSize
    BY DEF WellFormed, ServersOK, CopiesOK, Content
  <2>2. Len(staged[r.token][r.arg.file]) \in 0 .. MaxSize /\ 0 \in 0 .. MaxSize
        /\ r.arg.sha.size \in 0 .. MaxSize
    BY <2>1, MigrationAssumption
  <2> QED BY <2>2 DEF OffsetOf
<1>2. CASE n = r.arg.sha.size
  BY <1>2, NextFileTypes DEF Queried
<1>3. CASE n # r.arg.sha.size
  <2>1. [[cursor[c] EXCEPT !.sha = r.arg.sha] EXCEPT !.offset = n] \in Cursor
    BY <1>1, ZenonT(40) DEF ClientsOK, Cursor, WellFormed
  <2>2. cursor' = [cursor EXCEPT ![c] = [[cursor[c] EXCEPT !.sha = r.arg.sha] EXCEPT !.offset = n]]
    BY <1>3 DEF Queried, ClientsOK
  <2> QED BY <1>3, <2>1, <2>2 DEF Queried, ClientsOK, Ops
<1> QED BY <1>2, <1>3

LEMMA StoredTypes ==
    ASSUME ServersOK, ClientsOK, NEW c \in Client, NEW r, WellFormed(r), r.op = "import_put",
           Accepts(r), Stored(c, r), pc[c] \in Ops
    PROVE  /\ \E p \in Ops \union {"idle"} : Goto(c, p)
           /\ cursor' \in [Client -> Cursor]
<1> DEFINE n == IF Skips(r.dst, r.token) THEN r.arg.sha.size ELSE r.arg.offset + 1
<1>1. n \in 0 .. MaxSize
  <2>1. r.arg.sha.size \in 1 .. MaxSize /\ r.arg.offset \in Nat
    BY DEF WellFormed, Content
  <2>2. CASE Skips(r.dst, r.token)
    BY <2>1, <2>2, MigrationAssumption
  <2>3. CASE ~Skips(r.dst, r.token)
    <3>1. r.arg.offset < r.arg.sha.size
      BY <2>3 DEF Accepts, MayAppend
    <3> QED BY <2>1, <2>3, <3>1, MigrationAssumption
  <2> QED BY <2>2, <2>3
<1>2. \/ Goto(c, "idle") /\ UNCHANGED cursor
      \/ NextFile(c)
      \/ cursor' = [cursor EXCEPT ![c].offset = n] /\ UNCHANGED pc
  BY DEF Stored
<1>3. CASE Goto(c, "idle") /\ UNCHANGED cursor
  BY <1>3 DEF ClientsOK
<1>4. CASE NextFile(c)
  BY <1>4, NextFileTypes
<1>5. CASE cursor' = [cursor EXCEPT ![c].offset = n] /\ UNCHANGED pc
  <2>1. [cursor[c] EXCEPT !.offset = n] \in Cursor
    BY <1>1 DEF ClientsOK, Cursor
  <2>2. Goto(c, pc[c])
    BY <1>5 DEF Goto, ClientsOK
  <2> QED BY <1>5, <2>1, <2>2 DEF ClientsOK
<1> QED BY <1>2, <1>3, <1>4, <1>5

\* export_begin answers with the snapshot it made or found, and the phase.
LEMMA ExportAnswer ==
    ASSUME ServersOK, NEW s \in Server, NEW t \in Token, NEW d \in Server, ExportBegin(s, t, d)
    PROVE  /\ snapshot'[t] \in Queue
           /\ phase'[s] \in Moving /\ token'[s] = t
           /\ phase'[s] = "REDIRECT" => phase[s] = "REDIRECT" /\ token[s] = t
<1>1. CASE phase[s] = "ACTIVE"
  <2>1. snapshot' = [snapshot EXCEPT ![t] = files[s]] /\ Freeze(s, t, d)
    BY <1>1 DEF ExportBegin
  <2> QED BY <2>1 DEF ServersOK, ControlsOK, CopiesOK, Freeze, Moving
<1>2. CASE phase[s] # "ACTIVE"
  <2>1. /\ snapshot' = [snapshot EXCEPT ![t] = IF @ = None THEN files[s] ELSE @]
        /\ UNCHANGED controlVars /\ Exporting(s, t)
    BY <1>2 DEF ExportBegin, MayExport
  <2>2. snapshot'[t] \in Queue
    BY <2>1 DEF ServersOK, CopiesOK
  <2> QED BY <2>1, <2>2 DEF Exporting, Moving, controlVars
<1> QED BY <1>1, <1>2

LEMMA ContinueTypes ==
    ASSUME ServersOK, ClientsOK, NEW c \in Client, pc[c] \in Ops, NEW r, WellFormed(r),
           r.op = pc[c], Served(r), Continue(c, r)
    PROVE  /\ \E p \in Ops \union {"idle", "switch", "restored"} : Goto(c, p)
           /\ seen' \in [Client -> Answer] /\ cursor' \in [Client -> Cursor]
<1>1. CASE ~Accepts(r)
  <2>1. Goto(c, "idle") /\ UNCHANGED <<seen, cursor>>
    BY <1>1 DEF Continue
  <2> QED BY <2>1 DEF ClientsOK
<1> SUFFICES ASSUME Accepts(r) PROVE /\ \E p \in Ops \union {"idle", "switch", "restored"} : Goto(c, p)
                                     /\ seen' \in [Client -> Answer]
                                     /\ cursor' \in [Client -> Cursor]
  BY <1>1
<1>2. CASE pc[c] = "export_begin"
  <2>1. ExportBegin(r.src, r.token, r.dst)
    BY <1>2 DEF Served, Handle
  <2>2. snapshot'[r.token] \in Queue /\ phase'[r.src] \in Moving
    BY <2>1, ExportAnswer DEF WellFormed
  <2>3. [sizes |-> SizesOf(snapshot'[r.token]), phase |-> phase'[r.src]] \in Answer
    BY <2>2, EmptyQueueType DEF Answer, Moving
  <2>4. /\ Goto(c, "import_begin") /\ UNCHANGED cursor
        /\ seen' = [seen EXCEPT ![c] = [sizes |-> SizesOf(snapshot'[r.token]),
                                       phase |-> phase'[r.src]]]
    BY <1>2 DEF Continue
  <2> QED BY <2>3, <2>4 DEF ClientsOK, Ops
<1>3. CASE pc[c] = "import_begin"
  <2>1. /\ Goto(c, "import_query") \/ Goto(c, "import_activate")
        /\ cursor' = [cursor EXCEPT ![c].file = 1] /\ UNCHANGED seen
    BY <1>3 DEF Continue
  <2>2. [cursor[c] EXCEPT !.file = 1] \in Cursor
    BY EmptyQueueType DEF ClientsOK, Cursor
  <2> QED BY <2>1, <2>2 DEF ClientsOK, Ops
<1>4. CASE pc[c] = "import_query"
  BY <1>4, QueriedTypes DEF Continue, ClientsOK
<1>5. CASE pc[c] = "import_put"
  BY <1>5, StoredTypes DEF Continue, ClientsOK
<1>6. CASE pc[c] \in {"import_prepare", "export_commit", "import_activate", "export_abort"}
  <2>1. /\ \/ Goto(c, "export_commit") \/ Goto(c, "import_activate")
           \/ Goto(c, "switch") \/ Goto(c, "restored")
        /\ UNCHANGED <<seen, cursor>>
    BY <1>6 DEF Continue
  <2> QED BY <2>1 DEF ClientsOK, Ops, SourceOps
<1> QED BY <1>2, <1>3, <1>4, <1>5, <1>6 DEF Ops, SourceOps

LEMMA CallTypes ==
    ASSUME ServersOK, ClientsOK, NEW c \in Client, Call(c)
    PROVE  ServersOK' /\ ClientsOK'
<1>0. pc[c] \in Ops /\ UNCHANGED <<server, journal, late, breaks, issued, writes, quits, faults>>
  BY DEF Call
<1>1. CASE MaySend(c)
  <2>1. WellFormed(Request(c)) /\ Request(c).op = pc[c]
    BY <1>0, <1>1, RequestWellFormed
  <2>2. Served(Request(c)) /\ Continue(c, Request(c))
    BY <1>1 DEF Call
  <2>3. ServersOK'
    BY <2>1, <2>2, ServedTypes
  <2>4. /\ \E p \in Ops \union {"idle", "switch", "restored"} : Goto(c, p)
        /\ seen' \in [Client -> Answer] /\ cursor' \in [Client -> Cursor]
    BY <1>0, <2>1, <2>2, ContinueTypes
  <2>5. /\ pc' \in [Client -> Ops \union {"idle", "switch", "switched", "restored"}]
        /\ \A b \in Client : pc'[b] # "idle" => journal[b] # None
    BY <1>0, <2>4, GotoTypes DEF ClientsOK, Ops, SourceOps
  <2> QED BY <1>0, <2>3, <2>4, <2>5 DEF ClientsOK
<1>2. CASE ~MaySend(c)
  <2>1. Goto(c, "idle") /\ UNCHANGED <<serverVars, seen, cursor>>
    BY <1>2 DEF Call
  <2>2. ServersOK'
    BY <2>1, ServersUnchanged
  <2>3. /\ pc' \in [Client -> Ops \union {"idle", "switch", "switched", "restored"}]
        /\ \A b \in Client : pc'[b] # "idle" => journal[b] # None
    BY <2>1, GotoTypes DEF ClientsOK
  <2> QED BY <1>0, <2>1, <2>2, <2>3 DEF ClientsOK
<1> QED BY <1>1, <1>2

\* A client moves on without sending anything.
LEMMA LocalStep ==
    ASSUME ClientsOK, NEW c \in Client,
           NEW p \in Ops \union {"idle", "switch", "switched", "restored"}, Goto(c, p),
           UNCHANGED <<seen, cursor, late, writes>>, breaks' \in 0 .. faults',
           server' \in [Client -> Server], issued' \subseteq Token,
           NEW j \in Ticket \union {None}, journal' = [journal EXCEPT ![c] = j],
           p # "idle" => j # None,
           quits' \in 0 .. MaxQuits, faults' \in 0 .. MaxFaults
    PROVE  ClientsOK'
<1>1. pc' \in [Client -> Ops \union {"idle", "switch", "switched", "restored"}]
      /\ pc'[c] = p /\ \A b \in Client : b # c => pc'[b] = pc[b]
  BY GotoTypes
<1>2. journal' \in [Client -> Ticket \union {None}]
  BY DEF ClientsOK
<1>3. \A b \in Client : pc'[b] # "idle" => journal'[b] # None
  BY <1>1 DEF ClientsOK
<1> QED BY <1>1, <1>2, <1>3 DEF ClientsOK

\* The steps of a client that send nothing.
LEMMA LocalTypes ==
    ASSUME ServersOK, ClientsOK, NEW c \in Client,
           \/ \E t \in Token, d \in Server : Start(c, t, d)
           \/ Resume(c) \/ Restore(c) \/ Switch(c) \/ Forget(c) \/ Follow(c) \/ Quit(c)
           \/ KeepJournal(c)
    PROVE  ServersOK' /\ ClientsOK'
<1>1. UNCHANGED serverVars
  BY DEF Start, Resume, Restore, Reopen, Switch, Forget, Follow, Quit, KeepJournal
<1>2. ServersOK'
  BY <1>1, ServersUnchanged
<1>3. UNCHANGED <<seen, cursor, late, breaks, writes>>
  BY DEF Start, Resume, Restore, Reopen, Switch, Forget, Follow, Quit, KeepJournal, Fault
<1>4. /\ journal = [journal EXCEPT ![c] = journal[c]] /\ journal[c] \in Ticket \union {None}
      /\ pc[c] # "idle" => journal[c] # None
      /\ server \in [Client -> Server] /\ issued \subseteq Token
      /\ quits \in 0 .. MaxQuits /\ faults \in 0 .. MaxFaults /\ breaks \in 0 .. faults
  BY DEF ClientsOK
<1>5. ASSUME NEW t \in Token, NEW d \in Server, Start(c, t, d) PROVE ClientsOK'
  <2> DEFINE j == [token |-> t, src |-> server[c], dst |-> d]
  <2>1. j \in Ticket /\ j # None
    BY MigrationAssumption DEF ClientsOK, Ticket
  <2>2. journal' = [journal EXCEPT ![c] = j] /\ Goto(c, "export_begin")
        /\ UNCHANGED <<server, quits, faults>> /\ issued' = issued \union {t}
    BY <1>5 DEF Start
  <2> HIDE DEF j
  <2> QED BY <1>2, <1>3, <1>4, <2>1, <2>2, LocalStep DEF Ops, SourceOps
<1>6. ASSUME NEW p \in {"export_begin", "export_abort"}, Reopen(c, p) PROVE ClientsOK'
  <2>1. journal[c] # None /\ Goto(c, p) /\ UNCHANGED <<server, journal, issued, quits, faults>>
    BY <1>6 DEF Reopen
  <2> QED BY <1>2, <1>3, <1>4, <2>1, LocalStep DEF Ops, SourceOps
<1>7. CASE Switch(c)
  <2>1. Goto(c, "switched") /\ UNCHANGED <<journal, issued, quits, faults>>
        /\ server' = [server EXCEPT ![c] = journal[c].dst] /\ pc[c] = "switch"
    BY <1>7 DEF Switch
  <2>2. journal[c] \in Ticket /\ journal[c] # None
    BY <1>4, <2>1
  <2>3. server' \in [Client -> Server]
    BY <1>4, <2>1, <2>2 DEF Ticket
  <2> QED BY <1>2, <1>3, <1>4, <2>1, <2>2, <2>3, LocalStep
<1>8. CASE Forget(c)
  <2>1. Goto(c, "idle") /\ UNCHANGED <<server, issued, quits, faults>>
        /\ journal' = [journal EXCEPT ![c] = None]
    BY <1>8 DEF Forget
  <2> QED BY <1>2, <1>3, <1>4, <2>1, LocalStep
<1>9. CASE Follow(c)
  <2>1. server[c] \in Server /\ phase[server[c]] = "REDIRECT"
    BY <1>9 DEF Follow, ClientsOK
  <2>2. destination[server[c]] \in Server
    BY <2>1 DEF ServersOK, ControlsOK
  <2>3. server' \in [Client -> Server] /\ UNCHANGED <<journal, pc, issued, quits, faults>>
    BY <1>4, <1>9, <2>2 DEF Follow
  <2> QED BY <1>2, <1>3, <2>3 DEF ClientsOK
<1>10. CASE Quit(c)
  <2>1. Goto(c, "idle") /\ UNCHANGED <<server, journal, issued, faults>>
        /\ quits' = quits + 1 /\ quits < MaxQuits
    BY <1>10 DEF Quit
  <2>2. quits' \in 0 .. MaxQuits
    BY <1>4, <2>1, MigrationAssumption
  <2> QED BY <1>2, <1>3, <1>4, <2>1, <2>2, LocalStep
<1>11. CASE KeepJournal(c)
  <2>1. Goto(c, "idle") /\ UNCHANGED <<server, journal, issued, quits>>
        /\ faults' = faults + 1 /\ faults < MaxFaults
    BY <1>11 DEF KeepJournal, Fault
  <2>2. faults' \in 0 .. MaxFaults /\ breaks' \in 0 .. faults'
    BY <1>3, <1>4, <2>1, MigrationAssumption
  <2> QED BY <1>2, <1>3, <1>4, <2>1, <2>2, LocalStep
<1> QED BY <1>2, <1>5, <1>6, <1>7, <1>8, <1>9, <1>10, <1>11 DEF Resume, Restore

\* A session breaks: the request is delayed, or handled half-way.
LEMMA FaultTypes ==
    ASSUME ServersOK, ClientsOK, NEW c \in Client, Break(c) \/ Crash(c)
    PROVE  ServersOK' /\ ClientsOK'
<1>1. WellFormed(Request(c))
  BY RequestWellFormed DEF Break, Crash
<1>2. /\ Fault(c) /\ (late' = late \/ late' = late \union {Request(c)})
      /\ breaks' = breaks \/ breaks' = breaks + 1
  BY DEF Break, Crash
<1>3. ClientsOK'
  <2>1. faults' \in 0 .. MaxFaults /\ breaks' \in 0 .. faults'
    BY <1>2, MigrationAssumption DEF Fault, ClientsOK
  <2> QED BY <1>1, <1>2, <2>1 DEF Fault, Goto, ClientsOK
<1>4. ServersOK'
  BY <1>1, HandleTypes, ServersUnchanged DEF Break, Crash
<1> QED BY <1>3, <1>4

LEMMA RunLateTypes ==
    ASSUME ServersOK, ClientsOK, RunLate
    PROVE  ServersOK' /\ ClientsOK'
<1>1. PICK r \in late : /\ late' = late \ {r} /\ Served(r)
                        /\ UNCHANGED <<clientVars, breaks, issued, writes, quits, faults>>
  BY DEF RunLate
<1>2. ServersOK'
  BY <1>1, ServedTypes DEF ClientsOK
<1> QED BY <1>1, <1>2 DEF ClientsOK, clientVars

LEMMA NextMigrationInv == MigrationInv /\ [Next]_vars => MigrationInv'
<1> SUFFICES ASSUME ServersOK, ClientsOK, [Next]_vars PROVE ServersOK' /\ ClientsOK'
  BY InvParts DEF MigrationInv, TypeOK, ServersOK, ControlsOK, CopiesOK, ClientsOK
<1>1. ASSUME NEW s \in Server, Write(s) PROVE ServersOK' /\ ClientsOK'
  BY <1>1, WriteTypes DEF ClientsOK, Write, clientVars
<1>2. ASSUME NEW s \in Server, Recover(s) PROVE ServersOK' /\ ClientsOK'
  BY <1>2, RecoverTypes DEF ClientsOK, Recover, clientVars
<1>3. CASE RunLate
  BY <1>3, RunLateTypes
<1>4. ASSUME NEW c \in Client, Call(c) PROVE ServersOK' /\ ClientsOK'
  BY <1>4, CallTypes
<1>5. ASSUME NEW c \in Client, Break(c) \/ Crash(c) PROVE ServersOK' /\ ClientsOK'
  BY <1>5, FaultTypes
<1>6. ASSUME NEW c \in Client,
             \/ \E t \in Token, d \in Server : Start(c, t, d)
             \/ Resume(c) \/ Restore(c) \/ Switch(c) \/ Forget(c) \/ Follow(c) \/ Quit(c)
             \/ KeepJournal(c)
      PROVE  ServersOK' /\ ClientsOK'
  BY <1>6, LocalTypes
<1>7. CASE UNCHANGED vars
  BY <1>7, ServersUnchanged DEF vars, clientVars, ClientsOK
<1> QED BY <1>1, <1>2, <1>3, <1>4, <1>5, <1>6, <1>7 DEF Next

LEMMA MigrationAlways == Spec => []MigrationInv
BY InitMigrationInv, NextMigrationInv, PTL DEF Spec

\* The records of the servers, the client's journal and the requests keep their
\* types (control.py load_control, sync_server.c migration_journal), however
\* sessions end.
THEOREM MigrationTypeCorrect == Spec => []TypeOK
<1>1. MigrationInv => TypeOK
  BY DEF MigrationInv
<1> QED BY <1>1, MigrationAlways, PTL

-----------------------------------------------------------------------------
(* What a step may do to the queues: eight kinds of move. *)

Wrote(x) ==
    /\ phase[x] = "ACTIVE" /\ UNCHANGED controlVars
    /\ \E q \in Queue : Written(q) /\ files' = [files EXCEPT ![x] = q]

Freezes(from, to, t) ==
    /\ phase[from[t]] = "ACTIVE" /\ Written(files[from[t]])
    /\ Freeze(from[t], t, to[t]) /\ UNCHANGED files

Restores(x) ==
    /\ phase[x] \in {"ACTIVE", "EXPORTING"} /\ phase' = [phase EXCEPT ![x] = "ACTIVE"]
    /\ UNCHANGED <<token, destination, previous, cluster, files>>

Redirects(from, to, t) ==
    /\ phase[from[t]] \in Moving /\ token[from[t]] = t /\ Arrived(from, to, t)
    /\ phase' = [phase EXCEPT ![from[t]] = "REDIRECT"]
    /\ UNCHANGED <<token, destination, previous, cluster, files>>

Adopts(from, to, t) ==
    /\ phase[to[t]] = "ACTIVE" /\ files[to[t]] = EmptyQueue /\ Settled(from[t])
    /\ Adopt(to[t], t, from[t]) /\ UNCHANGED files

Installs(to, t) ==
    /\ phase[to[t]] \in {"IMPORTING", "MISSING"} /\ token[to[t]] = t
    /\ phase' = [phase EXCEPT ![to[t]] = "PREPARED"]
    /\ \E q \in Queue : Written(q) /\ files' = [files EXCEPT ![to[t]] = q]
    /\ UNCHANGED <<token, destination, previous, cluster>>

Loses(to, t) ==
    /\ phase[to[t]] = "IMPORTING" /\ token[to[t]] = t
    /\ phase' = [phase EXCEPT ![to[t]] = "MISSING"]
    /\ UNCHANGED <<token, destination, previous, cluster, files>>

Activates(from, to, t) ==
    /\ phase[to[t]] = "PREPARED" /\ token[to[t]] = t /\ GivenUp(from, t)
    /\ phase' = [phase EXCEPT ![to[t]] = "ACTIVE"]
    /\ UNCHANGED <<token, destination, previous, cluster, files>>

Moves(from, to) ==
    \/ UNCHANGED <<controlVars, files>>
    \/ \E x \in Server : Wrote(x) \/ Restores(x)
    \/ \E t \in issued :
          \/ Freezes(from, to, t) \/ Redirects(from, to, t) \/ Adopts(from, to, t)
          \/ Installs(to, t) \/ Loses(to, t) \/ Activates(from, to, t)

\* What is settled, given up or arrived stays so.
Lasting(from, to) ==
    /\ \A x \in Server : Settled(x) => Settled(x)'
    /\ \A t \in issued : GivenUp(from, t) => GivenUp(from, t)'
    /\ \A t \in issued : Arrived(from, to, t) => Arrived(from, to, t)'

Ground(from, to) ==
    /\ from \in Route /\ to \in Route /\ issued \subseteq Token
    /\ \A t \in issued : from[t] # to[t]
    /\ ControlsOK /\ files \in [Server -> Queue] /\ QueuesInv(from, to)

LEMMA EmptyIsNotWritten == ~Written(EmptyQueue)
BY DEF Written, EmptyQueue

LEMMA RoutesOf ==
    ASSUME NEW from, NEW to, Ground(from, to)
    PROVE  /\ \A t \in issued : t \in Token /\ from[t] \in Server /\ to[t] \in Server
                                /\ from[t] # to[t]
           /\ \A x \in Server : token[x] # None =>
                 /\ token[x] \in issued /\ x \in {from[token[x]], to[token[x]]}
                 /\ Settled(from[token[x]])
           /\ \A x \in Server : phase[x] \in Arriving =>
                 /\ previous[x] \in Server /\ token[x] # None
                 /\ previous[x] = from[token[x]] /\ x = to[token[x]]
BY DEF Ground, Route, QueuesInv, RoutedQueues, SourcesSettled

LEMMA RestoresKeeps ==
    ASSUME NEW from, NEW to, Ground(from, to), NEW x \in Server, Restores(x), UNCHANGED issued
    PROVE  QueuesInv(from, to)' /\ Lasting(from, to)
<1> USE RoutesOf DEF Ground, QueuesInv
<1>1. \A y \in Server : phase'[y] = IF y = x THEN "ACTIVE" ELSE phase[y]
  BY DEF Restores, ControlsOK
<1>2. UNCHANGED <<token, destination, previous, cluster, files>>
      /\ phase[x] \in {"ACTIVE", "EXPORTING"}
  BY DEF Restores
<1>3. RoutedQueues(from, to)'
  BY <1>1, <1>2 DEF RoutedQueues, Moving, Arriving
<1>4. EmptyOrWritten'
  BY <1>2 DEF EmptyOrWritten, Written
<1>5. Lasting(from, to)
  BY <1>1, <1>2 DEF Lasting, Settled, GivenUp, Arrived, Lead, Written
<1>6. SourcesSettled(from)'
  BY <1>2, <1>5 DEF SourcesSettled, Lasting
<1>7. SameCluster'
  BY <1>1, <1>2 DEF SameCluster, Arriving
<1>8. InstalledArrived(from, to)'
  <2>1. ASSUME NEW t \in issued, token[to[t]] = t, phase'[to[t]] \in {"PREPARED", "ACTIVE"}
        PROVE  phase[to[t]] \in {"PREPARED", "ACTIVE"}
    BY <1>1, <1>2, <2>1 DEF RoutedQueues, Moving
  <2>2. \A t \in issued : GivenUp(from, t)' => GivenUp(from, t)
    BY <1>1, <1>2 DEF GivenUp
  <2> QED BY <1>2, <1>5, <2>1, <2>2 DEF InstalledArrived, Lasting
<1>9. OneHolder'
  <2>1. \A y \in Server : Holds(y)' => Holds(y)
    BY <1>1, <1>2 DEF Holds, InUse, Heir, Arriving
  <2> QED BY <1>2, <2>1 DEF OneHolder
<1> QED BY <1>3, <1>4, <1>5, <1>6, <1>7, <1>8, <1>9

LEMMA WroteKeeps ==
    ASSUME NEW from, NEW to, Ground(from, to), NEW x \in Server, Wrote(x), UNCHANGED issued
    PROVE  QueuesInv(from, to)' /\ Lasting(from, to)
<1> USE RoutesOf DEF Ground, QueuesInv
<1>1. UNCHANGED <<phase, token, destination, previous, cluster>> /\ phase[x] = "ACTIVE"
  BY DEF Wrote, controlVars
<1>2. \A y \in Server : (files'[y] = files[y]) \/ (y = x /\ Written(files'[y]))
  BY DEF Wrote
<1>3. RoutedQueues(from, to)' /\ SameCluster' /\ OneHolder'
  BY <1>1 DEF RoutedQueues, SameCluster, OneHolder, Holds, InUse, Heir
<1>4. EmptyOrWritten'
  BY <1>2 DEF EmptyOrWritten, Written
<1>5. Lasting(from, to)
  <2>1. \A y \in Server : Written(files[y]) => Written(files'[y])
    BY <1>2
  <2>2. \A y \in Server : Written(files'[y]) <=> Written(files[y])'
    BY DEF Written
  <2> QED BY <1>1, <2>1, <2>2 DEF Lasting, Settled, GivenUp, Arrived
<1>6. SourcesSettled(from)'
  BY <1>1, <1>5 DEF SourcesSettled, Lasting
<1>7. InstalledArrived(from, to)'
  BY <1>1, <1>5 DEF InstalledArrived, Lasting, GivenUp
<1> QED BY <1>3, <1>4, <1>5, <1>6, <1>7

LEMMA FreezesKeeps ==
    ASSUME NEW from, NEW to, Ground(from, to), NEW t \in issued, Freezes(from, to, t),
           UNCHANGED issued
    PROVE  QueuesInv(from, to)' /\ Lasting(from, to)
<1> USE RoutesOf DEF Ground, QueuesInv
<1> DEFINE s == from[t]
<1>1. /\ s \in Server /\ phase[s] = "ACTIVE" /\ Written(files[s])
      /\ UNCHANGED <<previous, cluster, files>>
  BY DEF Freezes, Freeze
<1>2. \A y \in Server : /\ phase'[y] = IF y = s THEN "EXPORTING" ELSE phase[y]
                        /\ token'[y] = IF y = s THEN t ELSE token[y]
                        /\ destination'[y] = IF y = s THEN to[t] ELSE destination[y]
  BY DEF Freezes, Freeze, ControlsOK
<1> HIDE DEF s
<1>3. RoutedQueues(from, to)'
  <2>1. t # None /\ s = from[t]
    BY MigrationAssumption DEF s
  <2> QED BY <1>1, <1>2, <2>1 DEF RoutedQueues, Moving, Arriving
<1>4. EmptyOrWritten'
  BY <1>1 DEF EmptyOrWritten, Written
<1>5. Lasting(from, to)
  BY <1>1, <1>2 DEF Lasting, Settled, GivenUp, Arrived, Lead, Written
<1>6. SourcesSettled(from)'
  <2>1. ASSUME NEW y \in Server, token'[y] # None PROVE Settled(from[token'[y]])
    BY <1>1, <1>2, <2>1 DEF s, Settled
  <2>2. \A y \in Server : token'[y] # None => from[token'[y]] \in Server
    BY <1>2
  <2> QED BY <1>5, <2>1, <2>2 DEF SourcesSettled, Lasting
<1>7. SameCluster'
  BY <1>1, <1>2 DEF SameCluster, Arriving
<1>8. InstalledArrived(from, to)'
  <2>1. ASSUME NEW u \in issued, token'[to[u]] = u, phase'[to[u]] \in {"PREPARED", "ACTIVE"}
        PROVE  token[to[u]] = u /\ phase[to[u]] \in {"PREPARED", "ACTIVE"}
    BY <1>2, <2>1
  <2>2. \A u \in issued : GivenUp(from, u)' => GivenUp(from, u)
    BY <1>2 DEF GivenUp
  <2> QED BY <1>5, <2>1, <2>2 DEF InstalledArrived, Lasting
<1>9. OneHolder'
  <2>1. \A y \in Server : Holds(y)' => Holds(y)
    BY <1>1, <1>2 DEF Holds, InUse, Heir, Arriving
  <2> QED BY <1>1, <2>1 DEF OneHolder
<1> QED BY <1>3, <1>4, <1>5, <1>6, <1>7, <1>8, <1>9

LEMMA RedirectsKeeps ==
    ASSUME NEW from, NEW to, Ground(from, to), NEW t \in issued, Redirects(from, to, t),
           UNCHANGED issued
    PROVE  QueuesInv(from, to)' /\ Lasting(from, to)
<1> USE RoutesOf DEF Ground, QueuesInv
<1> DEFINE s == from[t]
<1>1. /\ s \in Server /\ phase[s] \in Moving /\ token[s] = t /\ Arrived(from, to, t)
      /\ UNCHANGED <<token, destination, previous, cluster, files>>
  BY DEF Redirects
<1>2. \A y \in Server : phase'[y] = IF y = s THEN "REDIRECT" ELSE phase[y]
  BY DEF Redirects, ControlsOK
<1> HIDE DEF s
<1>3. RoutedQueues(from, to)'
  BY <1>1, <1>2 DEF RoutedQueues, Moving, Arriving
<1>4. EmptyOrWritten'
  BY <1>1 DEF EmptyOrWritten, Written
<1>5. Lasting(from, to)
  BY <1>1, <1>2 DEF Lasting, Settled, GivenUp, Arrived, Lead, Written, Moving
<1>6. SourcesSettled(from)'
  BY <1>1, <1>5 DEF SourcesSettled, Lasting
<1>7. SameCluster'
  BY <1>1, <1>2 DEF SameCluster, Arriving, Moving
<1>8. InstalledArrived(from, to)'
  <2>1. ASSUME NEW u \in issued, token[to[u]] = u, phase'[to[u]] \in {"PREPARED", "ACTIVE"}
        PROVE  phase[to[u]] \in {"PREPARED", "ACTIVE"}
    BY <1>2, <2>1
  <2>2. \A u \in issued : GivenUp(from, u)' => GivenUp(from, u) \/ u = t
    BY <1>1, <1>2 DEF GivenUp, s
  <2> QED BY <1>1, <1>5, <2>1, <2>2 DEF InstalledArrived, Lasting
<1>9. OneHolder'
  <2>1. ASSUME NEW y \in Server, Holds(y)', ~Holds(y)
        PROVE  y = to[t] /\ cluster[y] = cluster[s] /\ InUse(s) /\ y # s
    <3>1. Heir(y)' /\ phase[y] \in Arriving
      BY <1>1, <1>2, <2>1 DEF Holds, InUse, Heir, Arriving
    <3>2. previous[y] = s /\ token[y] = t /\ phase[s] # "REDIRECT"
      BY <1>1, <1>2, <2>1, <3>1 DEF Holds, Heir
    <3>3. y = to[t] /\ cluster[y] = cluster[s]
      BY <3>1, <3>2 DEF SameCluster
    <3> QED BY <1>1, <3>1, <3>2, <3>3 DEF InUse, Moving, Arriving
  <2>2. InUse(s) => ~Holds(s)'
    BY <1>1, <1>2 DEF Holds, InUse, Heir, Arriving
  <2> QED BY <1>1, <2>1, <2>2 DEF OneHolder, Holds
<1> QED BY <1>3, <1>4, <1>5, <1>6, <1>7, <1>8, <1>9

LEMMA AdoptsKeeps ==
    ASSUME NEW from, NEW to, Ground(from, to), NEW t \in issued, Adopts(from, to, t),
           UNCHANGED issued
    PROVE  QueuesInv(from, to)' /\ Lasting(from, to)
<1> USE RoutesOf DEF Ground, QueuesInv
<1> DEFINE d == to[t]
           s == from[t]
<1>1. /\ d \in Server /\ s \in Server /\ d # s /\ t # None
      /\ phase[d] = "ACTIVE" /\ files[d] = EmptyQueue /\ ~Written(files[d])
      /\ Settled(s) /\ UNCHANGED <<destination, files>>
  BY EmptyIsNotWritten, MigrationAssumption DEF Adopts, Adopt
<1>2. \A y \in Server : /\ phase'[y] = IF y = d THEN "IMPORTING" ELSE phase[y]
                        /\ token'[y] = IF y = d THEN t ELSE token[y]
                        /\ previous'[y] = IF y = d THEN s ELSE previous[y]
                        /\ cluster'[y] = IF y = d THEN cluster[s] ELSE cluster[y]
  BY DEF Adopts, Adopt, ControlsOK
<1>3. d = to[t] /\ s = from[t]
  OBVIOUS
<1> HIDE DEF d, s
<1>4. RoutedQueues(from, to)'
  BY <1>1, <1>2, <1>3 DEF RoutedQueues, Moving, Arriving
<1>5. EmptyOrWritten'
  BY <1>1 DEF EmptyOrWritten, Written
<1>6. Lasting(from, to)
  <2>1. \A y \in Server : Settled(y) => y # d
    BY <1>1 DEF Settled
  <2>2. \A u \in issued : Arrived(from, to, u) => to[u] # d
    BY <1>1 DEF Arrived
  <2>3. \A u \in issued : GivenUp(from, u) => from[u] # d
    BY <1>1 DEF GivenUp
  <2> QED BY <1>1, <1>2, <2>1, <2>2, <2>3 DEF Lasting, Settled, GivenUp, Arrived, Lead, Written
<1>7. SourcesSettled(from)'
  <2>1. ASSUME NEW y \in Server, token'[y] # None PROVE Settled(from[token'[y]])
    BY <1>1, <1>2, <1>3, <2>1
  <2>2. \A y \in Server : token'[y] # None => from[token'[y]] \in Server
    BY <1>2
  <2> QED BY <1>6, <2>1, <2>2 DEF SourcesSettled, Lasting
<1>8. SameCluster'
  <2>1. \A y \in Server : phase[y] \in Arriving => previous[y] # d
    BY <1>1 DEF Settled
  <2> QED BY <1>1, <1>2, <2>1 DEF SameCluster, Arriving
<1>9. InstalledArrived(from, to)'
  <2>1. ASSUME NEW u \in issued, token'[to[u]] = u, phase'[to[u]] \in {"PREPARED", "ACTIVE"}
        PROVE  token[to[u]] = u /\ phase[to[u]] \in {"PREPARED", "ACTIVE"}
    BY <1>2, <2>1
  <2>2. \A u \in issued : GivenUp(from, u)' => GivenUp(from, u)
    BY <1>2 DEF GivenUp
  <2> QED BY <1>6, <2>1, <2>2 DEF InstalledArrived, Lasting
<1>10. OneHolder'
  <2>1. ~GivenUp(from, t)
    BY <1>1, <1>3 DEF InstalledArrived, Arrived
  <2>2. ~Holds(d)'
    BY <1>1, <1>2, <1>3, <2>1 DEF Holds, InUse, Heir, GivenUp
  <2>3. \A y \in Server : y # d /\ Holds(y)' => Holds(y)
    BY <1>1, <1>2 DEF Holds, InUse, Heir, Arriving
  <2> QED BY <1>2, <2>2, <2>3 DEF OneHolder
<1> QED BY <1>4, <1>5, <1>6, <1>7, <1>8, <1>9, <1>10

LEMMA InstallsKeeps ==
    ASSUME NEW from, NEW to, Ground(from, to), NEW t \in issued, Installs(to, t),
           UNCHANGED issued
    PROVE  QueuesInv(from, to)' /\ Lasting(from, to)
<1> USE RoutesOf DEF Ground, QueuesInv
<1> DEFINE d == to[t]
<1>1. /\ d \in Server /\ phase[d] \in {"IMPORTING", "MISSING"} /\ token[d] = t
      /\ UNCHANGED <<token, destination, previous, cluster>> /\ d = to[t]
  BY DEF Installs
<1>2. \A y \in Server : /\ phase'[y] = IF y = d THEN "PREPARED" ELSE phase[y]
                        /\ (files'[y] = files[y]) \/ (y = d /\ Written(files'[y]))
                        /\ y = d => Written(files'[y])
  BY DEF Installs, ControlsOK
<1> HIDE DEF d
<1>3. RoutedQueues(from, to)'
  BY <1>1, <1>2 DEF RoutedQueues, Moving, Arriving
<1>4. EmptyOrWritten'
  BY <1>2 DEF EmptyOrWritten, Written
<1>5. Lasting(from, to)
  <2>1. \A y \in Server : Written(files[y]) => Written(files'[y])
    BY <1>2
  <2>2. \A y \in Server : Written(files'[y]) <=> Written(files[y])'
    BY DEF Written
  <2> QED BY <1>1, <1>2, <2>1, <2>2 DEF Lasting, Settled, GivenUp, Arrived, Lead
<1>6. SourcesSettled(from)'
  BY <1>1, <1>5 DEF SourcesSettled, Lasting
<1>7. SameCluster'
  BY <1>1, <1>2 DEF SameCluster, Arriving
<1>8. InstalledArrived(from, to)'
  <2>1. Arrived(from, to, t)'
    <3>1. Written(files[d])'
      BY <1>1, <1>2 DEF Written
    <3>2. previous[d] = from[t]
      BY <1>1 DEF Arriving
    <3> QED BY <1>1, <1>2, <3>1, <3>2 DEF Arrived, Lead
  <2>2. ASSUME NEW u \in issued, token[to[u]] = u, phase'[to[u]] \in {"PREPARED", "ACTIVE"}
        PROVE  phase[to[u]] \in {"PREPARED", "ACTIVE"} \/ u = t
    BY <1>1, <1>2, <2>2
  <2>3. \A u \in issued : GivenUp(from, u)' => GivenUp(from, u)
    BY <1>1, <1>2 DEF GivenUp
  <2> QED BY <1>1, <1>5, <2>1, <2>2, <2>3 DEF InstalledArrived, Lasting
<1>9. OneHolder'
  <2>1. \A y \in Server : Holds(y)' => Holds(y)
    BY <1>1, <1>2 DEF Holds, InUse, Heir, Arriving
  <2> QED BY <1>1, <2>1 DEF OneHolder
<1> QED BY <1>3, <1>4, <1>5, <1>6, <1>7, <1>8, <1>9

LEMMA LosesKeeps ==
    ASSUME NEW from, NEW to, Ground(from, to), NEW t \in issued, Loses(to, t),
           UNCHANGED issued
    PROVE  QueuesInv(from, to)' /\ Lasting(from, to)
<1> USE RoutesOf DEF Ground, QueuesInv
<1> DEFINE d == to[t]
<1>1. /\ d \in Server /\ phase[d] = "IMPORTING"
      /\ UNCHANGED <<token, destination, previous, cluster, files>>
  BY DEF Loses
<1>2. \A y \in Server : phase'[y] = IF y = d THEN "MISSING" ELSE phase[y]
  BY DEF Loses, ControlsOK
<1> HIDE DEF d
<1>3. RoutedQueues(from, to)'
  BY <1>1, <1>2 DEF RoutedQueues, Moving, Arriving
<1>4. EmptyOrWritten'
  BY <1>1 DEF EmptyOrWritten, Written
<1>5. Lasting(from, to)
  BY <1>1, <1>2 DEF Lasting, Settled, GivenUp, Arrived, Lead, Written
<1>6. SourcesSettled(from)'
  BY <1>1, <1>5 DEF SourcesSettled, Lasting
<1>7. SameCluster'
  BY <1>1, <1>2 DEF SameCluster, Arriving
<1>8. InstalledArrived(from, to)'
  <2>1. \A u \in issued : GivenUp(from, u)' => GivenUp(from, u)
    BY <1>1, <1>2 DEF GivenUp
  <2> QED BY <1>1, <1>2, <1>5, <2>1 DEF InstalledArrived, Lasting
<1>9. OneHolder'
  <2>1. \A y \in Server : Holds(y)' => Holds(y)
    BY <1>1, <1>2 DEF Holds, InUse, Heir, Arriving
  <2> QED BY <1>1, <2>1 DEF OneHolder
<1> QED BY <1>3, <1>4, <1>5, <1>6, <1>7, <1>8, <1>9

LEMMA ActivatesKeeps ==
    ASSUME NEW from, NEW to, Ground(from, to), NEW t \in issued, Activates(from, to, t),
           UNCHANGED issued
    PROVE  QueuesInv(from, to)' /\ Lasting(from, to)
<1> USE RoutesOf DEF Ground, QueuesInv
<1> DEFINE d == to[t]
<1>1. /\ d \in Server /\ phase[d] = "PREPARED" /\ token[d] = t /\ d = to[t]
      /\ GivenUp(from, t) /\ UNCHANGED <<token, destination, previous, cluster, files>>
  BY DEF Activates
<1>2. \A y \in Server : phase'[y] = IF y = d THEN "ACTIVE" ELSE phase[y]
  BY DEF Activates, ControlsOK
<1> HIDE DEF d
<1>3. RoutedQueues(from, to)'
  BY <1>1, <1>2 DEF RoutedQueues, Moving, Arriving
<1>4. EmptyOrWritten'
  BY <1>1 DEF EmptyOrWritten, Written
<1>5. Lasting(from, to)
  BY <1>1, <1>2 DEF Lasting, Settled, GivenUp, Arrived, Lead, Written
<1>6. SourcesSettled(from)'
  BY <1>1, <1>5 DEF SourcesSettled, Lasting
<1>7. SameCluster'
  BY <1>1, <1>2 DEF SameCluster, Arriving
<1>8. InstalledArrived(from, to)'
  <2>1. \A u \in issued : GivenUp(from, u)' => GivenUp(from, u)
    BY <1>1, <1>2 DEF GivenUp
  <2>2. \A u \in issued : token[to[u]] = u /\ phase'[to[u]] \in {"PREPARED", "ACTIVE"}
            => phase[to[u]] \in {"PREPARED", "ACTIVE"}
    BY <1>1, <1>2
  <2> QED BY <1>1, <1>5, <2>1, <2>2 DEF InstalledArrived, Lasting
<1>9. OneHolder'
  <2>1. Heir(d)
    BY <1>1 DEF Heir, Arriving, GivenUp
  <2>2. \A y \in Server : y # d /\ Holds(y)' => Holds(y)
    BY <1>1, <1>2 DEF Holds, InUse, Heir, Arriving
  <2> QED BY <1>1, <2>1, <2>2 DEF OneHolder, Holds
<1> QED BY <1>3, <1>4, <1>5, <1>6, <1>7, <1>8, <1>9

LEMMA MovesKeep ==
    ASSUME NEW from, NEW to, Ground(from, to), Moves(from, to), UNCHANGED issued
    PROVE  QueuesInv(from, to)' /\ Lasting(from, to)
<1>1. CASE UNCHANGED <<controlVars, files>>
  BY <1>1 DEF Ground, QueuesInv, RoutedQueues, EmptyOrWritten, SourcesSettled, SameCluster,
     InstalledArrived, OneHolder, Holds, InUse, Heir, Lasting, Settled, GivenUp, Arrived,
     Written, controlVars
<1> QED BY <1>1, WroteKeeps, RestoresKeeps, FreezesKeeps, RedirectsKeeps, AdoptsKeeps,
           InstallsKeeps, LosesKeeps, ActivatesKeeps DEF Moves

-----------------------------------------------------------------------------
(* Every request a server handles makes one of these moves. *)

Base(from, to) ==
    /\ MigrationInv /\ from \in Route /\ to \in Route
    /\ Routed(from, to) /\ QueuesInv(from, to) /\ RequestsInv(from, to)

Sent(r) ==
    \/ r \in late
    \/ \E c \in Client : pc[c] \in Ops /\ MaySend(c) /\ r = Request(c)

LEMMA BaseParts ==
    ASSUME NEW from, NEW to, Base(from, to)
    PROVE  Ground(from, to) /\ ServersOK /\ ClientsOK /\ issued \subseteq Token
BY InvParts DEF Base, Ground, Routed, ServersOK, ClientsOK

LEMMA SentRequest ==
    ASSUME NEW from, NEW to, Base(from, to), NEW r, Sent(r)
    PROVE  /\ WellFormed(r) /\ r.token \in issued
           /\ r.src = from[r.token] /\ r.dst = to[r.token] /\ Pending(r.op, r.token)
<1>1. CASE r \in late
  BY <1>1, BaseParts DEF Base, Routed, RoutedRequests, ClientsOK, Pending
<1>2. ASSUME NEW c \in Client, pc[c] \in Ops, MaySend(c), r = Request(c)
      PROVE  /\ WellFormed(r) /\ r.token \in issued
             /\ r.src = from[r.token] /\ r.dst = to[r.token] /\ Pending(r.op, r.token)
  <2>1. /\ WellFormed(r) /\ r.op = pc[c] /\ r.token = journal[c].token
        /\ r.src = journal[c].src /\ r.dst = journal[c].dst /\ journal[c] # None
    <3>1. journal[c] # None
      BY <1>2, BaseParts DEF ClientsOK, Ops, SourceOps
    <3> QED BY <1>2, <3>1, BaseParts, RequestWellFormed
  <2> QED BY <2>1 DEF Base, Routed, RoutedClients, Pending, Holding
<1> QED BY <1>1, <1>2 DEF Sent

\* A packet of a warm file is one that was written.
LEMMA SentIsWarm ==
    ASSUME NEW from, NEW to, Base(from, to), NEW r, Sent(r), r.op = "import_put",
           Warm(from, r.token, r.arg.file)
    PROVE  r.arg.tag > 0
<1>1. CASE r \in late
  BY <1>1 DEF Warm
<1>2. ASSUME NEW c \in Client, pc[c] \in Ops, MaySend(c), r = Request(c)
      PROVE  r.arg.tag > 0
  <2>1. r.op = pc[c] /\ r.token = journal[c].token
    BY <1>2, BaseParts, RequestWellFormed
  <2>2. snapshot[r.token] # None
    BY <1>2, <2>1, SMTT(20) DEF MaySend
  <2>3. r.arg.file = cursor[c].file /\ r.arg.tag = snapshot[r.token][r.arg.file].tag
    BY <1>2, <2>1 DEF Request, Argument
  <2> QED BY <2>2, <2>3 DEF Warm, WarmCopies
<1> QED BY <1>1, <1>2 DEF Sent

\* What the sender of a request knew, still holds.
LEMMA SentIsWarranted ==
    ASSUME NEW from, NEW to, Base(from, to), NEW r, Sent(r)
    PROVE  /\ r.op \in Later => Begun(r.token) /\ \E f \in File : Warm(from, r.token, f)
           /\ r.op = "export_commit" => Arrived(from, to, r.token)
           /\ r.op = "import_activate" => GivenUp(from, r.token)
<1>1. Pending(r.op, r.token) /\ r.token \in issued
  BY SentRequest
<1> QED
  BY <1>1 DEF Base, RequestsInv, SourceIsWarm, CommitsArrived, ActivatesGivenUp, Begun,
     MayActivateNext

\* What is installed has records.
LEMMA StagedIsWritten ==
    ASSUME NEW from, NEW to, Base(from, to), NEW t \in issued, Complete(t),
           NEW f \in File, Warm(from, t, f)
    PROVE  StagedQueue(t) \in Queue /\ Written(StagedQueue(t))
<1>1. t \in Token /\ ServersOK
  BY BaseParts
<1>2. StagedQueue(t) \in Queue
  BY <1>1, StagedType DEF ServersOK
<1>3. received[t][f] \in Content /\ Verified(staged[t][f], received[t][f])
      /\ staged[t][f] \in Seq(0 .. MaxWrites)
  BY <1>1 DEF ServersOK, CopiesOK, ReceivedIsStaged, Complete
<1>4. Len(staged[t][f]) \in Nat \ {0}
  BY <1>3, VerifiedPackets, MigrationAssumption DEF Content
<1>5. staged[t][f][1] > 0
  BY <1>4 DEF Warm, WarmCopies
<1> QED BY <1>2, <1>5 DEF Written, StagedQueue

LEMMA ExportBeginMoves ==
    ASSUME NEW from, NEW to, Ground(from, to), NEW t \in issued,
           ExportBegin(from[t], t, to[t]) \/ ExportBeginCrash(from[t], t, to[t])
    PROVE  Moves(from, to)
<1>1. UNCHANGED files
  BY DEF ExportBegin, ExportBeginCrash
<1>2. UNCHANGED controlVars \/
          (/\ phase[from[t]] = "ACTIVE" /\ files[from[t]] # EmptyQueue
           /\ Freeze(from[t], t, to[t]))
  BY DEF ExportBegin, ExportBeginCrash, MayExport, Exporting
<1>3. CASE Freeze(from[t], t, to[t]) /\ phase[from[t]] = "ACTIVE"
           /\ files[from[t]] # EmptyQueue
  <2>1. Written(files[from[t]])
    BY <1>3, RoutesOf DEF Ground, QueuesInv, EmptyOrWritten
  <2> QED BY <1>1, <1>3, <2>1 DEF Moves, Freezes
<1> QED BY <1>1, <1>2, <1>3 DEF Moves

LEMMA ImportBeginMoves ==
    ASSUME NEW from, NEW to, Ground(from, to), NEW t \in issued, NEW z, Settled(from[t]),
           ImportBegin(to[t], t, from[t], z) \/ ImportBeginCrash(to[t], t, from[t], z)
    PROVE  Moves(from, to)
<1>1. UNCHANGED files
  BY DEF ImportBegin, ImportBeginCrash
<1>2. \/ UNCHANGED controlVars
      \/ /\ phase[to[t]] = "ACTIVE" /\ files[to[t]] = EmptyQueue
         /\ Adopt(to[t], t, from[t])
  BY DEF ImportBegin, ImportBeginCrash, MayImport, Activated, Adopt
<1> QED BY <1>1, <1>2 DEF Moves, Adopts

LEMMA ImportPrepareMoves ==
    ASSUME NEW from, NEW to, Base(from, to), NEW t \in issued,
           NEW f \in File, Warm(from, t, f),
           ImportPrepare(to[t], t) \/ ImportPrepareCrash(to[t], t)
    PROVE  Moves(from, to)
<1>1. CASE Installed(to[t], t)
  BY <1>1 DEF ImportPrepare, ImportPrepareCrash, Moves, controlVars
<1>2. CASE ~Installed(to[t], t)
  <2>1. Complete(t) /\ token[to[t]] = t /\ phase[to[t]] = "IMPORTING"
    BY <1>2 DEF ImportPrepare, ImportPrepareCrash, MayPrepare, Complete
  <2>2. StagedQueue(t) \in Queue /\ Written(StagedQueue(t))
    BY <2>1, StagedIsWritten
  <2>3. CASE ImportPrepare(to[t], t)
    <3>1. Installs(to, t)
      BY <1>2, <2>1, <2>2, <2>3 DEF ImportPrepare, Installs
    <3> QED BY <3>1 DEF Moves
  <2>4. CASE ImportPrepareCrash(to[t], t)
    BY <2>1, <2>4 DEF ImportPrepareCrash, Moves, Loses
  <2> QED BY <2>3, <2>4
<1> QED BY <1>1, <1>2

LEMMA ImportActivateMoves ==
    ASSUME NEW from, NEW to, Ground(from, to), NEW t \in issued, GivenUp(from, t),
           ImportActivate(to[t], t, from[t])
    PROVE  Moves(from, to)
<1>1. CASE phase[to[t]] = "PREPARED"
  BY <1>1 DEF ImportActivate, MayActivate, Moves, Activates
<1>2. CASE phase[to[t]] = "ACTIVE"
  BY <1>2, RoutesOf DEF ImportActivate, Moves, Restores
<1> QED BY <1>1, <1>2 DEF ImportActivate, MayActivate

LEMMA HandleMoves ==
    ASSUME NEW from, NEW to, Base(from, to), NEW r, Sent(r), Handle(r) \/ HandleCrash(r)
    PROVE  Moves(from, to)
<1> DEFINE t == r.token
<1>1. t \in issued /\ r.src = from[t] /\ r.dst = to[t] /\ Ground(from, to)
  BY SentRequest, BaseParts
<1>2. /\ r.op \in Later => Settled(from[t]) /\ \E f \in File : Warm(from, t, f)
      /\ r.op = "export_commit" => Arrived(from, to, t)
      /\ r.op = "import_activate" => GivenUp(from, t)
  BY SentIsWarranted DEF Warm, WarmCopies
<1> HIDE DEF t
<1>3. CASE ExportBegin(r.src, r.token, r.dst) \/ ExportBeginCrash(r.src, r.token, r.dst)
  BY <1>1, <1>3, ExportBeginMoves DEF t
<1>4. CASE r.op = "export_commit" /\ ExportCommit(r.src, r.token, r.dst)
  <2>1. Redirects(from, to, t)
    BY <1>1, <1>2, <1>4 DEF ExportCommit, MayRedirect, Exporting, Redirects, Moving, t
  <2> QED BY <1>1, <2>1 DEF Moves
<1>5. CASE ExportAbort(r.src, r.token)
  <2>1. from[t] \in Server /\ Restores(from[t])
    BY <1>1, <1>5, RoutesOf DEF ExportAbort, MayAbort, Restores
  <2> QED BY <2>1 DEF Moves
<1>6. CASE /\ r.op = "import_begin"
           /\ \/ ImportBegin(r.dst, r.token, r.src, r.arg)
              \/ ImportBeginCrash(r.dst, r.token, r.src, r.arg)
  BY <1>1, <1>2, <1>6, ImportBeginMoves DEF t, Later, Ops
<1>7. CASE /\ r.op = "import_prepare"
           /\ ImportPrepare(r.dst, r.token) \/ ImportPrepareCrash(r.dst, r.token)
  BY <1>1, <1>2, <1>7, ImportPrepareMoves DEF t, Later, Ops
<1>8. CASE r.op = "import_activate" /\ ImportActivate(r.dst, r.token, r.src)
  BY <1>1, <1>2, <1>8, ImportActivateMoves DEF t
<1>9. CASE UNCHANGED <<controlVars, files>>
  BY <1>9 DEF Moves
<1> QED
  BY <1>3, <1>4, <1>5, <1>6, <1>7, <1>8, <1>9
  DEF Handle, HandleCrash, ImportQuery, ImportPacket, ImportPacketCrash, serverVars

-----------------------------------------------------------------------------
(* A file that was written stays in every copy. *)

Requested(r) == Handle(r) \/ HandleCrash(r)

\* The files of a settled queue only change by a write.
LEMMA HandleFiles ==
    ASSUME NEW from, NEW to, Base(from, to), NEW r, Sent(r), Requested(r),
           NEW x \in Server, Settled(x)
    PROVE  files'[x] = files[x]
<1>1. CASE ImportPrepare(r.dst, r.token)
  <2>1. files' = files \/ (phase[r.dst] = "IMPORTING"
                              /\ files' = [files EXCEPT ![r.dst] = StagedQueue(r.token)])
    BY <1>1 DEF ImportPrepare, MayPrepare
  <2>2. phase[r.dst] = "IMPORTING" => x # r.dst
    BY DEF Settled
  <2> QED BY <2>1, <2>2, BaseParts DEF ServersOK
<1>2. CASE UNCHANGED files
  BY <1>2
<1> QED
  BY <1>1, <1>2 DEF Requested, Handle, HandleCrash, ExportBegin, ExportBeginCrash, ExportCommit,
     ExportAbort, ImportBegin, ImportBeginCrash, ImportQuery, ImportPacket,
     ImportPacketCrash, ImportPrepareCrash, ImportActivate, serverVars

LEMMA HandleSnapshot ==
    ASSUME NEW from, NEW to, Base(from, to), NEW r, Sent(r), Requested(r),
           NEW t \in Token
    PROVE  \/ snapshot'[t] = snapshot[t]
           \/ /\ r.token = t /\ r.op = "export_begin"
              /\ snapshot'[t] = None \/ snapshot'[t] = files[from[t]]
<1>1. r.token \in Token /\ r.src = from[r.token] /\ CopiesOK
  BY SentRequest, BaseParts DEF ServersOK
<1>2. CASE /\ r.op = "export_begin"
           /\ \/ ExportBegin(r.src, r.token, r.dst)
              \/ ExportBeginCrash(r.src, r.token, r.dst)
  <2>1. \/ snapshot' = [snapshot EXCEPT ![r.token] = files[r.src]]
        \/ snapshot' = [snapshot EXCEPT ![r.token] = None]
        \/ snapshot' = [snapshot EXCEPT ![r.token] = IF @ = None THEN files[r.src] ELSE @]
    BY <1>2 DEF ExportBegin, ExportBeginCrash
  <2> QED BY <1>1, <1>2, <2>1 DEF CopiesOK
<1>3. CASE UNCHANGED snapshot
  BY <1>3
<1> QED
  BY <1>2, <1>3 DEF Requested, Handle, HandleCrash, ExportCommit,
     ExportAbort, ImportBegin, ImportBeginCrash, ImportQuery, ImportPacket,
     ImportPacketCrash, ImportPrepare, ImportPrepareCrash, ImportActivate, serverVars,
     exportVars, importVars

LEMMA HandleStaged ==
    ASSUME NEW from, NEW to, Base(from, to), NEW r, Sent(r), Requested(r),
           NEW t \in Token, NEW f \in File
    PROVE  \/ staged'[t][f] = staged[t][f]
           \/ /\ r.token = t /\ r.op \in {"import_query", "import_put"}
              /\ \/ staged'[t][f] = <<>>
                 \/ /\ r.op = "import_put" /\ r.arg.file = f
                    /\ staged'[t][f] = Append(staged[t][f], r.arg.tag)
<1>1. WellFormed(r) /\ CopiesOK
  BY SentRequest, BaseParts DEF ServersOK
<1>2. CASE r.op = "import_query" /\ ImportQuery(r.dst, r.token, r.arg.file, r.arg.sha)
  <2>1. r.token \in Token /\ r.arg.file \in File
    BY <1>1, <1>2 DEF WellFormed
  <2>2. staged' = staged \/ staged' = [staged EXCEPT ![r.token][r.arg.file] = <<>>]
    <3>1. staged \in [Token -> [File -> Seq(0 .. MaxWrites)]]
      BY <1>1 DEF CopiesOK
    <3>2. \/ staged' = staged
          \/ staged' = [staged EXCEPT ![r.token][r.arg.file] =
                          IF Len(@) = r.arg.sha.size THEN <<>> ELSE @]
      BY <1>2 DEF ImportQuery
    <3>3. QED BY <2>1, <3>1, <3>2, ZenonT(60)
  <2>3. CASE staged' = [staged EXCEPT ![r.token][r.arg.file] = <<>>]
    <3>1. staged'[t][f] = staged[t][f] \/ (r.token = t /\ staged'[t][f] = <<>>)
      BY <1>1, <2>1, <2>3 DEF CopiesOK
    <3> QED BY <1>2, <3>1
  <2> QED BY <2>2, <2>3
<1>3. CASE /\ r.op = "import_put"
           /\ \/ ImportPacket(r.dst, r.token, r.arg.file, r.arg.sha, r.arg.offset, r.arg.tag)
              \/ ImportPacketCrash(r.dst, r.token, r.arg.file, r.arg.sha, r.arg.offset,
                                   r.arg.tag)
  <2>1. staged' = [staged EXCEPT ![r.token][r.arg.file] = Append(@, r.arg.tag)]
    BY <1>3 DEF ImportPacket, ImportPacketCrash
  <2> QED BY <1>1, <1>3, <2>1 DEF CopiesOK
<1>4. CASE UNCHANGED staged
  BY <1>4
<1> QED
  BY <1>2, <1>3, <1>4 DEF Requested, Handle, HandleCrash, ExportBegin, ExportBeginCrash,
     ExportCommit, ExportAbort, ImportBegin, ImportBeginCrash, ImportPrepare,
     ImportPrepareCrash, ImportActivate, serverVars, importVars

LEMMA HandleWarm ==
    ASSUME NEW from, NEW to, Base(from, to), NEW r, Sent(r), Requested(r),
           Lasting(from, to), NEW t \in issued, NEW f \in File, Warm(from, t, f)
    PROVE  WarmCopies(from, t, f)'
<1>1. from[t] \in Server /\ t \in Token /\ Settled(from[t])
  BY BaseParts, RoutesOf DEF Warm, WarmCopies
<1>2. Settled(from[t])'
  BY <1>1 DEF Lasting
<1>3. files'[from[t]][f].tag > 0
  BY <1>1, HandleFiles DEF Warm, WarmCopies
<1>4. snapshot'[t] # None => snapshot'[t][f].tag > 0
  BY <1>1, HandleSnapshot DEF Warm, WarmCopies
<1>5. \A i \in 1 .. Len(staged'[t][f]) : staged'[t][f][i] > 0
  <2>1. staged[t][f] \in Seq(0 .. MaxWrites)
    BY <1>1, BaseParts DEF ServersOK, CopiesOK
  <2>2. CASE staged'[t][f] = staged[t][f] \/ staged'[t][f] = <<>>
    BY <2>2 DEF Warm, WarmCopies
  <2>3. CASE r.op = "import_put" /\ r.token = t /\ r.arg.file = f
             /\ staged'[t][f] = Append(staged[t][f], r.arg.tag)
    <3>1. r.arg.tag > 0
      BY <2>3, SentIsWarm
    <3> QED BY <2>1, <2>3, <3>1 DEF Warm, WarmCopies
  <2> QED BY <1>1, <2>2, <2>3, HandleStaged
<1> QED BY <1>2, <1>3, <1>4, <1>5 DEF WarmCopies

\* export_begin finds records, and no copy of this migration.
LEMMA FirstSnapshot ==
    ASSUME NEW from, NEW to, Base(from, to), NEW r, Sent(r), Requested(r),
           Lasting(from, to), r.op = "export_begin", ~Begun(r.token)
    PROVE  \E f \in File : WarmCopies(from, r.token, f)'
<1> DEFINE t == r.token
           s == from[t]
<1>1. /\ t \in issued /\ t \in Token /\ s \in Server /\ r.src = s
  BY SentRequest, BaseParts, RoutesOf
<1>2. token[s] # t
  BY <1>1 DEF Begun
<1>3. phase[s] = "ACTIVE" /\ files[s] # EmptyQueue
  <2>1. ExportBegin(s, t, r.dst) \/ ExportBeginCrash(s, t, r.dst)
    BY <1>1 DEF Requested, Handle, HandleCrash
  <2> QED BY <1>2, <2>1 DEF ExportBegin, ExportBeginCrash, MayExport, Exporting
<1>4. PICK f \in File : files[s][f].tag > 0
  BY <1>1, <1>3 DEF Base, QueuesInv, EmptyOrWritten, Written
<1>5. Settled(s) /\ Settled(s)'
  BY <1>1, <1>3, <1>4 DEF Settled, Written, Lasting
<1>6. files'[s][f].tag > 0
  BY <1>1, <1>4, <1>5, HandleFiles
<1>7. snapshot'[t] # None => snapshot'[t][f].tag > 0
  <2>1. snapshot[t] = None
    BY <1>1 DEF Begun
  <2> QED BY <1>1, <1>4, <2>1, HandleSnapshot
<1>8. staged'[t][f] = <<>>
  BY <1>1, HandleStaged DEF Begun
<1> QED BY <1>5, <1>6, <1>7, <1>8 DEF WarmCopies

\* Only an accepted export_begin leaves a trace of a migration.
LEMMA NoTrace ==
    ASSUME NEW from, NEW to, Base(from, to), NEW r, Sent(r), Requested(r),
           NEW t \in issued, ~Begun(t), r.op = "export_begin" => r.token # t
    PROVE  /\ \A x \in Server : token'[x] # t
           /\ snapshot'[t] = None /\ \A f \in File : staged'[t][f] = <<>>
<1>1. t \in Token /\ WellFormed(r) /\ Pending(r.op, r.token)
  BY SentRequest, BaseParts
<1>2. r.op \in Later => r.token # t
  BY <1>1 DEF Begun
<1>3. snapshot'[t] = None
  BY <1>1, HandleSnapshot DEF Begun
<1>4. ASSUME NEW f \in File PROVE staged'[t][f] = <<>>
  BY <1>1, <1>2, <1>4, HandleStaged DEF Begun, Later, Ops
<1>5. ASSUME NEW x \in Server PROVE token'[x] # t
  <2>1. token[x] # t
    BY DEF Begun
  <2>2. CASE \/ token' = [token EXCEPT ![r.src] = r.token] /\ r.token # t
             \/ token' = [token EXCEPT ![r.dst] = r.token] /\ r.token # t
             \/ token' = token
    BY <2>1, <2>2, BaseParts DEF ServersOK, ControlsOK
  <2>3. CASE /\ r.op = "export_begin"
             /\ \/ ExportBegin(r.src, r.token, r.dst)
                \/ ExportBeginCrash(r.src, r.token, r.dst)
    BY <2>2, <2>3 DEF ExportBegin, ExportBeginCrash, Freeze, controlVars
  <2>4. CASE /\ r.op = "import_begin"
             /\ \/ ImportBegin(r.dst, r.token, r.src, r.arg)
                \/ ImportBeginCrash(r.dst, r.token, r.src, r.arg)
    BY <1>2, <2>2, <2>4 DEF ImportBegin, ImportBeginCrash, Adopt, Later, Ops, controlVars
  <2>5. CASE UNCHANGED token
    BY <2>2, <2>5
  <2> QED
    BY <2>3, <2>4, <2>5 DEF Requested, Handle, HandleCrash, ExportCommit, ExportAbort,
       ImportQuery, ImportPacket, ImportPacketCrash, ImportPrepare, ImportPrepareCrash,
       ImportActivate, serverVars, controlVars
<1> QED BY <1>3, <1>4, <1>5

-----------------------------------------------------------------------------
(* Who sends what next. *)

\* Nobody gets ahead: no client reaches a later request.
Calm ==
    /\ \A q \in late' : Sent(q)
    /\ \A b \in Client : pc'[b] \in Later =>
          pc'[b] = pc[b] /\ journal'[b] = journal[b] /\ seen'[b] = seen[b]

LEMMA CalmPending ==
    ASSUME NEW from, NEW to, Base(from, to), Calm, NEW t
    PROVE  /\ \A op \in Later : Pending(op, t)' => Pending(op, t)
           /\ MayActivateNext(t)' => MayActivateNext(t)
<1>1. \A q \in late' : Pending(q.op, q.token)
  BY SentRequest DEF Calm
<1>2. ASSUME NEW op \in Later, Pending(op, t)' PROVE Pending(op, t)
  BY <1>1, <1>2 DEF Pending, Holding, Calm
<1>3. "import_activate" \in Later /\ "import_begin" \in Later
  BY DEF Later, Ops
<1>4. ASSUME NEW c \in Client, Holding(c, t)', pc'[c] = "import_begin",
             seen'[c].phase # "EXPORTING"
      PROVE  MayActivateNext(t)
  BY <1>3, <1>4 DEF Calm, Holding, MayActivateNext
<1> QED BY <1>2, <1>3, <1>4 DEF MayActivateNext

\* The order in which a session sends its requests.
LEMMA CallNext ==
    ASSUME ServersOK, ClientsOK, NEW c \in Client, NEW r, r.op = pc[c], pc[c] \in Ops,
           Continue(c, r)
    PROVE  /\ \A b \in Client : b # c => pc'[b] = pc[b] /\ seen'[b] = seen[b]
           /\ pc'[c] \in Later => Accepts(r)
           /\ pc'[c] \in Later /\ pc[c] \notin Later => pc[c] = "export_begin"
           /\ pc'[c] = "export_commit" => pc[c] = "import_prepare"
           /\ pc'[c] = "import_activate" =>
                 \/ pc[c] = "export_commit"
                 \/ pc[c] = "import_begin" /\ seen[c].phase # "EXPORTING"
           /\ pc'[c] = "import_begin" =>
                 pc[c] = "export_begin" /\ seen'[c].phase = phase'[r.src]
<1> USE DEF Later, Ops, SourceOps, ClientsOK
<1>1. CASE ~Accepts(r)
  BY <1>1 DEF Continue, Goto
<1>2. CASE Accepts(r) /\ pc[c] = "export_begin"
  BY <1>2 DEF Continue, Goto
<1>3. CASE Accepts(r) /\ pc[c] = "import_begin"
  BY <1>3 DEF Continue, Goto
<1>4. CASE Accepts(r) /\ pc[c] = "import_query"
  BY <1>4 DEF Continue, Goto, Queried, NextFile
<1>5. CASE Accepts(r) /\ pc[c] = "import_put"
  <2>1. \/ Goto(c, "idle") \/ NextFile(c) \/ UNCHANGED pc
    BY <1>5 DEF Continue, Stored
  <2>2. UNCHANGED seen
    BY <1>5 DEF Continue
  <2> QED BY <1>5, <2>1, <2>2 DEF Goto, NextFile
<1>6. CASE Accepts(r) /\ pc[c] \in {"import_prepare", "export_commit", "import_activate",
                                    "export_abort"}
  BY <1>6 DEF Continue, Goto
<1> QED BY <1>1, <1>2, <1>3, <1>4, <1>5, <1>6

\* The invariants of the requests, from what a step does to each token.
LEMMA RequestsStay ==
    ASSUME NEW from, NEW to, Base(from, to), Lasting(from, to), UNCHANGED issued,
           FreshTokens',
           \A t \in issued, f \in File : Warm(from, t, f) => Warm(from, t, f)',
           \A t \in issued : Begun(t)' => Begun(t) \/ \E f \in File : Warm(from, t, f)',
           \A t \in issued : Pending("export_commit", t)' =>
               Pending("export_commit", t) \/ Arrived(from, to, t)',
           \A t \in issued : MayActivateNext(t)' => MayActivateNext(t) \/ GivenUp(from, t)'
    PROVE  RequestsInv(from, to)'
<1>1. SourceIsWarm(from)'
  BY DEF Base, RequestsInv, SourceIsWarm
<1>2. CommitsArrived(from, to)'
  BY DEF Base, RequestsInv, CommitsArrived, Lasting
<1>3. ActivatesGivenUp(from)'
  BY DEF Base, RequestsInv, ActivatesGivenUp, Lasting
<1> QED BY <1>1, <1>2, <1>3 DEF RequestsInv

\* A delayed packet was sent, so it is of a file that was written.
LEMMA WarmStays ==
    ASSUME NEW from, NEW to, Base(from, to), \A q \in late' : Sent(q),
           NEW t \in issued, NEW f \in File, Warm(from, t, f), WarmCopies(from, t, f)'
    PROVE  Warm(from, t, f)'
<1>1. ASSUME NEW q \in late', q.op = "import_put", q.token = t, q.arg.file = f
      PROVE  q.arg.tag > 0
  BY <1>1, SentIsWarm
<1> QED BY <1>1 DEF Warm

\* The first snapshot of a migration: no packet of it is on its way.
LEMMA FirstWarm ==
    ASSUME NEW from, NEW to, Base(from, to), NEW r, Sent(r), Requested(r),
           Lasting(from, to), r.op = "export_begin", ~Begun(r.token), \A q \in late' : Sent(q)
    PROVE  \E f \in File : Warm(from, r.token, f)'
<1>1. \A q \in late' : Pending(q.op, q.token)
  BY SentRequest
<1>2. \A q \in late' : q.op = "import_put" => q.token # r.token
  BY <1>1 DEF Begun, Later, Ops
<1>3. PICK f \in File : WarmCopies(from, r.token, f)'
  BY FirstSnapshot
<1>4. Warm(from, r.token, f)'
  BY <1>2, <1>3 DEF Warm
<1> QED BY <1>4

-----------------------------------------------------------------------------
(* The steps. *)

\* The routes of the clients and of the requests on their way.
LEMMA RoutesStay ==
    ASSUME NEW from, NEW to, Base(from, to), UNCHANGED issued, \A q \in late' : Sent(q),
           \A b \in Client : journal'[b] # None => journal'[b] = journal[b]
    PROVE  Routed(from, to)'
<1>1. RoutedRequests(from, to)'
  BY SentRequest DEF RoutedRequests
<1>2. RoutedClients(from, to)'
  BY DEF Base, Routed, RoutedClients
<1> QED BY <1>1, <1>2 DEF Base, Routed

OrderAfter(from, to) == Routed(from, to)' /\ QueuesInv(from, to)' /\ RequestsInv(from, to)'

\* A step that handles no request and leaves the copies as they are.
LEMMA QuietStep ==
    ASSUME NEW from, NEW to, Base(from, to), Moves(from, to), Calm,
           UNCHANGED <<token, snapshot, staged, issued>>,
           \A b \in Client : journal'[b] # None => journal'[b] = journal[b],
           \A x \in Server, f \in File : Settled(x) /\ files[x][f].tag > 0 => files'[x][f].tag > 0
    PROVE  OrderAfter(from, to)
<1>1. QueuesInv(from, to)' /\ Lasting(from, to)
  BY BaseParts, MovesKeep
<1>2. Routed(from, to)'
  BY RoutesStay DEF Calm
<1>3. FreshTokens'
  BY DEF Base, RequestsInv, FreshTokens
<1>4. ASSUME NEW t \in issued, NEW f \in File, Warm(from, t, f) PROVE Warm(from, t, f)'
  <2>1. from[t] \in Server
    BY BaseParts, RoutesOf
  <2>2. WarmCopies(from, t, f)'
    BY <1>1, <1>4, <2>1 DEF Warm, WarmCopies, Lasting
  <2> QED BY <1>4, <2>2, WarmStays DEF Calm
<1>5. ASSUME NEW t \in issued, Begun(t)' PROVE Begun(t)
  BY <1>5, CalmPending DEF Begun
<1>6. RequestsInv(from, to)'
  <2>1. "export_commit" \in Later
    BY DEF Later, Ops, SourceOps
  <2> QED BY <1>1, <1>3, <1>4, <1>5, <2>1, CalmPending, RequestsStay
<1> QED BY <1>1, <1>2, <1>6 DEF OrderAfter

LEMMA WriteOrder ==
    ASSUME NEW from, NEW to, Base(from, to), NEW s \in Server, Write(s)
    PROVE  OrderAfter(from, to)
<1>1. PICK others \in SUBSET (File \ {1}), sizes \in Sizes :
          files' = [files EXCEPT ![s] = [f \in File |->
                       IF f \in others \union {1}
                       THEN [tag |-> writes + 1, size |-> sizes[f]]
                       ELSE files[s][f]]]
  BY DEF Write
<1>2. writes \in Nat /\ writes + 1 \in 0 .. MaxWrites /\ files \in [Server -> Queue]
  BY BaseParts, MigrationAssumption DEF Write, ClientsOK, ServersOK
<1> DEFINE q == [f \in File |-> IF f \in others \union {1}
                                THEN [tag |-> writes + 1, size |-> sizes[f]]
                                ELSE files[s][f]]
<1>3. q \in Queue /\ 1 \in File /\ q[1].tag > 0 /\ files' = [files EXCEPT ![s] = q]
  BY <1>1, <1>2, EmptyQueueType DEF Queue, Content, Sizes
<1>4. \A g \in File : files[s][g].tag > 0 => q[g].tag > 0
  BY <1>2 DEF Queue
<1> HIDE DEF q
<1>5. Moves(from, to)
  BY <1>3 DEF Write, Open, Wrote, Written, Moves
<1>6. \A x \in Server, g \in File : files[x][g].tag > 0 => files'[x][g].tag > 0
  BY <1>2, <1>3, <1>4
<1>7. Calm
  BY DEF Write, Calm, Sent, clientVars
<1>8. UNCHANGED <<token, snapshot, staged, issued, journal>>
  BY DEF Write, controlVars, exportVars, importVars, clientVars
<1> QED BY <1>5, <1>6, <1>7, <1>8, QuietStep

LEMMA RecoverOrder ==
    ASSUME NEW from, NEW to, Base(from, to), NEW d \in Server, Recover(d)
    PROVE  OrderAfter(from, to)
<1> DEFINE t == token[d]
<1>1. /\ phase[d] = "MISSING" /\ t \in Token /\ t # None /\ Complete(t)
      /\ t \in issued /\ d = to[t] /\ Begun(t)
  <2>1. phase[d] = "MISSING" /\ t \in Token /\ Complete(t)
    BY BaseParts DEF Recover, ServersOK, MissingIsComplete
  <2> QED BY <2>1, BaseParts, RoutesOf, MigrationAssumption DEF Arriving, Begun
<1>2. PICK f \in File : Warm(from, t, f)
  BY <1>1 DEF Base, RequestsInv, SourceIsWarm
<1>3. StagedQueue(t) \in Queue /\ Written(StagedQueue(t))
  BY <1>1, <1>2, StagedIsWritten
<1>4. Installs(to, t)
  BY <1>1, <1>3 DEF Recover, Installs
<1>5. Moves(from, to)
  BY <1>1, <1>4 DEF Moves
<1>6. \A x \in Server : Settled(x) => files'[x] = files[x]
  BY <1>1, BaseParts DEF Recover, Settled, ServersOK
<1>7. Calm
  BY DEF Recover, Calm, Sent, clientVars
<1>8. UNCHANGED <<token, snapshot, staged, issued, journal>>
  BY DEF Recover, exportVars, importVars, clientVars
<1> QED BY <1>5, <1>6, <1>7, <1>8, QuietStep

\* A client moves on without a server.
LEMMA CalmOrder ==
    ASSUME NEW from, NEW to, Base(from, to), Calm, UNCHANGED <<serverVars, issued>>,
           \A b \in Client : journal'[b] # None => journal'[b] = journal[b]
    PROVE  OrderAfter(from, to)
<1>1. Moves(from, to)
  BY DEF Moves, serverVars
<1>2. UNCHANGED <<token, snapshot, staged, issued, files>>
  BY DEF serverVars, controlVars, exportVars, importVars
<1> QED BY <1>1, <1>2, QuietStep

LEMMA LocalOrder ==
    ASSUME NEW from, NEW to, Base(from, to), NEW c \in Client,
           \/ Resume(c) \/ Restore(c) \/ Switch(c) \/ Forget(c) \/ Follow(c) \/ Quit(c)
           \/ KeepJournal(c) \/ Break(c)
    PROVE  OrderAfter(from, to)
<1>1. UNCHANGED <<serverVars, issued, seen>>
  BY DEF Resume, Restore, Reopen, Switch, Forget, Follow, Quit, KeepJournal, Break, Fault
<1>2. \A q \in late' : Sent(q)
  <2>1. CASE UNCHANGED late
    BY <2>1 DEF Sent
  <2>2. CASE Break(c)
    BY <2>2 DEF Break, Sent
  <2> QED
    BY <2>1, <2>2 DEF Resume, Restore, Reopen, Switch, Forget, Follow, Quit, KeepJournal
<1>3. \A b \in Client : journal'[b] # None => journal'[b] = journal[b]
  <2>1. CASE UNCHANGED journal
    BY <2>1
  <2>2. CASE Forget(c)
    BY <2>2, BaseParts DEF Forget, ClientsOK
  <2> QED
    BY <2>1, <2>2 DEF Resume, Restore, Reopen, Switch, Follow, Quit, KeepJournal, Break, Fault
<1>4. \A b \in Client : pc'[b] \in Later => pc'[b] = pc[b] /\ journal'[b] = journal[b]
  <2>1. ASSUME NEW p \in {"idle", "switched", "export_begin", "export_abort"}, Goto(c, p),
               NEW b \in Client, pc'[b] \in Later
        PROVE  b # c /\ pc'[b] = pc[b]
    BY <2>1, BaseParts DEF Goto, ClientsOK, Later, Ops, SourceOps
  <2>2. CASE Forget(c)
    BY <2>1, <2>2, BaseParts DEF Forget, ClientsOK
  <2>3. CASE Follow(c)
    BY <2>3 DEF Follow
  <2>4. CASE Resume(c) \/ Restore(c) \/ Switch(c) \/ Quit(c) \/ KeepJournal(c) \/ Break(c)
    BY <2>1, <2>4 DEF Resume, Restore, Reopen, Switch, Quit, KeepJournal, Break, Fault
  <2> QED BY <2>2, <2>3, <2>4
<1>5. Calm
  BY <1>1, <1>2, <1>4 DEF Calm
<1> QED BY <1>1, <1>3, <1>5, CalmOrder

\* A server handles a request; only its sender may move on.
LEMMA HandleOrder ==
    ASSUME NEW from, NEW to, Base(from, to), NEW r, Sent(r), Requested(r),
           UNCHANGED <<issued, journal>>, \A q \in late' : Sent(q),
           \A t \in issued, op \in Later : Pending(op, t)' =>
               Pending(op, t) \/ (r.token = t /\ r.op \in {"export_begin"} \union Later),
           \A t \in issued : Pending("export_commit", t)' =>
               \/ Pending("export_commit", t)
               \/ r.token = t /\ r.op = "import_prepare" /\ Accepts(r) /\ Handle(r),
           \A t \in issued : MayActivateNext(t)' =>
               \/ MayActivateNext(t)
               \/ /\ r.token = t /\ r.op \in {"export_commit", "export_begin"}
                  /\ Accepts(r) /\ Handle(r) /\ phase'[r.src] # "EXPORTING"
    PROVE  OrderAfter(from, to)
<1>0. /\ r.token \in issued /\ r.token \in Token /\ r.src = from[r.token]
      /\ r.dst = to[r.token] /\ r.src \in Server /\ r.dst \in Server
      /\ Pending(r.op, r.token) /\ ServersOK /\ Ground(from, to)
  BY SentRequest, BaseParts, RoutesOf
<1>1. QueuesInv(from, to)' /\ Lasting(from, to)
  BY <1>0, HandleMoves, MovesKeep DEF Requested
<1>2. Routed(from, to)'
  BY RoutesStay
<1>3. FreshTokens'
  <2>1. ASSUME NEW t \in Token \ issued
        PROVE  snapshot'[t] = None /\ \A f \in File : staged'[t][f] = <<>>
    BY <1>0, HandleSnapshot, HandleStaged DEF Base, RequestsInv, FreshTokens
  <2> QED BY <2>1 DEF FreshTokens
<1>4. ASSUME NEW t \in issued, NEW f \in File, Warm(from, t, f) PROVE Warm(from, t, f)'
  BY <1>1, <1>4, HandleWarm, WarmStays
<1>5. ASSUME NEW t \in issued, Begun(t)', ~Begun(t)
      PROVE  \E f \in File : Warm(from, t, f)'
  <2>1. r.token = t => r.op \notin Later
    BY <1>0, <1>5 DEF Begun
  <2>2. r.token = t /\ r.op = "export_begin"
    <3>1. CASE \E op \in Later : Pending(op, t)'
      BY <1>5, <2>1, <3>1 DEF Begun
    <3>2. CASE ~ \E op \in Later : Pending(op, t)'
      BY <1>5, <3>2, NoTrace DEF Begun
    <3> QED BY <3>1, <3>2
  <2> QED BY <1>1, <1>5, <2>2, FirstWarm
<1>6. ASSUME NEW t \in issued, Pending("export_commit", t)'
      PROVE  Pending("export_commit", t) \/ Arrived(from, to, t)'
  <2>1. CASE r.token = t /\ r.op = "import_prepare" /\ Accepts(r) /\ Handle(r)
    <3>1. ImportPrepare(to[t], t)
      BY <1>0, <2>1 DEF Handle
    <3>2. token'[to[t]] = t /\ phase'[to[t]] \in {"PREPARED", "ACTIVE"}
      BY <1>0, <2>1, <3>1 DEF ImportPrepare, MayPrepare, Installed, ServersOK, ControlsOK
    <3> QED BY <1>1, <3>2 DEF QueuesInv, InstalledArrived
  <2> QED BY <1>6, <2>1
<1>7. ASSUME NEW t \in issued, MayActivateNext(t)'
      PROVE  MayActivateNext(t) \/ GivenUp(from, t)'
  <2>1. CASE r.token = t /\ r.op = "export_commit" /\ Handle(r)
    BY <1>0, <2>1 DEF Handle, ExportCommit, MayRedirect, Exporting, GivenUp, ServersOK,
       ControlsOK
  <2>2. CASE r.token = t /\ r.op = "export_begin" /\ Handle(r) /\ phase'[r.src] # "EXPORTING"
    <3>1. ExportBegin(r.src, r.token, r.dst)
      BY <2>2 DEF Handle
    <3> QED BY <1>0, <2>2, <3>1, ExportAnswer DEF GivenUp, Moving
  <2> QED BY <1>7, <2>1, <2>2
<1>8. RequestsInv(from, to)'
  BY <1>1, <1>3, <1>4, <1>5, <1>6, <1>7, RequestsStay
<1> QED BY <1>1, <1>2, <1>8 DEF OrderAfter

\* A delayed request, or one whose handler dies: its sender is not told.
LEMMA UnansweredOrder ==
    ASSUME NEW from, NEW to, Base(from, to), NEW r, Sent(r), Requested(r), Calm,
           UNCHANGED <<issued, journal>>
    PROVE  OrderAfter(from, to)
<1>1. "export_commit" \in Later
  BY DEF Later, Ops, SourceOps
<1> QED BY <1>1, CalmPending, HandleOrder DEF Calm

LEMMA RunLateOrder ==
    ASSUME NEW from, NEW to, Base(from, to), RunLate
    PROVE  OrderAfter(from, to)
<1>1. PICK r \in late : /\ late' = late \ {r} /\ Served(r)
                        /\ UNCHANGED <<clientVars, breaks, issued, writes, quits, faults>>
  BY DEF RunLate
<1>2. Calm /\ UNCHANGED <<issued, journal>> /\ Sent(r)
  BY <1>1 DEF Calm, Sent, clientVars
<1>3. CASE Handle(r)
  BY <1>2, <1>3, UnansweredOrder DEF Requested
<1>4. CASE UNCHANGED serverVars
  BY <1>2, <1>4, CalmOrder
<1> QED BY <1>1, <1>3, <1>4 DEF Served

LEMMA CrashOrder ==
    ASSUME NEW from, NEW to, Base(from, to), NEW c \in Client, Crash(c)
    PROVE  OrderAfter(from, to)
<1>1. Sent(Request(c)) /\ Requested(Request(c)) /\ UNCHANGED <<issued, journal, late, seen>>
  BY DEF Crash, Fault, Sent, Requested
<1>2. \A b \in Client : pc'[b] \in Later => pc'[b] = pc[b]
  BY BaseParts DEF Crash, Fault, Goto, ClientsOK, Later, Ops, SourceOps
<1>3. Calm
  BY <1>1, <1>2 DEF Calm, Sent
<1> QED BY <1>1, <1>3, UnansweredOrder

LEMMA CallOrder ==
    ASSUME NEW from, NEW to, Base(from, to), NEW c \in Client, Call(c)
    PROVE  OrderAfter(from, to)
<1>1. pc[c] \in Ops /\ UNCHANGED <<journal, late, issued>> /\ ServersOK /\ ClientsOK
  BY BaseParts DEF Call
<1>2. CASE ~MaySend(c) \/ (Call(c) /\ UNCHANGED serverVars /\ pc'[c] \notin Later)
  <2>1. UNCHANGED serverVars
    BY <1>2 DEF Call
  <2>2. \A b \in Client : pc'[b] \in Later => pc'[b] = pc[b] /\ seen'[b] = seen[b]
    <3>1. CASE ~MaySend(c)
      BY <1>1, <3>1 DEF Call, Goto, ClientsOK, Later, Ops, SourceOps
    <3>2. CASE MaySend(c) /\ pc'[c] \notin Later
      <4>1. Continue(c, Request(c)) /\ Request(c).op = pc[c]
        BY <1>1, <3>2, RequestWellFormed DEF Call
      <4> QED BY <1>1, <3>2, <4>1, CallNext
    <3> QED BY <1>2, <3>1, <3>2
  <2>3. Calm
    BY <1>1, <2>2 DEF Calm, Sent
  <2> QED BY <1>1, <2>1, <2>3, CalmOrder
<1>3. CASE MaySend(c)
  <2> DEFINE r == Request(c)
  <2>1. /\ Served(r) /\ Continue(c, r) /\ Sent(r)
        /\ r.op = pc[c] /\ r.token = journal[c].token /\ journal[c] # None
    <3>1. journal[c] # None
      BY <1>1 DEF ClientsOK, Ops, SourceOps
    <3> QED BY <1>1, <1>3, <3>1, RequestWellFormed DEF Call, Sent
  <2> HIDE DEF r
  <2>2. CASE ~Accepts(r)
    <3>1. UNCHANGED serverVars /\ pc'[c] \notin Later
      BY <1>1, <2>1, <2>2, CallNext DEF Served
    <3> QED BY <1>2, <3>1
  <2>3. CASE Accepts(r)
    <3>1. Handle(r) /\ Requested(r)
      BY <2>1, <2>3 DEF Served, Requested
    <3>2. /\ \A b \in Client : b # c => pc'[b] = pc[b] /\ seen'[b] = seen[b]
          /\ pc'[c] \in Later /\ pc[c] \notin Later => pc[c] = "export_begin"
          /\ pc'[c] = "export_commit" => pc[c] = "import_prepare"
          /\ pc'[c] = "import_activate" =>
                \/ pc[c] = "export_commit"
                \/ pc[c] = "import_begin" /\ seen[c].phase # "EXPORTING"
          /\ pc'[c] = "import_begin" =>
                pc[c] = "export_begin" /\ seen'[c].phase = phase'[r.src]
      BY <1>1, <2>1, CallNext
    <3>3. \A op, t : Pending(op, t)' =>
              Pending(op, t) \/ (r.token = t /\ pc'[c] = op)
      BY <1>1, <2>1, <3>2 DEF Pending, Holding
    <3>4. \A t \in issued, op \in Later : Pending(op, t)' =>
              Pending(op, t) \/ (r.token = t /\ r.op \in {"export_begin"} \union Later)
      BY <2>1, <3>2, <3>3
    <3>5. \A t \in issued : Pending("export_commit", t)' =>
              \/ Pending("export_commit", t)
              \/ r.token = t /\ r.op = "import_prepare" /\ Accepts(r) /\ Handle(r)
      BY <2>1, <2>3, <3>1, <3>2, <3>3
    <3>6. ASSUME NEW t \in issued, MayActivateNext(t)', ~MayActivateNext(t)
          PROVE  /\ r.token = t /\ r.op \in {"export_commit", "export_begin"}
                 /\ phase'[r.src] # "EXPORTING"
      <4>1. CASE Pending("import_activate", t)'
        <5>1. r.token = t /\ pc'[c] = "import_activate"
          BY <3>3, <3>6, <4>1 DEF MayActivateNext
        <5>2. Holding(c, t)
          BY <2>1, <5>1 DEF Holding
        <5>3. r.op = "export_commit"
          BY <2>1, <3>2, <3>6, <5>1, <5>2 DEF MayActivateNext
        <5>4. phase'[r.src] = "REDIRECT"
          BY <1>1, <2>1, <3>1, <5>3, SentRequest
             DEF Handle, ExportCommit, ServersOK, ControlsOK, WellFormed
        <5> QED BY <5>1, <5>3, <5>4
      <4>2. CASE ~Pending("import_activate", t)'
        <5>1. PICK b \in Client : /\ Holding(b, t)' /\ pc'[b] = "import_begin"
                                  /\ seen'[b].phase # "EXPORTING"
          BY <3>6, <4>2 DEF MayActivateNext
        <5>2. Holding(b, t)
          BY <1>1, <5>1 DEF Holding
        <5>3. b = c
          BY <3>2, <3>6, <5>1, <5>2 DEF MayActivateNext
        <5> QED BY <2>1, <3>2, <5>1, <5>2, <5>3 DEF Holding
      <4> QED BY <4>1, <4>2
    <3>7. \A t \in issued : MayActivateNext(t)' =>
              \/ MayActivateNext(t)
              \/ /\ r.token = t /\ r.op \in {"export_commit", "export_begin"}
                 /\ Accepts(r) /\ Handle(r) /\ phase'[r.src] # "EXPORTING"
      BY <2>3, <3>1, <3>6
    <3>8. \A q \in late' : Sent(q)
      BY <1>1 DEF Sent
    <3> QED BY <1>1, <2>1, <3>1, <3>4, <3>5, <3>7, <3>8, HandleOrder
  <2> QED BY <2>2, <2>3
<1> QED BY <1>2, <1>3

\* A fresh token gets the route its journal names.
LEMMA StartOrder ==
    ASSUME NEW from, NEW to, Base(from, to), NEW c \in Client, NEW t \in Token,
           NEW d \in Server, Start(c, t, d)
    PROVE  \E f1, g1 \in Route : OrderAfter(f1, g1)
<1> DEFINE j == [token |-> t, src |-> server[c], dst |-> d]
<1>1. /\ server[c] \in Server /\ from \in Route /\ to \in Route /\ issued \subseteq Token
      /\ Ground(from, to) /\ ClientsOK
  BY BaseParts DEF Base, ClientsOK
<1>2. PICK f1 \in Route, g1 \in Route :
          /\ f1[t] = server[c] /\ g1[t] = d
          /\ \A u \in Token : u # t => f1[u] = from[u] /\ g1[u] = to[u]
  <2>1. [from EXCEPT ![t] = server[c]] \in Route /\ [to EXCEPT ![t] = d] \in Route
    BY <1>1 DEF Route
  <2> QED BY <1>1, <2>1 DEF Route
<1>3. /\ t \notin issued /\ issued' = issued \union {t} /\ d # server[c]
      /\ journal' = [journal EXCEPT ![c] = j] /\ pc' = [pc EXCEPT ![c] = "export_begin"]
      /\ journal[c] = None /\ UNCHANGED <<serverVars, seen, late>>
  BY DEF Start, Goto
<1>4. /\ UNCHANGED <<phase, token, destination, previous, cluster, files, snapshot, staged>>
  BY <1>3 DEF serverVars, controlVars, exportVars, importVars
<1>5. /\ \A b \in Client : b # c => journal'[b] = journal[b] /\ pc'[b] = pc[b]
      /\ journal'[c] = j /\ pc'[c] = "export_begin"
      /\ j.token = t /\ j.src = server[c] /\ j.dst = d
  BY <1>1, <1>3 DEF ClientsOK
<1> HIDE DEF j
<1>6. \A u \in issued : f1[u] = from[u] /\ g1[u] = to[u]
  BY <1>1, <1>2, <1>3
<1>7. \A x \in Server : token[x] # None => token[x] \in issued /\ token[x] # t
  BY <1>1, <1>3, RoutesOf
<1>8. Routed(f1, g1)'
  <2>1. \A u \in issued' : f1[u] # g1[u]
    BY <1>2, <1>3, <1>6 DEF Base, Routed
  <2>2. RoutedClients(f1, g1)'
    <3>1. ASSUME NEW b \in Client, journal'[b] # None
          PROVE  /\ journal'[b].token \in issued'
                 /\ journal'[b].src = f1[journal'[b].token]
                 /\ journal'[b].dst = g1[journal'[b].token]
      <4>1. CASE b = c
        BY <1>2, <1>3, <1>5, <4>1
      <4>2. CASE b # c
        BY <1>3, <1>5, <1>6, <3>1, <4>2 DEF Base, Routed, RoutedClients
      <4> QED BY <4>1, <4>2
    <3> QED BY <3>1 DEF RoutedClients
  <2>3. RoutedRequests(f1, g1)'
    BY <1>3, <1>6 DEF Base, Routed, RoutedRequests
  <2> QED BY <2>1, <2>2, <2>3 DEF Routed
<1>9. QueuesInv(f1, g1)'
  <2>1. RoutedQueues(f1, g1)'
    BY <1>3, <1>4, <1>6, <1>7 DEF Base, QueuesInv, RoutedQueues
  <2>2. EmptyOrWritten' /\ SameCluster' /\ OneHolder'
    BY <1>4 DEF Base, QueuesInv, EmptyOrWritten, Written, SameCluster, OneHolder, Holds,
       InUse, Heir
  <2>3. SourcesSettled(f1)'
    BY <1>4, <1>6, <1>7 DEF Base, QueuesInv, SourcesSettled, Settled, Written
  <2>4. InstalledArrived(f1, g1)'
    <3>1. ASSUME NEW u \in issued
          PROVE  /\ GivenUp(f1, u)' => GivenUp(from, u)
                 /\ Arrived(from, to, u) => Arrived(f1, g1, u)'
      BY <1>4, <1>6 DEF GivenUp, Arrived, Written
    <3>2. \A x \in Server : token[x] # t
      BY <1>7, MigrationAssumption
    <3>3. ~GivenUp(f1, t)' /\ token[g1[t]] # t
      BY <1>1, <1>2, <1>4, <3>2 DEF GivenUp
    <3> QED BY <1>3, <1>4, <1>6, <3>1, <3>3 DEF Base, QueuesInv, InstalledArrived
  <2> QED BY <2>1, <2>2, <2>3, <2>4 DEF QueuesInv
<1>10. RequestsInv(f1, g1)'
  <2>1. \A u : Holding(c, u)' => u = t
    BY <1>5 DEF Holding
  <2>2. \A op \in Later : \A u : Pending(op, u)' => Pending(op, u)
    <3>1. "export_begin" \notin Later
      BY DEF Later
    <3> QED BY <1>3, <1>5, <3>1 DEF Pending, Holding
  <2>3. \A u : MayActivateNext(u)' => MayActivateNext(u)
    BY <1>3, <1>5, <2>2, ZenonT(40) DEF MayActivateNext, Holding, Later, Ops
  <2>4. \A op \in Later : ~Pending(op, t)
    BY <1>3 DEF Pending, Holding, Base, Routed, RoutedClients, RoutedRequests
  <2>5. FreshTokens'
    BY <1>3, <1>4 DEF Base, RequestsInv, FreshTokens
  <2>6. SourceIsWarm(f1)'
    <3>1. ASSUME NEW u \in issued', Begun(u)' PROVE u \in issued /\ Begun(u)
      <4>1. Begun(u)
        BY <1>4, <2>2, <3>1 DEF Begun
      <4>2. ~Begun(t)
        BY <1>3, <1>7, <2>4, MigrationAssumption DEF Begun, Base, RequestsInv, FreshTokens
      <4> QED BY <1>3, <4>1, <4>2
    <3>2. ASSUME NEW u \in issued, NEW f \in File, Warm(from, u, f) PROVE Warm(f1, u, f)'
      BY <1>3, <1>4, <1>6, <3>2 DEF Warm, WarmCopies, Settled, Written
    <3> QED BY <3>1, <3>2 DEF SourceIsWarm, Base, RequestsInv
  <2>7. CommitsArrived(f1, g1)'
    <3>1. ASSUME NEW u \in issued', Pending("export_commit", u)'
          PROVE  u \in issued /\ Pending("export_commit", u)
      BY <1>3, <2>2, <2>4, <3>1 DEF Later, Ops, SourceOps
    <3>2. ASSUME NEW u \in issued, Arrived(from, to, u) PROVE Arrived(f1, g1, u)'
      BY <1>4, <1>6, <3>2 DEF Arrived, Written
    <3> QED BY <3>1, <3>2 DEF CommitsArrived, Base, RequestsInv
  <2>8. ActivatesGivenUp(f1)'
    <3>1. ASSUME NEW u \in issued', MayActivateNext(u)'
          PROVE  u \in issued /\ MayActivateNext(u)
      <4>1. ~MayActivateNext(t)
        BY <1>3, <2>4 DEF MayActivateNext, Holding, Later, Ops, Base, Routed, RoutedClients
      <4> QED BY <1>3, <2>3, <3>1, <4>1
    <3>2. ASSUME NEW u \in issued, GivenUp(from, u) PROVE GivenUp(f1, u)'
      BY <1>4, <1>6, <3>2 DEF GivenUp
    <3> QED BY <3>1, <3>2 DEF ActivatesGivenUp, Base, RequestsInv
  <2> QED BY <2>5, <2>6, <2>7, <2>8 DEF RequestsInv
<1> QED BY <1>2, <1>8, <1>9, <1>10 DEF OrderAfter

LEMMA InitOrder == Init => OrderInv
<1> SUFFICES ASSUME Init PROVE OrderInv
  OBVIOUS
<1>1. PICK s \in Server : TRUE
  BY DEF Init
<1> DEFINE r == [t \in Token |-> s]
<1>2. r \in Route
  BY DEF Route
<1>3. issued = {} /\ late = {} /\ \A c \in Client : journal[c] = None
  BY DEF Init
<1>4. \A x \in Server : /\ phase[x] = "ACTIVE" /\ token[x] = None
                        /\ cluster[x] = x /\ files[x] = EmptyQueue
  BY DEF Init
<1>5. Routed(r, r)
  BY <1>3 DEF Routed, RoutedClients, RoutedRequests
<1>6. QueuesInv(r, r)
  BY <1>3, <1>4 DEF QueuesInv, RoutedQueues, EmptyOrWritten, SourcesSettled, SameCluster,
     InstalledArrived, OneHolder, Holds, InUse, Heir, Moving, Arriving
<1>7. RequestsInv(r, r)
  BY <1>3 DEF Init, RequestsInv, SourceIsWarm, CommitsArrived, ActivatesGivenUp, FreshTokens
<1> QED BY <1>2, <1>5, <1>6, <1>7 DEF OrderInv

LEMMA NextOrder == MigrationInv /\ OrderInv /\ [Next]_vars => OrderInv'
<1> SUFFICES ASSUME MigrationInv, OrderInv, [Next]_vars PROVE OrderInv'
  OBVIOUS
<1>1. PICK from \in Route, to \in Route : Base(from, to)
  BY DEF OrderInv, Base
<1>2. ASSUME OrderAfter(from, to) PROVE OrderInv'
  BY <1>2 DEF OrderInv, OrderAfter, Route
<1>3. ASSUME NEW c \in Client, NEW t \in Token, NEW d \in Server, Start(c, t, d)
      PROVE  OrderInv'
  BY <1>1, <1>3, StartOrder DEF OrderInv, OrderAfter, Route
<1>4. CASE UNCHANGED vars
  <2>1. Calm /\ UNCHANGED <<serverVars, issued, journal>>
    BY <1>4 DEF vars, clientVars, Calm, Sent
  <2> QED BY <1>1, <1>2, <2>1, CalmOrder
<1> QED
  BY <1>1, <1>2, <1>3, <1>4, WriteOrder, RecoverOrder, RunLateOrder, LocalOrder, CallOrder,
     CrashOrder DEF Next

LEMMA OrderAlways == Spec => []OrderInv
BY InitOrder, NextOrder, MigrationAlways, PTL DEF Spec

\* Never two writable copies: of the queues with one cluster identity, at most
\* one is ACTIVE, whatever is interrupted, restored, delayed or half done
\* (control.py export_begin, export_abort, export_commit, import_activate).
THEOREM OneWriter == Spec => []SingleWriter
<1>1. OrderInv => SingleWriter
  BY DEF OrderInv, QueuesInv, OneHolder, Holds, InUse, SingleWriter
<1> QED BY <1>1, OrderAlways, PTL

\* A queue that refuses rollback has a successor with its records: prepared,
\* in use, or moved on in its turn (control.py export_commit).
THEOREM RedirectsLead == Spec => []RedirectLeads
<1>1. ASSUME TypeOK, OrderInv PROVE RedirectLeads
  <2>1. PICK from \in Route, to \in Route : Routed(from, to) /\ QueuesInv(from, to)
    BY <1>1 DEF OrderInv
  <2>2. ASSUME NEW s \in Server, phase[s] = "REDIRECT"
        PROVE  /\ previous[destination[s]] = s
               /\ phase[destination[s]] \in {"PREPARED", "ACTIVE", "EXPORTING", "REDIRECT"}
    <3>1. /\ token[s] \in issued /\ from[token[s]] = s
          /\ destination[s] = to[token[s]]
      BY <2>1, <2>2 DEF QueuesInv, RoutedQueues, Moving
    <3>2. Arrived(from, to, token[s])
      BY <2>1, <2>2, <3>1 DEF QueuesInv, InstalledArrived, GivenUp
    <3> QED BY <3>1, <3>2 DEF Arrived, Lead
  <2> QED BY <2>2 DEF RedirectLeads
<1>2. TypeOK /\ OrderInv => RedirectLeads
  BY <1>1
<1> QED BY <1>2, OrderAlways, MigrationTypeCorrect, PTL
-----------------------------------------------------------------------------
(* What holds as long as no request outlives its session. *)

\* A journal belongs to one computer.
HeldOnce ==
    \A b, c \in Client :
        (journal[b] # None /\ journal[c] # None /\ journal[b].token = journal[c].token) => b = c

\* The import of a client is under way at its destination.
Filling(c) == /\ token[journal[c].dst] = journal[c].token
              /\ phase[journal[c].dst] = "IMPORTING"

\* A file was received as the snapshot has it.
Copied(t, f) == snapshot[t] # None /\ received[t][f] = snapshot[t][f]

\* What a session has copied is of the snapshot it copies from.
SessionCopies(c) ==
    Filling(c) =>
        /\ pc[c] \in {"import_query", "import_put"} =>
              \A f \in File : f < cursor[c].file => Copied(journal[c].token, f)
        /\ pc[c] = "import_prepare" => \A f \in File : Copied(journal[c].token, f)
        /\ pc[c] = "import_put" =>
              /\ snapshot[journal[c].token] # None
              /\ cursor[c].sha = snapshot[journal[c].token][cursor[c].file]

\* The snapshots of a token that are still on disk.
OnDisk(t) == retained[t] \union ({snapshot[t]} \ {None})

InstalledOnDisk ==
    \A d \in Server :
        /\ phase[d] = "PREPARED" => files[d] \in OnDisk(token[d])
        /\ phase[d] = "MISSING" => StagedQueue(token[d]) \in OnDisk(token[d])

\* A journal is set aside only when its source is given up or in use again.
Left(c) == phase[journal[c].src] = "REDIRECT" /\ token[journal[c].src] = journal[c].token
MayForget(c) ==
    /\ journal[c].dst = server[c] \/ pc[c] \in {"switch", "switched"} => Left(c)
    /\ pc[c] = "restored" =>
          ~(phase[journal[c].src] = "EXPORTING" /\ token[journal[c].src] = journal[c].token)

PromptInv ==
    /\ HeldOnce /\ InstalledOnDisk /\ FrozenIsOwned
    /\ \A c \in Client : journal[c] # None => SessionCopies(c) /\ MayForget(c)

\* What a request with this token does, whether its handler ends or dies.
Effect(r) ==
    \/ /\ r.op = "export_begin"
       /\ ExportBegin(r.src, r.token, r.dst) \/ ExportBeginCrash(r.src, r.token, r.dst)
    \/ r.op = "export_commit" /\ ExportCommit(r.src, r.token, r.dst)
    \/ r.op = "export_abort" /\ ExportAbort(r.src, r.token)
    \/ /\ r.op = "import_begin"
       /\ \/ ImportBegin(r.dst, r.token, r.src, r.arg)
          \/ ImportBeginCrash(r.dst, r.token, r.src, r.arg)
    \/ r.op = "import_query" /\ ImportQuery(r.dst, r.token, r.arg.file, r.arg.sha)
    \/ /\ r.op = "import_put"
       /\ \/ ImportPacket(r.dst, r.token, r.arg.file, r.arg.sha, r.arg.offset, r.arg.tag)
          \/ ImportPacketCrash(r.dst, r.token, r.arg.file, r.arg.sha, r.arg.offset, r.arg.tag)
    \/ /\ r.op = "import_prepare"
       /\ ImportPrepare(r.dst, r.token) \/ ImportPrepareCrash(r.dst, r.token)
    \/ r.op = "import_activate" /\ ImportActivate(r.dst, r.token, r.src)
    \/ r.op \in {"import_query", "import_put"} /\ Skips(r.dst, r.token) /\ UNCHANGED serverVars

LEMMA RequestedEffect == ASSUME NEW r, Requested(r) PROVE Effect(r)
BY DEF Requested, Effect, Handle, HandleCrash

\* A request changes the queues it names, and only under its token.
LEMMA EffectControls ==
    ASSUME ServersOK, NEW r, WellFormed(r), Effect(r), NEW x \in Server
    PROVE  \/ token'[x] = token[x] /\ phase'[x] = phase[x] /\ files'[x] = files[x]
           \/ /\ r.op = "export_begin" /\ x = r.src /\ phase[x] = "ACTIVE"
              /\ token'[x] = r.token /\ phase'[x] = "EXPORTING" /\ files'[x] = files[x]
           \/ /\ r.op = "export_commit" /\ x = r.src /\ phase[x] \in Moving
              /\ token[x] = r.token /\ token'[x] = r.token
              /\ phase'[x] = "REDIRECT" /\ files'[x] = files[x]
           \/ /\ r.op = "export_abort" /\ x = r.src /\ phase[x] = "EXPORTING"
              /\ token[x] = r.token /\ token'[x] = r.token
              /\ phase'[x] = "ACTIVE" /\ files'[x] = files[x]
           \/ /\ r.op = "import_begin" /\ x = r.dst /\ phase[x] = "ACTIVE"
              /\ token'[x] = r.token /\ phase'[x] = "IMPORTING" /\ files'[x] = files[x]
           \/ /\ r.op = "import_prepare" /\ x = r.dst /\ phase[x] = "IMPORTING"
              /\ token[x] = r.token /\ token'[x] = r.token
              /\ \/ phase'[x] = "PREPARED" /\ files'[x] = StagedQueue(r.token)
                 \/ phase'[x] = "MISSING" /\ files'[x] = files[x]
           \/ /\ r.op = "import_activate" /\ x = r.dst /\ phase[x] = "PREPARED"
              /\ token[x] = r.token /\ token'[x] = r.token
              /\ phase'[x] = "ACTIVE" /\ files'[x] = files[x]
<1>0. /\ phase \in [Server -> {"ACTIVE", "EXPORTING", "REDIRECT", "IMPORTING", "PREPARED", "MISSING"}]
      /\ token \in [Server -> Token \union {None}] /\ files \in [Server -> Queue]
      /\ r.src \in Server /\ r.dst \in Server
  BY DEF ServersOK, ControlsOK, WellFormed
<1>1. CASE /\ r.op = "export_begin"
           /\ ExportBegin(r.src, r.token, r.dst) \/ ExportBeginCrash(r.src, r.token, r.dst)
  BY <1>0, <1>1 DEF ExportBegin, ExportBeginCrash, Freeze, controlVars
<1>2. CASE r.op = "export_commit" /\ ExportCommit(r.src, r.token, r.dst)
  BY <1>0, <1>2 DEF ExportCommit, MayRedirect, Exporting, Moving
<1>3. CASE r.op = "export_abort" /\ ExportAbort(r.src, r.token)
  BY <1>0, <1>3 DEF ExportAbort, MayAbort
<1>4. CASE /\ r.op = "import_begin"
           /\ \/ ImportBegin(r.dst, r.token, r.src, r.arg)
              \/ ImportBeginCrash(r.dst, r.token, r.src, r.arg)
  BY <1>0, <1>4 DEF ImportBegin, ImportBeginCrash, Adopt, controlVars
<1>5. CASE /\ r.op = "import_prepare"
           /\ ImportPrepare(r.dst, r.token) \/ ImportPrepareCrash(r.dst, r.token)
  <2>1. CASE Installed(r.dst, r.token)
    BY <1>5, <2>1 DEF ImportPrepare, ImportPrepareCrash
  <2>2. CASE ~Installed(r.dst, r.token)
    <3>1. phase[r.dst] = "IMPORTING" /\ token[r.dst] = r.token /\ token' = token
      BY <1>5, <2>2 DEF ImportPrepare, ImportPrepareCrash, MayPrepare
    <3>2. \/ /\ phase' = [phase EXCEPT ![r.dst] = "PREPARED"]
             /\ files' = [files EXCEPT ![r.dst] = StagedQueue(r.token)]
          \/ phase' = [phase EXCEPT ![r.dst] = "MISSING"] /\ files' = files
      BY <1>5, <2>2 DEF ImportPrepare, ImportPrepareCrash
    <3> QED BY <1>0, <1>5, <3>1, <3>2
  <2> QED BY <2>1, <2>2
<1>6. CASE r.op = "import_activate" /\ ImportActivate(r.dst, r.token, r.src)
  BY <1>0, <1>6 DEF ImportActivate, MayActivate
<1>7. CASE UNCHANGED <<phase, token, files>>
  BY <1>7
<1> QED
  BY <1>1, <1>2, <1>3, <1>4, <1>5, <1>6, <1>7
  DEF Effect, ImportQuery, ImportPacket, ImportPacketCrash, serverVars, controlVars

LEMMA OneReceived ==
    ASSUME received \in [Token -> [File -> Content \union {None}]],
           NEW t \in Token, NEW g \in File, NEW sha,
           received' = [received EXCEPT ![t][g] = sha], NEW u \in Token, NEW f \in File
    PROVE  received'[u][f] = received[u][f] \/ (f = g /\ received'[u][f] = sha)
<1>1. received' = [received EXCEPT ![t] = [received[t] EXCEPT ![g] = sha]]
  OBVIOUS
<1>2. received'[u] = IF u = t THEN [received[t] EXCEPT ![g] = sha] ELSE received[u]
  BY <1>1
<1>3. received[t] \in [File -> Content \union {None}]
  OBVIOUS
<1> QED BY <1>2, <1>3

\* A request changes the copies of its token only, and a snapshot is never lost.
LEMMA EffectCopies ==
    ASSUME ServersOK, NEW r, WellFormed(r), Effect(r), NEW u \in Token
    PROVE  /\ u # r.token => /\ snapshot'[u] = snapshot[u] /\ retained'[u] = retained[u]
                             /\ staged'[u] = staged[u] /\ received'[u] = received[u]
           /\ r.op # "export_begin" => snapshot'[u] = snapshot[u] /\ retained'[u] = retained[u]
           /\ \/ staged'[u] = staged[u] /\ received'[u] = received[u]
              \/ /\ u = r.token /\ token[r.dst] = u /\ phase[r.dst] = "IMPORTING"
                 /\ r.op \in {"import_query", "import_put"}
                 /\ \A f \in File : \/ received'[u][f] = received[u][f]
                                    \/ f = r.arg.file /\ received'[u][f] = r.arg.sha
           /\ OnDisk(u) \subseteq OnDisk(u)'
<1>0. /\ snapshot \in [Token -> Queue \union {None}] /\ retained \in [Token -> SUBSET Queue]
      /\ staged \in [Token -> [File -> Seq(0 .. MaxWrites)]]
      /\ received \in [Token -> [File -> Content \union {None}]] /\ r.token \in Token
  BY DEF ServersOK, CopiesOK, WellFormed
<1>1. CASE UNCHANGED <<exportVars, staged, received>>
  BY <1>1 DEF exportVars, OnDisk
<1>2. CASE /\ r.op = "export_begin"
           /\ ExportBegin(r.src, r.token, r.dst) \/ ExportBeginCrash(r.src, r.token, r.dst)
  <2>1. UNCHANGED <<staged, received>>
    BY <1>2 DEF ExportBegin, ExportBeginCrash, importVars
  <2>2. CASE SetAside(r.token) /\ \E q : snapshot' = [snapshot EXCEPT ![r.token] = q]
    <3>1. PICK q : snapshot' = [snapshot EXCEPT ![r.token] = q]
      BY <2>2
    <3>2. retained' = [retained EXCEPT ![r.token] =
                IF snapshot[r.token] = None THEN @ ELSE @ \union {snapshot[r.token]}]
      BY <2>2 DEF SetAside
    <3>3. \/ retained'[u] = retained[u] /\ snapshot'[u] = snapshot[u]
          \/ u = r.token /\ snapshot[u] = None /\ retained'[u] = retained[u]
          \/ u = r.token /\ retained'[u] = retained[u] \union {snapshot[u]}
      BY <1>0, <3>1, <3>2
    <3>4. OnDisk(u) \subseteq OnDisk(u)'
      BY <3>3 DEF OnDisk
    <3>5. u # r.token => snapshot'[u] = snapshot[u] /\ retained'[u] = retained[u]
      BY <1>0, <3>1, <3>2
    <3> QED BY <1>2, <2>1, <3>4, <3>5
  <2>3. CASE /\ UNCHANGED retained
             /\ snapshot' = [snapshot EXCEPT ![r.token] = IF @ = None THEN files[r.src] ELSE @]
    <3>1. snapshot'[u] = snapshot[u] \/ (u = r.token /\ snapshot[u] = None)
      BY <1>0, <2>3
    <3>2. OnDisk(u) \subseteq OnDisk(u)'
      BY <2>3, <3>1 DEF OnDisk
    <3> QED BY <1>2, <2>1, <2>3, <3>1, <3>2
  <2> QED BY <1>2, <2>2, <2>3 DEF ExportBegin, ExportBeginCrash
<1>3. CASE r.op = "import_query" /\ ImportQuery(r.dst, r.token, r.arg.file, r.arg.sha)
  <2>1. /\ UNCHANGED exportVars /\ token[r.dst] = r.token /\ phase[r.dst] = "IMPORTING"
        /\ r.arg.file \in File
    BY <1>3 DEF ImportQuery, MayPut, WellFormed
  <2>2. \/ /\ received' = [received EXCEPT ![r.token][r.arg.file] = r.arg.sha]
           /\ UNCHANGED staged
        \/ /\ staged' = [staged EXCEPT ![r.token][r.arg.file] =
                            IF Len(@) = r.arg.sha.size THEN <<>> ELSE @]
           /\ UNCHANGED received
    BY <1>3 DEF ImportQuery
  <2>3. u # r.token => staged'[u] = staged[u] /\ received'[u] = received[u]
    BY <1>0, <2>1, <2>2
  <2>4. ASSUME NEW f \in File
        PROVE  received'[u][f] = received[u][f] \/ (f = r.arg.file /\ received'[u][f] = r.arg.sha)
    <3>1. \/ UNCHANGED received
          \/ received' = [received EXCEPT ![r.token][r.arg.file] = r.arg.sha]
      BY <2>2
    <3>2. CASE received' = [received EXCEPT ![r.token][r.arg.file] = r.arg.sha]
      <4>1. PICK t \in Token, g \in File, sha \in {r.arg.sha} : t = r.token /\ g = r.arg.file
        BY <1>0, <2>1
      <4>2. received' = [received EXCEPT ![t][g] = sha]
        BY <3>2, <4>1
      <4> QED BY <1>0, <4>1, <4>2, OneReceived
    <3> QED BY <3>1, <3>2
  <2> QED BY <1>3, <2>1, <2>3, <2>4 DEF exportVars, OnDisk
<1>4. CASE /\ r.op = "import_put"
           /\ \/ ImportPacket(r.dst, r.token, r.arg.file, r.arg.sha, r.arg.offset, r.arg.tag)
              \/ ImportPacketCrash(r.dst, r.token, r.arg.file, r.arg.sha, r.arg.offset, r.arg.tag)
  <2>1. /\ UNCHANGED exportVars /\ token[r.dst] = r.token /\ phase[r.dst] = "IMPORTING"
        /\ r.arg.file \in File
    BY <1>4 DEF ImportPacket, ImportPacketCrash, MayAppend, MayPut, WellFormed
  <2>2. /\ staged' = [staged EXCEPT ![r.token][r.arg.file] = Append(@, r.arg.tag)]
        /\ \/ received' = [received EXCEPT ![r.token][r.arg.file] = r.arg.sha]
           \/ UNCHANGED received
    BY <1>4 DEF ImportPacket, ImportPacketCrash
  <2>3. u # r.token => staged'[u] = staged[u] /\ received'[u] = received[u]
    BY <1>0, <2>1, <2>2
  <2>4. ASSUME NEW f \in File
        PROVE  received'[u][f] = received[u][f] \/ (f = r.arg.file /\ received'[u][f] = r.arg.sha)
    <3>1. \/ UNCHANGED received
          \/ received' = [received EXCEPT ![r.token][r.arg.file] = r.arg.sha]
      BY <2>2
    <3>2. CASE received' = [received EXCEPT ![r.token][r.arg.file] = r.arg.sha]
      <4>1. PICK t \in Token, g \in File, sha \in {r.arg.sha} : t = r.token /\ g = r.arg.file
        BY <1>0, <2>1
      <4>2. received' = [received EXCEPT ![t][g] = sha]
        BY <3>2, <4>1
      <4> QED BY <1>0, <4>1, <4>2, OneReceived
    <3> QED BY <3>1, <3>2
  <2> QED BY <1>4, <2>1, <2>3, <2>4 DEF exportVars, OnDisk
<1> QED
  BY <1>1, <1>2, <1>3, <1>4
  DEF Effect, ExportCommit, ExportAbort, ImportBegin, ImportBeginCrash, ImportPrepare,
      ImportPrepareCrash, ImportActivate, serverVars, importVars

\* The files received whole from a snapshot are that snapshot.
LEMMA StagedIsSnapshot ==
    ASSUME ServersOK, NEW t \in Token, Complete(t), \A f \in File : Copied(t, f)
    PROVE  StagedQueue(t) = snapshot[t] /\ StagedQueue(t) \in OnDisk(t)
<1>1. snapshot[t] # None /\ snapshot[t] \in Queue
  BY EmptyQueueType DEF Copied, ServersOK, CopiesOK
<1>2. ASSUME NEW f \in File
      PROVE  [tag |-> staged[t][f][1], size |-> Len(staged[t][f])] = snapshot[t][f]
  <2>1. snapshot[t][f] \in Content
    BY <1>1 DEF Queue
  <2>2. Verified(staged[t][f], snapshot[t][f])
    BY DEF Copied, Complete, ServersOK, ReceivedIsStaged
  <2>3. staged[t][f] \in Seq(0 .. MaxWrites)
    BY DEF ServersOK, CopiesOK
  <2>4. Len(staged[t][f]) = snapshot[t][f].size /\ staged[t][f][1] = snapshot[t][f].tag
    BY <2>1, <2>2, <2>3, VerifiedPackets
  <2> QED BY <2>1, <2>4 DEF Content
<1>3. StagedQueue(t) = [f \in File |-> snapshot[t][f]]
  BY <1>2 DEF StagedQueue
<1>4. StagedQueue(t) = snapshot[t]
  BY <1>1, <1>3 DEF Queue
<1> QED BY <1>1, <1>4 DEF OnDisk

Sends(c, r) == pc[c] \in Ops /\ MaySend(c) /\ r = Request(c)

LEMMA SendFacts ==
    ASSUME NEW from, NEW to, Base(from, to), NEW c \in Client, NEW r, Sends(c, r)
    PROVE  /\ ServersOK /\ ClientsOK /\ WellFormed(r) /\ Sent(r) /\ journal[c] # None
           /\ r.op = pc[c] /\ r.token = journal[c].token
           /\ r.src = journal[c].src /\ r.dst = journal[c].dst
           /\ r.token \in issued /\ r.token \in Token /\ r.src = from[r.token] /\ r.dst = to[r.token]
           /\ r.src \in Server /\ r.dst \in Server /\ r.src # r.dst
<1>1. ServersOK /\ ClientsOK /\ Sent(r) /\ Ground(from, to)
  BY BaseParts DEF Sends, Sent
<1>2. /\ WellFormed(r) /\ r.op = pc[c] /\ r.token = journal[c].token
      /\ r.src = journal[c].src /\ r.dst = journal[c].dst
  BY <1>1, RequestWellFormed DEF Sends
<1>3. journal[c] # None
  BY <1>1 DEF Sends, ClientsOK, Ops, SourceOps
<1>4. r.token \in issued /\ r.src = from[r.token] /\ r.dst = to[r.token]
  BY <1>1, SentRequest
<1> QED BY <1>1, <1>2, <1>3, <1>4, RoutesOf

\* The files a session asks about and sends.
LEMMA SendArguments ==
    ASSUME NEW from, NEW to, Base(from, to), NEW c \in Client, NEW r, Sends(c, r)
    PROVE  /\ pc[c] = "import_query" =>
                 /\ snapshot[r.token] # None /\ r.arg.file = cursor[c].file
                 /\ r.arg.sha = snapshot[r.token][r.arg.file]
           /\ pc[c] = "import_put" =>
                 /\ snapshot[r.token] # None /\ r.arg.file = cursor[c].file
                 /\ r.arg.sha = cursor[c].sha /\ r.arg.offset = cursor[c].offset
<1>1. r.token = journal[c].token /\ r = Request(c)
  BY SendFacts DEF Sends
<1>2. pc[c] \in {"import_query", "import_put"} => snapshot[r.token] # None
  BY <1>1 DEF Sends, MaySend
<1>3. pc[c] = "import_query" =>
          r.arg.file = cursor[c].file /\ r.arg.sha = snapshot[r.token][r.arg.file]
  BY <1>1 DEF Request, Argument
<1>4. pc[c] = "import_put" =>
          /\ r.arg.file = cursor[c].file /\ r.arg.sha = cursor[c].sha
          /\ r.arg.offset = cursor[c].offset
  BY <1>1 DEF Request, Argument
<1> QED BY <1>2, <1>3, <1>4

\* What import_prepare finds received is the snapshot.
LEMMA PreparedCopy ==
    ASSUME NEW from, NEW to, Base(from, to), NEW c \in Client, SessionCopies(c),
           NEW r, Sends(c, r), Requested(r), NEW t \in Token, t = r.token,
           r.op = "import_prepare", phase[r.dst] = "IMPORTING", token[r.dst] = t
    PROVE  /\ StagedQueue(t) = snapshot[t] /\ snapshot[t] # None
           /\ StagedQueue(t) \in OnDisk(t)' /\ StagedQueue(t)' = StagedQueue(t)
<1>0. /\ ServersOK /\ WellFormed(r) /\ r.op = pc[c] /\ r.token = journal[c].token
      /\ r.dst = journal[c].dst /\ Effect(r)
  BY SendFacts, RequestedEffect
<1>1. Complete(t)
  <2>1. ImportPrepare(r.dst, r.token) \/ ImportPrepareCrash(r.dst, r.token)
    BY DEF Requested, Handle, HandleCrash
  <2>2. MayPrepare(r.dst, r.token)
    BY <2>1 DEF ImportPrepare, ImportPrepareCrash
  <2> QED BY <2>2 DEF MayPrepare, Installed, Complete
<1>2. \A f \in File : Copied(t, f)
  BY <1>0 DEF SessionCopies, Filling
<1>3. StagedQueue(t) = snapshot[t] /\ StagedQueue(t) \in OnDisk(t)
  BY <1>0, <1>1, <1>2, StagedIsSnapshot
<1>4. snapshot[t] # None
  BY <1>2, EmptyQueueType DEF Copied
<1>5. OnDisk(t) \subseteq OnDisk(t)' /\ staged'[t] = staged[t]
  BY <1>0, EffectCopies
<1> QED BY <1>3, <1>4, <1>5 DEF StagedQueue

LEMMA InstalledStays ==
    ASSUME NEW from, NEW to, Base(from, to), InstalledOnDisk, NEW c \in Client, SessionCopies(c),
           NEW r, Sends(c, r), Requested(r)
    PROVE  InstalledOnDisk'
<1>0. /\ ServersOK /\ WellFormed(r) /\ r.op = pc[c] /\ r.token = journal[c].token
      /\ r.dst = journal[c].dst /\ r.dst = to[r.token] /\ r.token \in Token /\ Effect(r)
  BY SendFacts, RequestedEffect
<1>1. ASSUME NEW d \in Server, NEW u \in Token, token[d] = u, token'[d] = u,
             phase[d] \in {"PREPARED", "MISSING"}, phase'[d] = phase[d], files'[d] = files[d]
      PROVE  /\ phase'[d] = "PREPARED" => files'[d] \in OnDisk(u)'
             /\ phase'[d] = "MISSING" => StagedQueue(u)' \in OnDisk(u)'
  <2>1. to[u] = d
    BY <1>1, BaseParts, RoutesOf DEF Arriving
  <2>2. OnDisk(u) \subseteq OnDisk(u)'
    BY <1>0, EffectCopies
  <2>3. ASSUME phase[d] = "MISSING" PROVE StagedQueue(u)' = StagedQueue(u)
    <3>1. staged'[u] = staged[u]
      BY <1>0, <2>1, <2>3, EffectCopies
    <3> QED BY <3>1 DEF StagedQueue
  <2> QED BY <1>1, <2>2, <2>3 DEF InstalledOnDisk
<1>2. ASSUME NEW d \in Server, NEW t \in Token, t = r.token, r.op = "import_prepare",
             d = r.dst, phase[d] = "IMPORTING", token[d] = t
      PROVE  StagedQueue(t) \in OnDisk(t)' /\ StagedQueue(t)' = StagedQueue(t)
  BY <1>2, PreparedCopy
<1>3. ASSUME NEW d \in Server, NEW u, u = token'[d]
      PROVE  /\ phase'[d] = "PREPARED" => files'[d] \in OnDisk(u)'
             /\ phase'[d] = "MISSING" => StagedQueue(u)' \in OnDisk(u)'
  <2>1. CASE token'[d] = token[d] /\ phase'[d] = phase[d] /\ files'[d] = files[d]
    <3>1. phase[d] \in {"PREPARED", "MISSING"} => token[d] \in Token
      BY BaseParts, RoutesOf DEF Arriving
    <3> QED BY <1>1, <1>3, <2>1, <3>1
  <2>2. CASE /\ r.op = "import_prepare" /\ d = r.dst /\ phase[d] = "IMPORTING"
             /\ token[d] = r.token /\ token'[d] = r.token
             /\ \/ phase'[d] = "PREPARED" /\ files'[d] = StagedQueue(r.token)
                \/ phase'[d] = "MISSING" /\ files'[d] = files[d]
    BY <1>0, <1>2, <1>3, <2>2
  <2>3. CASE phase'[d] \notin {"PREPARED", "MISSING"}
    BY <2>3
  <2> QED BY <1>0, <2>1, <2>2, <2>3, EffectControls
<1> QED BY <1>3 DEF InstalledOnDisk

\* The queue that a session has left stays left.
LEMMA LeftStays ==
    ASSUME ServersOK, NEW r, WellFormed(r), Effect(r), NEW b \in Client, UNCHANGED journal,
           journal[b].src \in Server, Left(b)
    PROVE  Left(b)'
BY EffectControls DEF Left, Moving

\* The other computers administer under tokens of their own.
LEMMA OthersStay ==
    ASSUME NEW from, NEW to, Base(from, to), PromptInv, NEW c \in Client, NEW r, Sends(c, r),
           Requested(r), UNCHANGED <<server, journal>>,
           NEW b \in Client, b # c, journal[b] # None, pc'[b] = pc[b], cursor'[b] = cursor[b]
    PROVE  SessionCopies(b)' /\ MayForget(b)'
<1>0. /\ ServersOK /\ ClientsOK /\ WellFormed(r) /\ r.token = journal[c].token /\ Effect(r)
      /\ journal[c] # None
  BY SendFacts, RequestedEffect
<1>1. /\ journal[b].token # r.token /\ journal[b].token \in Token
      /\ journal[b].src \in Server /\ journal[b].dst \in Server
      /\ SessionCopies(b) /\ MayForget(b)
  BY <1>0 DEF PromptInv, HeldOnce, ClientsOK, Ticket
<1>2. PICK u \in Token : u = journal[b].token
  BY <1>1
<1>3. /\ snapshot'[u] = snapshot[u] /\ received'[u] = received[u]
  BY <1>0, <1>1, <1>2, EffectCopies
<1>4. ASSUME NEW x \in Server, token'[x] = u
      PROVE  token[x] = u /\ phase'[x] = phase[x]
  BY <1>0, <1>1, <1>2, <1>4, EffectControls
<1>5. SessionCopies(b)'
  <2>1. Filling(b)' => Filling(b)
    BY <1>1, <1>2, <1>4 DEF Filling
  <2>2. \A f \in File : Copied(u, f)' <=> Copied(u, f)
    BY <1>3 DEF Copied
  <2> QED BY <1>1, <1>2, <1>3, <2>1, <2>2 DEF SessionCopies
<1>6. MayForget(b)'
  <2>1. Left(b) => Left(b)'
    BY <1>0, <1>1, LeftStays
  <2> QED BY <1>1, <1>2, <1>4, <2>1 DEF MayForget
<1> QED BY <1>5, <1>6

LEMMA HandlePrompt ==
    ASSUME NEW from, NEW to, Base(from, to), PromptInv, NEW c \in Client, NEW r, Sends(c, r),
           Requested(r), UNCHANGED <<server, journal>>,
           \A b \in Client : b # c => pc'[b] = pc[b] /\ cursor'[b] = cursor[b],
           SessionCopies(c)', MayForget(c)'
    PROVE  PromptInv'
<1>0. /\ ServersOK /\ ClientsOK /\ WellFormed(r) /\ r.token = journal[c].token /\ Effect(r)
      /\ journal[c] # None
  BY SendFacts, RequestedEffect
<1>1. HeldOnce'
  BY DEF PromptInv, HeldOnce
<1>2. InstalledOnDisk'
  BY <1>0, InstalledStays DEF PromptInv
<1>3. FrozenIsOwned'
  <2>1. ASSUME NEW s \in Server, phase'[s] = "EXPORTING"
        PROVE  \E b \in Client : journal[b] # None /\ journal[b].token = token'[s]
    <3>1. CASE token'[s] = token[s] /\ phase'[s] = phase[s]
      BY <2>1, <3>1 DEF PromptInv, FrozenIsOwned
    <3>2. CASE token'[s] = r.token
      BY <1>0, <3>2
    <3> QED BY <1>0, <2>1, <3>1, <3>2, EffectControls
  <2> QED BY <2>1 DEF FrozenIsOwned
<1>4. ASSUME NEW b \in Client, journal'[b] # None PROVE SessionCopies(b)' /\ MayForget(b)'
  BY <1>4, OthersStay
<1> QED BY <1>1, <1>2, <1>3, <1>4 DEF PromptInv

LEMMA CrashPrompt ==
    ASSUME NEW from, NEW to, Base(from, to), PromptInv, NEW c \in Client, Crash(c)
    PROVE  PromptInv'
<1>1. PICK r : r = Request(c)
  OBVIOUS
<1>2. Sends(c, r) /\ Requested(r) /\ UNCHANGED <<server, journal, cursor>> /\ Goto(c, "idle")
  BY <1>1 DEF Crash, Fault, Sends, Requested
<1>3. /\ ServersOK /\ ClientsOK /\ WellFormed(r) /\ Effect(r) /\ journal[c] # None
      /\ journal[c].src \in Server /\ r.op = pc[c] /\ r.op \in Ops
  BY <1>2, SendFacts, RequestedEffect DEF Sends
<1>4. pc'[c] = "idle" /\ \A b \in Client : b # c => pc'[b] = pc[b] /\ cursor'[b] = cursor[b]
  BY <1>2, <1>3 DEF Goto, ClientsOK
<1>5. SessionCopies(c)'
  BY <1>4 DEF SessionCopies
<1>6. MayForget(c)'
  <2>1. Left(c) => Left(c)'
    BY <1>2, <1>3, LeftStays
  <2> QED BY <1>2, <1>3, <1>4, <2>1 DEF MayForget, PromptInv
<1> QED BY <1>2, <1>4, <1>5, <1>6, HandlePrompt

\* The file a session copies is complete: it goes on to the next, or prepares.
LEMMA FileDone ==
    ASSUME ClientsOK, NEW c \in Client, journal[c] # None, journal'[c] = journal[c], NextFile(c),
           NEW t, t = journal[c].token, NEW g, g = cursor[c].file,
           \A f \in File : f < g => Copied(t, f)', Copied(t, g)'
    PROVE  SessionCopies(c)'
<1>1. cursor[c] \in Cursor /\ cursor[c].file \in 1 .. Files /\ Files \in Nat
  BY MigrationAssumption DEF ClientsOK, Cursor, File
<1>2. CASE g = Files
  <2>1. pc'[c] = "import_prepare"
    BY <1>2 DEF NextFile, Goto, ClientsOK
  <2>2. \A f \in File : Copied(t, f)'
    BY <1>1, <1>2 DEF File
  <2> QED BY <2>1, <2>2 DEF SessionCopies
<1>3. CASE g # Files
  <2>1. pc'[c] = "import_query"
    BY <1>3 DEF NextFile, Goto, ClientsOK
  <2>2. cursor' = [cursor EXCEPT ![c] = [cursor[c] EXCEPT !.file = cursor[c].file + 1]]
    BY <1>3 DEF NextFile
  <2>3. cursor'[c].file = g + 1
    BY <1>1, <2>2 DEF ClientsOK, Cursor
  <2>4. \A f \in File : f < cursor'[c].file => f < g \/ f = g
    BY <1>1, <2>3 DEF File
  <2> QED BY <2>1, <2>4 DEF SessionCopies
<1> QED BY <1>2, <1>3

\* A handler changes the session that sent the request only.
LEMMA CallOthers ==
    ASSUME ClientsOK, NEW c \in Client, NEW r, Continue(c, r), NEW b \in Client, b # c
    PROVE  pc'[b] = pc[b] /\ cursor'[b] = cursor[b]
<1>1. CASE NextFile(c)
  BY <1>1 DEF NextFile, Goto, ClientsOK
<1>2. CASE Queried(c, r)
  BY <1>1, <1>2 DEF Queried, Goto, ClientsOK
<1>3. CASE Stored(c, r)
  <2>1. \/ NextFile(c)
        \/ Goto(c, "idle") /\ UNCHANGED cursor
        \/ \E n : cursor' = [cursor EXCEPT ![c].offset = n] /\ UNCHANGED pc
    BY <1>3 DEF Stored
  <2> QED BY <1>1, <2>1 DEF Goto, ClientsOK
<1> QED BY <1>2, <1>3 DEF Continue, Goto, ClientsOK

\* While an import is under way, a request for a file looks at the staged one.
LEMMA FillingAsks ==
    ASSUME NEW from, NEW to, Base(from, to), NEW c \in Client, NEW r, Sends(c, r),
           Accepts(r), Handle(r), UNCHANGED journal, Filling(c)',
           pc[c] \in {"import_query", "import_put"}
    PROVE  /\ Filling(c) /\ ~Skips(r.dst, r.token)
           /\ snapshot'[r.token] = snapshot[r.token] /\ snapshot[r.token] # None
           /\ pc[c] = "import_query" => ImportQuery(r.dst, r.token, r.arg.file, r.arg.sha)
           /\ pc[c] = "import_put" => ImportPacket(r.dst, r.token, r.arg.file, r.arg.sha,
                                                    r.arg.offset, r.arg.tag)
<1>0. /\ ServersOK /\ WellFormed(r) /\ r.op = pc[c] /\ r.token = journal[c].token
      /\ r.dst = journal[c].dst /\ r.token \in Token /\ r.dst \in Server /\ Effect(r)
  BY SendFacts, RequestedEffect DEF Requested
<1>1. token'[r.dst] = token[r.dst] /\ phase'[r.dst] = phase[r.dst]
  BY <1>0, EffectControls
<1>2. Filling(c) /\ ~Skips(r.dst, r.token)
  BY <1>0, <1>1 DEF Filling, Skips
<1>3. snapshot'[r.token] = snapshot[r.token]
  BY <1>0, EffectCopies
<1> QED BY <1>0, <1>2, <1>3, SendArguments DEF Handle

\* The files before the one a session asks about stay as they were copied.
LEMMA CopiedStay ==
    ASSUME NEW from, NEW to, Base(from, to), NEW c \in Client, SessionCopies(c), NEW r,
           Sends(c, r), Accepts(r), Handle(r), UNCHANGED journal, Filling(c)',
           pc[c] \in {"import_query", "import_put"},
           NEW t, t = r.token, NEW g, g = r.arg.file, NEW f \in File, f < g
    PROVE  Copied(t, f)'
<1>1. /\ ServersOK /\ WellFormed(r) /\ r.token = journal[c].token /\ Effect(r) /\ t \in Token
  BY SendFacts, RequestedEffect DEF Requested
<1>2. Filling(c) /\ snapshot'[t] = snapshot[t] /\ cursor[c].file = g
  BY FillingAsks, SendArguments
<1>3. Copied(t, f)
  BY <1>1, <1>2 DEF SessionCopies
<1>4. f # g
  BY <1>1, <1>2 DEF WellFormed, File
<1>5. received'[t][f] = received[t][f]
  BY <1>1, <1>4, EffectCopies
<1> QED BY <1>2, <1>3, <1>5 DEF Copied

\* A file the answer calls complete was found to be the one of the snapshot.
LEMMA QueryCopies ==
    ASSUME NEW from, NEW to, Base(from, to), NEW c \in Client, SessionCopies(c), NEW r,
           Sends(c, r), Accepts(r), Handle(r), UNCHANGED journal, Filling(c)',
           pc[c] = "import_query", Queried(c, r)
    PROVE  SessionCopies(c)'
<1>0. PICK t, g, sha : t = r.token /\ g = r.arg.file /\ sha = r.arg.sha
  OBVIOUS
<1>1. /\ ServersOK /\ ClientsOK /\ t \in Token /\ g \in File /\ sha \in Content
      /\ journal[c] # None /\ journal[c].token = t /\ r.dst \in Server
  BY <1>0, SendFacts DEF WellFormed, Sends
<1>2. /\ ~Skips(r.dst, t) /\ ImportQuery(r.dst, t, g, sha)
      /\ snapshot'[t] = snapshot[t] /\ snapshot[t] # None
      /\ cursor[c].file = g /\ sha = snapshot[t][g]
  BY <1>0, FillingAsks, SendArguments
<1>3. \A f \in File : f < g => Copied(t, f)'
  BY <1>0, CopiedStay
<1>4. PICK n : n = OffsetOf(r.dst, t, g, sha)
  OBVIOUS
<1>5. CASE n = sha.size
  <2>1. sha.size \in Nat \ {0}
    BY <1>1, MigrationAssumption DEF Content
  <2>2. Verified(staged[t][g], sha)
    BY <1>2, <1>4, <1>5, <2>1 DEF OffsetOf
  <2>3. received' = [received EXCEPT ![t][g] = sha]
    BY <1>2, <2>2 DEF ImportQuery
  <2>4. Copied(t, g)'
    BY <1>1, <1>2, <2>3 DEF Copied, ServersOK, CopiesOK
  <2>5. NextFile(c)
    BY <1>0, <1>4, <1>5 DEF Queried
  <2> QED BY <1>1, <1>2, <1>3, <2>4, <2>5, FileDone
<1>6. CASE n # sha.size
  <2>1. /\ Goto(c, "import_put")
        /\ cursor' = [cursor EXCEPT ![c].sha = sha, ![c].offset = n]
    BY <1>0, <1>4, <1>6 DEF Queried
  <2>2. pc'[c] = "import_put" /\ cursor'[c].sha = sha /\ cursor'[c].file = g
    BY <1>1, <1>2, <2>1 DEF Goto, ClientsOK, Cursor
  <2> QED BY <1>1, <1>2, <1>3, <2>2 DEF SessionCopies
<1> QED BY <1>5, <1>6

\* A file whose last packet is answered without an error was recorded.
LEMMA PutCopies ==
    ASSUME NEW from, NEW to, Base(from, to), NEW c \in Client, SessionCopies(c), NEW r,
           Sends(c, r), Accepts(r), Handle(r), UNCHANGED journal, Filling(c)',
           pc[c] = "import_put", Stored(c, r)
    PROVE  SessionCopies(c)'
<1>0. PICK t, g, sha : t = r.token /\ g = r.arg.file /\ sha = r.arg.sha
  OBVIOUS
<1>1. /\ ServersOK /\ ClientsOK /\ t \in Token /\ g \in File /\ sha \in Content
      /\ journal[c] # None /\ journal[c].token = t /\ r.dst \in Server
  BY <1>0, SendFacts DEF WellFormed, Sends
<1>2. /\ Filling(c) /\ ~Skips(r.dst, t)
      /\ snapshot'[t] = snapshot[t] /\ snapshot[t] # None
      /\ cursor[c].file = g /\ sha = cursor[c].sha
  BY <1>0, FillingAsks, SendArguments
<1>3. \A f \in File : f < g => Copied(t, f)'
  BY <1>0, CopiedStay
<1>4. sha = snapshot[t][g]
  BY <1>1, <1>2 DEF SessionCopies
<1>5. PICK n : n = r.arg.offset + 1
  OBVIOUS
<1>6. IF n = sha.size /\ received'[t][g] # sha
      THEN Goto(c, "idle") /\ UNCHANGED cursor
      ELSE IF n = sha.size THEN NextFile(c)
      ELSE cursor' = [cursor EXCEPT ![c].offset = n] /\ UNCHANGED pc
  BY <1>0, <1>2, <1>5 DEF Stored
<1>7. CASE Goto(c, "idle")
  <2>1. pc'[c] = "idle"
    BY <1>1, <1>7 DEF Goto, ClientsOK
  <2> QED BY <2>1 DEF SessionCopies
<1>8. CASE received'[t][g] = sha /\ NextFile(c)
  <2>1. Copied(t, g)'
    BY <1>2, <1>4, <1>8 DEF Copied
  <2> QED BY <1>1, <1>2, <1>3, <1>8, <2>1, FileDone
<1>9. CASE cursor' = [cursor EXCEPT ![c].offset = n] /\ UNCHANGED pc
  <2>1. cursor'[c].sha = sha /\ cursor'[c].file = g /\ pc'[c] = "import_put"
    BY <1>1, <1>2, <1>9 DEF ClientsOK, Cursor
  <2> QED BY <1>1, <1>2, <1>3, <1>4, <2>1 DEF SessionCopies
<1> QED BY <1>6, <1>7, <1>8, <1>9

\* The steps of a session that end with a switch or a restoration.
LEMMA AnswerNext ==
    ASSUME ClientsOK, NEW c \in Client, NEW r, r.op = pc[c], pc[c] \in Ops, Continue(c, r)
    PROVE  /\ pc'[c] # "switched"
           /\ pc'[c] = "switch" => pc[c] = "import_activate"
           /\ pc'[c] = "restored" => pc[c] = "export_abort"
<1> USE DEF ClientsOK, Goto, Ops, SourceOps
<1>1. CASE NextFile(c)
  BY <1>1 DEF NextFile
<1>2. CASE Queried(c, r)
  BY <1>1, <1>2 DEF Queried
<1>3. CASE Stored(c, r)
  <2>1. NextFile(c) \/ Goto(c, "idle") \/ UNCHANGED pc
    BY <1>3 DEF Stored
  <2> QED BY <1>1, <2>1
<1> QED BY <1>2, <1>3 DEF Continue

\* A step of the computers that leaves the servers as they are.
Tells == {"import_query", "import_put", "import_prepare", "switch", "switched", "restored"}
LEMMA QuietPrompt ==
    ASSUME PromptInv, UNCHANGED <<serverVars, cursor>>, HeldOnce', FrozenIsOwned',
           \A b \in Client : journal'[b] # None =>
               \/ /\ journal'[b] = journal[b]
                  /\ \/ pc'[b] = pc[b] \/ pc'[b] \notin Tells
                     \/ pc[b] = "switch" /\ pc'[b] = "switched"
                  /\ server'[b] = server[b] \/ Left(b)
               \/ pc'[b] \notin Tells /\ journal'[b].dst # server'[b]
    PROVE  PromptInv'
<1>1. UNCHANGED <<phase, token, files, snapshot, retained, staged, received>>
  BY DEF serverVars, controlVars, exportVars, importVars
<1>2. InstalledOnDisk'
  <2>1. \A u : OnDisk(u)' = OnDisk(u) /\ StagedQueue(u)' = StagedQueue(u)
    BY <1>1 DEF OnDisk, StagedQueue
  <2>2. ASSUME NEW d \in Server, NEW u, u = token[d]
        PROVE  /\ phase[d] = "PREPARED" => files[d] \in OnDisk(u)'
               /\ phase[d] = "MISSING" => StagedQueue(u)' \in OnDisk(u)'
    BY <2>1, <2>2 DEF PromptInv, InstalledOnDisk
  <2> QED BY <1>1, <2>2 DEF InstalledOnDisk
<1>3. ASSUME NEW b \in Client, journal'[b] # None, journal'[b] = journal[b],
             \/ pc'[b] = pc[b] \/ pc'[b] \notin Tells
             \/ pc[b] = "switch" /\ pc'[b] = "switched",
             server'[b] = server[b] \/ Left(b)
      PROVE  SessionCopies(b)' /\ MayForget(b)'
  <2>1. /\ journal'[b] = journal[b] /\ cursor'[b] = cursor[b]
        /\ SessionCopies(b) /\ MayForget(b)
    BY <1>3 DEF PromptInv
  <2>2. (Filling(b)' <=> Filling(b)) /\ (Left(b)' <=> Left(b))
    BY <1>1, <2>1 DEF Filling, Left
  <2>3. SessionCopies(b)'
    <3>1. pc'[b] \in {"import_query", "import_put", "import_prepare"} => pc'[b] = pc[b]
      BY <1>3 DEF Tells
    <3>2. \A u, f : Copied(u, f)' <=> Copied(u, f)
      BY <1>1 DEF Copied
    <3> QED BY <1>1, <2>1, <2>2, <3>1, <3>2 DEF SessionCopies
  <2>4. MayForget(b)'
    BY <1>1, <1>3, <2>1, <2>2 DEF MayForget, Tells
  <2> QED BY <2>3, <2>4
<1>4. ASSUME NEW b \in Client, pc'[b] \notin Tells, journal'[b].dst # server'[b]
      PROVE  SessionCopies(b)' /\ MayForget(b)'
  BY <1>4 DEF SessionCopies, MayForget, Tells
<1> QED BY <1>2, <1>3, <1>4 DEF PromptInv

\* What an answer entitles a session to.
LEMMA AnswerLeaves ==
    ASSUME NEW from, NEW to, Base(from, to), NEW c \in Client, MayForget(c), NEW r,
           Sends(c, r), Accepts(r), Handle(r), Continue(c, r), UNCHANGED <<server, journal>>
    PROVE  MayForget(c)'
<1>0. /\ ServersOK /\ ClientsOK /\ WellFormed(r) /\ r.op = pc[c] /\ r.token = journal[c].token
      /\ r.src = journal[c].src /\ Effect(r) /\ r.src \in Server /\ Sent(r)
      /\ r.src = from[r.token]
  BY SendFacts, RequestedEffect DEF Requested
<1>1. Left(c) => Left(c)'
  BY <1>0, LeftStays
<1>2. /\ pc'[c] # "switched"
      /\ pc'[c] = "switch" => pc[c] = "import_activate"
      /\ pc'[c] = "restored" => pc[c] = "export_abort"
  BY <1>0, AnswerNext DEF Sends
<1>3. pc[c] = "import_activate" => Left(c)
  BY <1>0, SentIsWarranted DEF GivenUp, Left
<1>4. pc[c] = "export_abort" => phase'[r.src] = "ACTIVE"
  BY <1>0 DEF Handle, ExportAbort, ServersOK, ControlsOK
<1> QED BY <1>0, <1>1, <1>2, <1>3, <1>4 DEF MayForget

\* What a session copied, after the answer.
LEMMA AnswerCopies ==
    ASSUME NEW from, NEW to, Base(from, to), NEW c \in Client, SessionCopies(c), NEW r,
           Sends(c, r), Accepts(r), Handle(r), Continue(c, r), UNCHANGED <<server, journal>>
    PROVE  SessionCopies(c)'
<1>0. ClientsOK /\ r.op = pc[c] /\ pc[c] \in Ops
  BY SendFacts DEF Sends
<1>1. CASE ~Filling(c)'
  BY <1>1 DEF SessionCopies
<1>2. CASE Filling(c)' /\ pc[c] = "import_query"
  BY <1>2, QueryCopies DEF Continue
<1>3. CASE Filling(c)' /\ pc[c] = "import_put"
  BY <1>3, PutCopies DEF Continue
<1>4. CASE pc[c] = "import_begin"
  <2>1. pc'[c] \in {"import_query", "import_activate"} /\ cursor'[c].file = 1
    BY <1>0, <1>4 DEF Continue, Goto, ClientsOK, Cursor
  <2>2. \A f \in File : ~(f < 1)
    BY DEF File
  <2> QED BY <2>1, <2>2 DEF SessionCopies
<1>5. CASE pc[c] \notin {"import_begin", "import_query", "import_put"}
  <2>1. pc'[c] \in {"import_begin", "export_commit", "import_activate", "switch", "restored"}
    BY <1>0, <1>5 DEF Continue, Goto, ClientsOK
  <2> QED BY <2>1 DEF SessionCopies
<1> QED BY <1>1, <1>2, <1>3, <1>4, <1>5

LEMMA CallPrompt ==
    ASSUME NEW from, NEW to, Base(from, to), PromptInv, NEW c \in Client, Call(c)
    PROVE  PromptInv'
<1>1. ClientsOK /\ pc[c] \in Ops /\ UNCHANGED <<server, journal>> /\ journal[c] # None
  BY BaseParts DEF Call, ClientsOK, Ops, SourceOps
<1>2. CASE UNCHANGED <<serverVars, cursor>> /\ Goto(c, "idle")
  <2>1. \A b \in Client : pc'[b] = pc[b] \/ pc'[b] \notin Tells
    BY <1>1, <1>2 DEF Goto, ClientsOK, Tells
  <2>2. HeldOnce' /\ FrozenIsOwned'
    BY <1>1, <1>2 DEF PromptInv, HeldOnce, FrozenIsOwned, serverVars, controlVars
  <2> QED BY <1>1, <1>2, <2>1, <2>2, QuietPrompt
<1>3. ASSUME NEW r, Sends(c, r), Accepts(r), Handle(r), Continue(c, r) PROVE PromptInv'
  <2>1. SessionCopies(c)' /\ MayForget(c)'
    BY <1>1, <1>3, AnswerCopies, AnswerLeaves DEF PromptInv
  <2>2. \A b \in Client : b # c => pc'[b] = pc[b] /\ cursor'[b] = cursor[b]
    BY <1>1, <1>3, CallOthers
  <2> QED BY <1>1, <1>3, <2>1, <2>2, HandlePrompt DEF Requested
<1>4. CASE MaySend(c)
  <2>1. PICK r : r = Request(c)
    OBVIOUS
  <2>2. Sends(c, r) /\ Served(r) /\ Continue(c, r)
    BY <1>1, <1>4, <2>1 DEF Call, Sends
  <2>3. CASE ~Accepts(r)
    <3>1. UNCHANGED <<serverVars, cursor>> /\ Goto(c, "idle")
      BY <2>2, <2>3 DEF Served, Continue
    <3> QED BY <1>2, <3>1
  <2>4. CASE Accepts(r)
    BY <1>3, <2>2, <2>4 DEF Served
  <2> QED BY <2>3, <2>4
<1>5. CASE ~MaySend(c)
  BY <1>2, <1>5 DEF Call
<1> QED BY <1>4, <1>5

\* The steps of the servers themselves: a write, and recover_import.
LEMMA QueuePrompt ==
    ASSUME NEW from, NEW to, Base(from, to), PromptInv, NEW s \in Server, Write(s) \/ Recover(s)
    PROVE  PromptInv'
<1>1. /\ UNCHANGED <<token, exportVars, importVars, clientVars>>
      /\ phase \in [Server -> {"ACTIVE", "EXPORTING", "REDIRECT", "IMPORTING", "PREPARED", "MISSING"}]
      /\ files \in [Server -> Queue]
  BY BaseParts DEF Write, Recover, controlVars, ServersOK, ControlsOK
<1>2. \/ /\ phase' = phase /\ phase[s] = "ACTIVE"
         /\ \A x \in Server : x # s => files'[x] = files[x]
      \/ /\ phase[s] = "MISSING" /\ phase' = [phase EXCEPT ![s] = "PREPARED"]
         /\ files' = [files EXCEPT ![s] = StagedQueue(token[s])]
  BY <1>1 DEF Write, Recover, Open, controlVars
<1>3. ASSUME NEW x \in Server
      PROVE  \/ phase'[x] = phase[x] /\ (phase[x] = "ACTIVE" \/ files'[x] = files[x])
             \/ /\ phase[x] = "MISSING" /\ phase'[x] = "PREPARED"
                /\ files'[x] = StagedQueue(token[x])
  BY <1>1, <1>2
<1>4. InstalledOnDisk'
  <2>1. \A u : OnDisk(u)' = OnDisk(u) /\ StagedQueue(u)' = StagedQueue(u)
    BY <1>1 DEF OnDisk, StagedQueue, exportVars, importVars
  <2>2. ASSUME NEW d \in Server, NEW u, u = token[d]
        PROVE  /\ phase'[d] = "PREPARED" => files'[d] \in OnDisk(u)'
               /\ phase'[d] = "MISSING" => StagedQueue(u)' \in OnDisk(u)'
    BY <1>3, <2>1, <2>2 DEF PromptInv, InstalledOnDisk
  <2> QED BY <1>1, <2>2 DEF InstalledOnDisk
<1>5. HeldOnce' /\ FrozenIsOwned'
  BY <1>1, <1>3 DEF PromptInv, HeldOnce, FrozenIsOwned, clientVars
<1>6. ASSUME NEW b \in Client, journal'[b] # None PROVE SessionCopies(b)' /\ MayForget(b)'
  <2>1. /\ journal'[b] = journal[b] /\ cursor'[b] = cursor[b] /\ pc'[b] = pc[b]
        /\ server'[b] = server[b] /\ journal[b] # None
        /\ journal[b].src \in Server /\ journal[b].dst \in Server
    BY <1>1, <1>6, BaseParts DEF clientVars, ClientsOK, Ticket
  <2>2. SessionCopies(b) /\ MayForget(b)
    BY <2>1 DEF PromptInv
  <2>3. (Filling(b)' <=> Filling(b)) /\ (Left(b)' <=> Left(b))
    BY <1>1, <1>3, <2>1 DEF Filling, Left
  <2>4. \A u, f : Copied(u, f)' <=> Copied(u, f)
    BY <1>1 DEF Copied, exportVars, importVars
  <2>5. SessionCopies(b)'
    BY <1>1, <2>1, <2>2, <2>3, <2>4 DEF SessionCopies, exportVars
  <2>6. MayForget(b)'
    BY <1>1, <1>3, <2>1, <2>2, <2>3 DEF MayForget
  <2> QED BY <2>5, <2>6
<1> QED BY <1>4, <1>5, <1>6 DEF PromptInv

\* A migration starts under a token of its own.
LEMMA StartPrompt ==
    ASSUME NEW from, NEW to, Base(from, to), PromptInv, NEW c \in Client, NEW t \in Token,
           NEW d \in Server, Start(c, t, d)
    PROVE  PromptInv'
<1> DEFINE j == [token |-> t, src |-> server[c], dst |-> d]
<1>1. /\ ClientsOK /\ UNCHANGED <<serverVars, server, cursor>> /\ journal[c] = None
      /\ d # server[c] /\ j.dst = d /\ j.token = t /\ t \notin issued
      /\ journal' = [journal EXCEPT ![c] = j] /\ pc' = [pc EXCEPT ![c] = "export_begin"]
  BY BaseParts DEF Start, Goto
<1> HIDE DEF j
<1>2. /\ journal'[c] = j /\ pc'[c] = "export_begin"
      /\ \A b \in Client : b # c => journal'[b] = journal[b] /\ pc'[b] = pc[b]
  BY <1>1 DEF ClientsOK
<1>3. HeldOnce'
  <2>1. \A b \in Client : journal[b] # None => journal[b].token # t
    BY <1>1 DEF Base, Routed, RoutedClients
  <2>2. \A b \in Client : b # c /\ journal'[b] # None => journal'[b].token # journal'[c].token
    BY <1>1, <1>2, <2>1
  <2>3. \A a, b \in Client :
            (a # c /\ b # c /\ journal'[a] # None /\ journal'[b] # None
                 /\ journal'[a].token = journal'[b].token) => a = b
    BY <1>2 DEF PromptInv, HeldOnce
  <2> QED BY <2>2, <2>3 DEF HeldOnce
<1>4. FrozenIsOwned'
  BY <1>1, <1>2 DEF PromptInv, FrozenIsOwned, serverVars, controlVars
<1>5. "export_begin" \notin Tells
  BY DEF Tells
<1> QED BY <1>1, <1>2, <1>3, <1>4, <1>5, QuietPrompt

\* A journal is set aside when the source is given up or in use again.
LEMMA ForgetPrompt ==
    ASSUME NEW from, NEW to, Base(from, to), PromptInv, NEW c \in Client, Forget(c)
    PROVE  PromptInv'
<1>1. /\ ClientsOK /\ UNCHANGED <<serverVars, server, cursor>> /\ journal[c] # None
      /\ journal' = [journal EXCEPT ![c] = None] /\ pc' = [pc EXCEPT ![c] = "idle"]
      /\ pc[c] \in {"switched", "restored"} \/ journal[c].dst = server[c]
  BY BaseParts DEF Forget, Goto, ClientsOK
<1>2. /\ journal'[c] = None
      /\ \A b \in Client : b # c => journal'[b] = journal[b] /\ pc'[b] = pc[b]
  BY <1>1 DEF ClientsOK
<1>3. HeldOnce'
  BY <1>2 DEF PromptInv, HeldOnce
<1>4. ~(phase[journal[c].src] = "EXPORTING" /\ token[journal[c].src] = journal[c].token)
  BY <1>1 DEF PromptInv, MayForget, Left
<1>5. journal[c].src = from[journal[c].token]
  BY <1>1 DEF Base, Routed, RoutedClients
<1>6. FrozenIsOwned'
  <2>1. ASSUME NEW s \in Server, phase[s] = "EXPORTING"
        PROVE  \E b \in Client : journal'[b] # None /\ journal'[b].token = token[s]
    <3>1. PICK b \in Client : journal[b] # None /\ journal[b].token = token[s]
      BY <2>1 DEF PromptInv, FrozenIsOwned
    <3>2. from[token[s]] = s
      BY <2>1 DEF Base, QueuesInv, RoutedQueues, Moving
    <3>3. b # c
      BY <1>4, <1>5, <2>1, <3>1, <3>2
    <3> QED BY <1>2, <3>1, <3>3
  <2> QED BY <1>1, <2>1 DEF FrozenIsOwned, serverVars, controlVars
<1> QED BY <1>1, <1>2, <1>3, <1>6, QuietPrompt

\* The other steps of a computer: it starts a session again, or ends one.
LEMMA SessionPrompt ==
    ASSUME NEW from, NEW to, Base(from, to), PromptInv, NEW c \in Client,
           \/ Resume(c) \/ Restore(c) \/ Switch(c) \/ Follow(c) \/ Quit(c) \/ KeepJournal(c)
    PROVE  PromptInv'
<1>1. ClientsOK /\ UNCHANGED <<serverVars, journal, cursor>>
  BY BaseParts DEF Resume, Restore, Reopen, Switch, Follow, Quit, KeepJournal, Fault
<1>2. HeldOnce' /\ FrozenIsOwned'
  BY <1>1 DEF PromptInv, HeldOnce, FrozenIsOwned, serverVars, controlVars
<1>3. CASE Resume(c) \/ Restore(c) \/ Quit(c) \/ KeepJournal(c)
  <2>1. UNCHANGED server /\ \E op : Goto(c, op) /\ op \notin Tells
    BY <1>3 DEF Resume, Restore, Reopen, Quit, KeepJournal, Fault, Tells
  <2>2. \A b \in Client : pc'[b] = pc[b] \/ pc'[b] \notin Tells
    BY <1>1, <2>1 DEF Goto, ClientsOK
  <2> QED BY <1>1, <1>2, <2>1, <2>2, QuietPrompt
<1>4. CASE Switch(c)
  <2>1. /\ pc[c] = "switch" /\ pc' = [pc EXCEPT ![c] = "switched"]
        /\ server' = [server EXCEPT ![c] = journal[c].dst] /\ journal[c] # None
    BY <1>1, <1>4 DEF Switch, Goto, ClientsOK
  <2>2. Left(c)
    BY <2>1 DEF PromptInv, MayForget
  <2> QED BY <1>1, <1>2, <2>1, <2>2, QuietPrompt DEF ClientsOK
<1>5. CASE Follow(c)
  <2>1. /\ journal[c] = None /\ UNCHANGED pc
        /\ server' = [server EXCEPT ![c] = destination[server[c]]]
    BY <1>5 DEF Follow
  <2> QED BY <1>1, <1>2, <2>1, QuietPrompt DEF ClientsOK
<1> QED BY <1>3, <1>4, <1>5

LEMMA InitPrompt == Init => PromptInv
BY DEF Init, PromptInv, HeldOnce, InstalledOnDisk, FrozenIsOwned

\* Every request is answered, refused or lost within its session.
NoneLate == late = {}

\* A session that breaks leaves its request behind.
LEMMA NextPrompt ==
    MigrationInv /\ OrderInv /\ PromptInv /\ NoneLate /\ NoneLate' /\ [Next]_vars => PromptInv'
<1> SUFFICES ASSUME MigrationInv, OrderInv, PromptInv, NoneLate, NoneLate', [Next]_vars
             PROVE  PromptInv'
  OBVIOUS
<1>1. PICK from \in Route, to \in Route : Base(from, to)
  BY DEF OrderInv, Base
<1>2. ~RunLate /\ \A c \in Client : ~Break(c)
  BY DEF RunLate, Break, NoneLate
<1>3. CASE UNCHANGED vars
  <2>1. UNCHANGED <<serverVars, clientVars>>
    BY <1>3 DEF vars
  <2>2. HeldOnce' /\ FrozenIsOwned'
    BY <2>1 DEF PromptInv, HeldOnce, FrozenIsOwned, serverVars, controlVars, clientVars
  <2> QED BY <2>1, <2>2, QuietPrompt DEF clientVars
<1>4. ASSUME NEW s \in Server, Write(s) \/ Recover(s) PROVE PromptInv'
  BY <1>1, <1>4, QueuePrompt
<1>5. ASSUME NEW c \in Client, NEW t \in Token, NEW d \in Server, Start(c, t, d) PROVE PromptInv'
  BY <1>1, <1>5, StartPrompt
<1>6. ASSUME NEW c \in Client,
             \/ Resume(c) \/ Restore(c) \/ Call(c) \/ Switch(c) \/ Forget(c)
             \/ Follow(c) \/ Quit(c) \/ Crash(c) \/ KeepJournal(c)
      PROVE  PromptInv'
  BY <1>1, <1>6, CallPrompt, CrashPrompt, ForgetPrompt, SessionPrompt
<1> QED BY <1>2, <1>3, <1>4, <1>5, <1>6 DEF Next

LEMMA PromptAlways == Spec /\ []NoneLate => []PromptInv
BY InitPrompt, NextPrompt, MigrationAlways, OrderAlways, PTL DEF Spec

\* Without a broken session no request is late, then or before.
NoBreakInv == breaks = 0 => NoneLate /\ PromptInv

LEMMA NextNoBreak == MigrationInv /\ OrderInv /\ NoBreakInv /\ [Next]_vars => NoBreakInv'
<1> SUFFICES ASSUME MigrationInv, OrderInv, NoBreakInv, [Next]_vars, breaks' = 0
             PROVE  NoneLate' /\ PromptInv'
  BY DEF NoBreakInv
<1>1. breaks \in Nat
  BY InvParts DEF ClientsOK
<1>2. ASSUME NEW c \in Client PROVE ~Break(c)
  BY <1>1 DEF Break
<1>3. breaks = 0
  BY <1>1, <1>2 DEF Next, vars, Write, Recover, RunLate, Start, Resume, Restore, Reopen, Call,
     Switch, Forget, Follow, Quit, Crash, KeepJournal
<1>4. NoneLate /\ PromptInv
  BY <1>3 DEF NoBreakInv
<1>5. NoneLate'
  BY <1>2, <1>4 DEF NoneLate, Next, vars, Write, Recover, RunLate, Start, Resume, Restore,
     Reopen, Call, Switch, Forget, Follow, Quit, Crash, KeepJournal
<1> QED BY <1>4, <1>5, NextPrompt

LEMMA NoBreakAlways == Spec => []NoBreakInv
<1>1. Init => NoBreakInv
  BY InitPrompt DEF Init, NoBreakInv, NoneLate
<1> QED BY <1>1, NextNoBreak, MigrationAlways, OrderAlways, PTL DEF Spec

\* What import_prepare installs is one snapshot of the source, never a mixture
\* of two attempts, however often a session is resumed, restored or broken off
\* by a handler that dies, as long as no request has outlived the session that
\* sent it (control.py import_put, import_prepare; sync_server.c migrate).
THEOREM InstalledWithoutDelay == Spec => [](breaks = 0 => OneSnapshot /\ InstalledIsSnapshot)
<1>1. NoBreakInv => (breaks = 0 => OneSnapshot /\ InstalledIsSnapshot)
  BY DEF NoBreakInv, PromptInv, InstalledOnDisk, OnDisk, OneSnapshot, InstalledIsSnapshot
<1> QED BY <1>1, NoBreakAlways, PTL

\* A frozen source has a computer with the journal that restores it: a journal
\* is set aside only after the redirect or the restoration, as long as no
\* request has outlived the session that sent it (sync_server.c
\* sync_server_commit_local, sync_server_pending; control.py export_begin).
THEOREM FrozenWithoutDelay == Spec => [](breaks = 0 => FrozenIsOwned)
<1>1. NoBreakInv => (breaks = 0 => FrozenIsOwned)
  BY DEF NoBreakInv, PromptInv
<1> QED BY <1>1, NoBreakAlways, PTL

-----------------------------------------------------------------------------
(* What holds as long as, besides, a restored source ends its migration. *)

\* While a source is frozen its snapshot, once complete, is what it holds.
FrozenSnapshot ==
    \A s \in Server : phase[s] \in Moving =>
        snapshot[token[s]] = None \/ snapshot[token[s]] = files[s]

\* What is installed of a frozen source is what the source holds.
InstalledIsFrozen ==
    \A s, d \in Server : (phase[s] \in Moving /\ token[d] = token[s]) =>
        /\ phase[d] = "PREPARED" => files[d] = files[s]
        /\ phase[d] = "MISSING" => StagedQueue(token[d]) = files[s]

\* Once a source was frozen under a token, only a restoration thaws it.
Freezing(c) ==
    \/ Exporting(journal[c].src, journal[c].token)
    \/ \A x \in Server : token[x] # journal[c].token
StaysFrozen(c) ==
    /\ pc[c] = "restored" \/ Freezing(c)
    /\ pc[c] \in Later => Exporting(journal[c].src, journal[c].token)

FreshInv ==
    /\ FrozenSnapshot /\ InstalledIsFrozen
    /\ \A c \in Client : journal[c] # None => StaysFrozen(c)

LEMMA FrozenSnapshotStays ==
    ASSUME NEW from, NEW to, Base(from, to), FrozenSnapshot, NEW c \in Client,
           NEW r, Sends(c, r), Requested(r)
    PROVE  FrozenSnapshot'
<1>0. /\ ServersOK /\ WellFormed(r) /\ r.token \in Token /\ Effect(r)
      /\ r.src = from[r.token] /\ r.src \in Server
  BY SendFacts, RequestedEffect
<1>1. ASSUME NEW s \in Server, NEW u \in Token, u = token[s], phase[s] \in Moving
      PROVE  snapshot'[u] = None \/ snapshot'[u] = files[s]
  <2>1. snapshot[u] = None \/ snapshot[u] = files[s]
    BY <1>1 DEF FrozenSnapshot
  <2>2. CASE u # r.token \/ r.op # "export_begin"
    BY <1>0, <2>1, <2>2, EffectCopies
  <2>3. CASE u = r.token /\ r.op = "export_begin"
    <3>1. s = r.src
      <4>1. from[token[s]] = s
        BY <1>1 DEF Base, QueuesInv, RoutedQueues
      <4> QED BY <1>0, <1>1, <2>3, <4>1
    <3>2. ExportBegin(s, u, r.dst) \/ ExportBeginCrash(s, u, r.dst)
      BY <1>0, <2>3, <3>1 DEF Effect
    <3>3. phase[s] # "ACTIVE"
      BY <1>1 DEF Moving
    <3>4. snapshot' = [snapshot EXCEPT ![u] = IF @ = None THEN files[s] ELSE @]
      BY <3>2, <3>3 DEF ExportBegin, ExportBeginCrash
    <3> QED BY <1>0, <2>1, <3>4 DEF ServersOK, CopiesOK
  <2> QED BY <2>2, <2>3
<1>2. ASSUME NEW s \in Server, NEW u, u = token'[s], phase'[s] \in Moving
      PROVE  snapshot'[u] = None \/ snapshot'[u] = files'[s]
  <2>1. CASE token'[s] = token[s] /\ phase[s] \in Moving /\ files'[s] = files[s]
    <3>1. token[s] \in Token
      BY <2>1, BaseParts DEF Base, QueuesInv, RoutedQueues
    <3> QED BY <1>1, <1>2, <2>1, <3>1
  <2>2. CASE /\ r.op = "export_begin" /\ s = r.src /\ phase[s] = "ACTIVE"
             /\ token'[s] = r.token /\ files'[s] = files[s]
    <3>1. \/ snapshot' = [snapshot EXCEPT ![r.token] = files[s]]
          \/ snapshot' = [snapshot EXCEPT ![r.token] = None]
      BY <1>0, <2>2 DEF Effect, ExportBegin, ExportBeginCrash
    <3> QED BY <1>0, <1>2, <2>2, <3>1 DEF ServersOK, CopiesOK
  <2> QED BY <1>0, <1>2, <2>1, <2>2, EffectControls DEF Moving
<1> QED BY <1>2 DEF FrozenSnapshot

LEMMA InstalledIsFrozenStays ==
    ASSUME NEW from, NEW to, Base(from, to), FrozenSnapshot, InstalledIsFrozen, NEW c \in Client,
           SessionCopies(c), StaysFrozen(c), NEW r, Sends(c, r), Requested(r)
    PROVE  InstalledIsFrozen'
<1>0. /\ ServersOK /\ WellFormed(r) /\ r.token \in Token /\ Effect(r) /\ r.op = pc[c]
      /\ r.src = from[r.token] /\ r.dst = to[r.token] /\ r.src \in Server /\ r.dst \in Server
      /\ r.src = journal[c].src /\ r.token = journal[c].token /\ r.src # r.dst
  BY SendFacts, RequestedEffect
<1>1. ASSUME NEW s \in Server, NEW d \in Server, NEW u, u = token'[d], token'[s] = u,
             phase'[s] \in Moving, phase'[d] \in {"PREPARED", "MISSING"},
             token[d] = u, phase'[d] = phase[d], files'[d] = files[d]
      PROVE  /\ phase'[d] = "PREPARED" => files'[d] = files'[s]
             /\ phase'[d] = "MISSING" => StagedQueue(u)' = files'[s]
  <2>1. u \in Token /\ to[u] = d
    BY <1>1, BaseParts, RoutesOf DEF Arriving
  <2>2. token[s] = u /\ phase[s] \in Moving /\ files'[s] = files[s]
    <3>1. r.op = "export_begin" /\ u = r.token => phase[r.src] # "ACTIVE"
      BY <1>0, <1>1 DEF StaysFrozen, Freezing, Exporting
    <3> QED BY <1>0, <1>1, <3>1, EffectControls DEF Moving
  <2>3. ASSUME phase[d] = "MISSING" PROVE StagedQueue(u)' = StagedQueue(u)
    <3>1. staged'[u] = staged[u]
      BY <1>0, <2>1, <2>3, EffectCopies
    <3> QED BY <3>1 DEF StagedQueue
  <2> QED BY <1>1, <2>2, <2>3 DEF InstalledIsFrozen
<1>2. ASSUME NEW s \in Server, NEW d \in Server, NEW u, u = token'[d], token'[s] = u,
             phase'[s] \in Moving,
             r.op = "import_prepare", d = r.dst, phase[d] = "IMPORTING", token[d] = r.token, u = r.token,
             \/ phase'[d] = "PREPARED" /\ files'[d] = StagedQueue(r.token)
             \/ phase'[d] = "MISSING" /\ files'[d] = files[d]
      PROVE  /\ phase'[d] = "PREPARED" => files'[d] = files'[s]
             /\ phase'[d] = "MISSING" => StagedQueue(u)' = files'[s]
  <2>1. /\ StagedQueue(u) = snapshot[u] /\ snapshot[u] # None
        /\ StagedQueue(u)' = StagedQueue(u)
    BY <1>0, <1>2, PreparedCopy
  <2>2. token[s] = u /\ phase[s] \in Moving /\ files'[s] = files[s]
    BY <1>0, <1>2, EffectControls DEF Moving
  <2>3. snapshot[u] = files[s]
    BY <2>1, <2>2 DEF FrozenSnapshot
  <2> QED BY <1>2, <2>1, <2>2, <2>3
<1>3. ASSUME NEW s \in Server, NEW d \in Server, NEW u, u = token'[d], token'[s] = u,
             phase'[s] \in Moving
      PROVE  /\ phase'[d] = "PREPARED" => files'[d] = files'[s]
             /\ phase'[d] = "MISSING" => StagedQueue(u)' = files'[s]
  <2>1. CASE phase'[d] \notin {"PREPARED", "MISSING"}
    BY <2>1
  <2>2. CASE token'[d] = token[d] /\ phase'[d] = phase[d] /\ files'[d] = files[d]
    BY <1>1, <1>3, <2>1, <2>2
  <2>3. CASE /\ r.op = "import_prepare" /\ d = r.dst /\ phase[d] = "IMPORTING"
             /\ token[d] = r.token /\ token'[d] = r.token
             /\ \/ phase'[d] = "PREPARED" /\ files'[d] = StagedQueue(r.token)
                \/ phase'[d] = "MISSING" /\ files'[d] = files[d]
    BY <1>2, <1>3, <2>3
  <2> QED BY <1>0, <2>1, <2>2, <2>3, EffectControls
<1> QED BY <1>3 DEF InstalledIsFrozen

\* A request of a session freezes its source, or leaves it frozen, unless it is
\* export_abort.
LEMMA RequestFreezes ==
    ASSUME NEW from, NEW to, Base(from, to), NEW c \in Client, StaysFrozen(c),
           NEW r, Sends(c, r), Requested(r), UNCHANGED journal
    PROVE  /\ r.op # "export_abort" => Freezing(c)'
           /\ r.op \in Later => Exporting(journal[c].src, journal[c].token)'
           /\ r.op = "export_begin" /\ Handle(r) => Exporting(journal[c].src, journal[c].token)'
<1>0. /\ ServersOK /\ WellFormed(r) /\ Effect(r) /\ r.op = pc[c] /\ r.op \in Ops
      /\ r.src \in Server /\ r.src # r.dst /\ r.src = journal[c].src
      /\ r.token = journal[c].token /\ r.token \in Token
  BY SendFacts, RequestedEffect DEF Sends
<1>1. PICK s \in Server, t \in Token : s = r.src /\ t = r.token
  BY <1>0
<1>2. r.op # "export_abort" => Exporting(s, t) \/ \A x \in Server : token[x] # t
  BY <1>0, <1>1 DEF StaysFrozen, Freezing, Later, Ops, SourceOps
<1>3. ASSUME r.op # "export_abort", Exporting(s, t) PROVE Exporting(s, t)'
  BY <1>0, <1>1, <1>3, EffectControls DEF Exporting, Moving
<1>4. ASSUME r.op = "export_begin", \A x \in Server : token[x] # t
      PROVE  /\ Exporting(s, t)' \/ \A x \in Server : token'[x] # t
             /\ Handle(r) => Exporting(s, t)'
  <2>1. ExportBegin(s, t, r.dst) \/ ExportBeginCrash(s, t, r.dst)
    BY <1>0, <1>1, <1>4 DEF Effect
  <2>2. Handle(r) => ExportBegin(s, t, r.dst)
    BY <1>4, <1>1 DEF Handle
  <2>3. phase[s] = "ACTIVE"
    BY <1>1, <1>4, <2>1 DEF ExportBegin, ExportBeginCrash, MayExport, Exporting
  <2>4. Freeze(s, t, r.dst) => Exporting(s, t)'
    BY <1>0, <1>1 DEF Freeze, Exporting, ServersOK, ControlsOK
  <2>5. ExportBegin(s, t, r.dst) => Freeze(s, t, r.dst)
    BY <2>3 DEF ExportBegin
  <2>6. Freeze(s, t, r.dst) \/ UNCHANGED token
    BY <2>1, <2>5 DEF ExportBeginCrash, controlVars
  <2> QED BY <1>4, <2>2, <2>4, <2>5, <2>6
<1>5. r.op \in Later => Exporting(s, t)
  BY <1>0, <1>1 DEF StaysFrozen
<1>6. r.op \in Later => r.op # "export_abort" /\ r.op # "export_begin"
  BY DEF Later
<1>7. \/ r.op = "export_abort" \/ Exporting(s, t)
      \/ r.op = "export_begin" /\ \A x \in Server : token[x] # t
  BY <1>0, <1>2, <1>5 DEF Later
<1>8. Freezing(c)' <=> Exporting(s, t)' \/ \A x \in Server : token'[x] # t
  BY <1>0, <1>1 DEF Freezing, Exporting
<1>9. Exporting(journal[c].src, journal[c].token)' <=> Exporting(s, t)'
  BY <1>0, <1>1 DEF Exporting
<1> QED BY <1>3, <1>4, <1>5, <1>6, <1>7, <1>8, <1>9

\* A queue that is frozen under another token stays frozen.
LEMMA OthersFrozen ==
    ASSUME NEW from, NEW to, Base(from, to), PromptInv, NEW c \in Client,
           NEW r, Sends(c, r), Requested(r), UNCHANGED journal,
           NEW b \in Client, b # c, journal[b] # None, pc'[b] = pc[b], StaysFrozen(b)
    PROVE  StaysFrozen(b)'
<1>0. /\ ServersOK /\ ClientsOK /\ WellFormed(r) /\ Effect(r) /\ r.token = journal[c].token
      /\ journal[c] # None
  BY SendFacts, RequestedEffect
<1>1. PICK s \in Server, t \in Token : s = journal[b].src /\ t = journal[b].token
  BY <1>0 DEF ClientsOK, Ticket
<1>2. t # r.token
  BY <1>0, <1>1 DEF PromptInv, HeldOnce
<1>3. \A x \in Server : token'[x] = t => token[x] = t
  BY <1>0, <1>2, EffectControls
<1>4. Exporting(s, t) => Exporting(s, t)'
  BY <1>0, <1>2, EffectControls DEF Exporting
<1>5. Exporting(journal[b].src, journal[b].token)' <=> Exporting(s, t)'
  BY <1>1 DEF Exporting
<1> QED BY <1>1, <1>3, <1>4, <1>5 DEF StaysFrozen, Freezing

LEMMA RequestFresh ==
    ASSUME NEW from, NEW to, Base(from, to), PromptInv, FreshInv, NEW c \in Client,
           NEW r, Sends(c, r), Requested(r), UNCHANGED journal,
           \A b \in Client : b # c => pc'[b] = pc[b],
           StaysFrozen(c)'
    PROVE  FreshInv'
<1>1. journal[c] # None
  BY SendFacts
<1>2. FrozenSnapshot'
  BY FrozenSnapshotStays DEF FreshInv
<1>3. InstalledIsFrozen'
  BY <1>1, InstalledIsFrozenStays DEF FreshInv, PromptInv
<1>4. ASSUME NEW b \in Client, journal'[b] # None PROVE StaysFrozen(b)'
  BY <1>4, OthersFrozen DEF FreshInv
<1> QED BY <1>2, <1>3, <1>4 DEF FreshInv

LEMMA CrashFresh ==
    ASSUME NEW from, NEW to, Base(from, to), PromptInv, FreshInv, NEW c \in Client, Crash(c)
    PROVE  FreshInv'
<1>1. PICK r : r = Request(c)
  OBVIOUS
<1>2. Sends(c, r) /\ HandleCrash(r) /\ Requested(r) /\ UNCHANGED journal /\ Goto(c, "idle")
  BY <1>1 DEF Crash, Fault, Sends, Requested
<1>3. ClientsOK /\ journal[c] # None /\ r.op # "export_abort"
  BY <1>2, SendFacts DEF HandleCrash
<1>4. pc'[c] = "idle" /\ \A b \in Client : b # c => pc'[b] = pc[b]
  BY <1>2, <1>3 DEF Goto, ClientsOK
<1>5. StaysFrozen(c)'
  <2>1. Freezing(c)'
    BY <1>2, <1>3, RequestFreezes DEF FreshInv
  <2>2. "idle" \notin Later
    BY DEF Later, Ops, SourceOps
  <2> QED BY <1>4, <2>1, <2>2 DEF StaysFrozen
<1> QED BY <1>2, <1>4, <1>5, RequestFresh

\* A step of the computers that leaves the servers as they are.
LEMMA QuietFresh ==
    ASSUME FreshInv, UNCHANGED serverVars,
           \A b \in Client : journal'[b] # None =>
               \/ /\ journal'[b] = journal[b]
                  /\ pc'[b] = pc[b] \/ (pc[b] # "restored" /\ pc'[b] \notin Later)
               \/ /\ pc'[b] \notin Later
                  /\ \A x \in Server : token[x] # journal'[b].token
    PROVE  FreshInv'
<1>1. UNCHANGED <<phase, token, files, snapshot, staged>>
  BY DEF serverVars, controlVars, exportVars, importVars
<1>2. FrozenSnapshot' /\ InstalledIsFrozen'
  BY <1>1 DEF FreshInv, FrozenSnapshot, InstalledIsFrozen, StagedQueue
<1>3. ASSUME NEW b \in Client, journal'[b] # None PROVE StaysFrozen(b)'
  <2>1. CASE /\ journal'[b] = journal[b]
             /\ pc'[b] = pc[b] \/ (pc[b] # "restored" /\ pc'[b] \notin Later)
    <3>1. StaysFrozen(b)
      BY <1>3, <2>1 DEF FreshInv
    <3>2. /\ Exporting(journal[b].src, journal[b].token)'
                 <=> Exporting(journal[b].src, journal[b].token)
          /\ Freezing(b)' <=> Freezing(b)
      BY <1>1, <2>1 DEF Exporting, Freezing
    <3> QED BY <2>1, <3>1, <3>2 DEF StaysFrozen
  <2>2. CASE pc'[b] \notin Later /\ \A x \in Server : token[x] # journal'[b].token
    BY <1>1, <2>2 DEF StaysFrozen, Freezing
  <2> QED BY <1>3, <2>1, <2>2
<1> QED BY <1>2, <1>3 DEF FreshInv

LEMMA CallFresh ==
    ASSUME NEW from, NEW to, Base(from, to), PromptInv, FreshInv, NEW c \in Client, Call(c)
    PROVE  FreshInv'
<1>1. ServersOK /\ ClientsOK /\ pc[c] \in Ops /\ UNCHANGED journal /\ journal[c] # None
  BY BaseParts DEF Call, ClientsOK, Ops, SourceOps
<1>2. CASE UNCHANGED serverVars /\ Goto(c, "idle")
  <2>1. \A b \in Client : pc'[b] = pc[b] \/ (pc[b] # "restored" /\ pc'[b] \notin Later)
    BY <1>1, <1>2 DEF Goto, ClientsOK, Later, Ops, SourceOps
  <2> QED BY <1>1, <1>2, <2>1, QuietFresh
<1>3. ASSUME NEW r, Sends(c, r), Accepts(r), Handle(r), Continue(c, r) PROVE FreshInv'
  <2>1. r.op = pc[c] /\ Requested(r)
    BY <1>3, SendFacts DEF Requested
  <2>2. /\ \A b \in Client : b # c => pc'[b] = pc[b]
        /\ pc'[c] \in Later /\ pc[c] \notin Later => pc[c] = "export_begin"
    BY <1>1, <1>3, <2>1, CallNext
  <2>3. StaysFrozen(c)'
    <3>1. CASE pc[c] = "export_abort"
      <4>1. pc'[c] = "restored" /\ pc'[c] \notin Later
        BY <1>1, <1>3, <3>1 DEF Continue, Goto, ClientsOK, Later, Ops, SourceOps
      <4> QED BY <4>1 DEF StaysFrozen
    <3>2. CASE pc[c] # "export_abort"
      <4>1. StaysFrozen(c)
        BY <1>1 DEF FreshInv
      <4>2. Freezing(c)'
        BY <1>1, <1>3, <2>1, <3>2, <4>1, RequestFreezes
      <4>3. pc'[c] \in Later => Exporting(journal[c].src, journal[c].token)'
        BY <1>1, <1>3, <2>1, <2>2, <4>1, RequestFreezes
      <4> QED BY <4>2, <4>3 DEF StaysFrozen
    <3> QED BY <3>1, <3>2
  <2> QED BY <1>1, <1>3, <2>1, <2>2, <2>3, RequestFresh
<1>4. CASE MaySend(c)
  <2>1. PICK r : r = Request(c)
    OBVIOUS
  <2>2. Sends(c, r) /\ Served(r) /\ Continue(c, r)
    BY <1>1, <1>4, <2>1 DEF Call, Sends
  <2>3. CASE ~Accepts(r)
    <3>1. UNCHANGED serverVars /\ Goto(c, "idle")
      BY <2>2, <2>3 DEF Served, Continue
    <3> QED BY <1>2, <3>1
  <2>4. CASE Accepts(r)
    BY <1>3, <2>2, <2>4 DEF Served
  <2> QED BY <2>3, <2>4
<1>5. CASE ~MaySend(c)
  BY <1>2, <1>5 DEF Call
<1> QED BY <1>4, <1>5

\* A frozen queue is not written, and a queue recovered is the one renamed away.
LEMMA QueueFresh ==
    ASSUME NEW from, NEW to, Base(from, to), FreshInv, NEW s \in Server, Write(s) \/ Recover(s)
    PROVE  FreshInv'
<1>1. /\ UNCHANGED <<token, exportVars, importVars, clientVars>>
      /\ phase \in [Server -> {"ACTIVE", "EXPORTING", "REDIRECT", "IMPORTING", "PREPARED", "MISSING"}]
      /\ files \in [Server -> Queue]
  BY BaseParts DEF Write, Recover, controlVars, ServersOK, ControlsOK
<1>2. \/ /\ phase' = phase /\ phase[s] = "ACTIVE"
         /\ \A x \in Server : x # s => files'[x] = files[x]
      \/ /\ phase[s] = "MISSING" /\ phase' = [phase EXCEPT ![s] = "PREPARED"]
         /\ files' = [files EXCEPT ![s] = StagedQueue(token[s])]
  BY <1>1 DEF Write, Recover, Open, controlVars
<1>3. ASSUME NEW x \in Server
      PROVE  \/ phase'[x] = phase[x] /\ (phase[x] = "ACTIVE" \/ files'[x] = files[x])
             \/ /\ phase[x] = "MISSING" /\ phase'[x] = "PREPARED"
                /\ files'[x] = StagedQueue(token[x])
  BY <1>1, <1>2
<1>4. FrozenSnapshot'
  BY <1>1, <1>3 DEF FreshInv, FrozenSnapshot, exportVars, Moving
<1>5. InstalledIsFrozen'
  <2>1. \A u : StagedQueue(u)' = StagedQueue(u)
    BY <1>1 DEF StagedQueue, importVars
  <2>2. ASSUME NEW x \in Server, NEW d \in Server, NEW u, u = token[d], token[x] = u,
               phase'[x] \in Moving
        PROVE  /\ phase'[d] = "PREPARED" => files'[d] = files'[x]
               /\ phase'[d] = "MISSING" => StagedQueue(u)' = files'[x]
    <3>1. phase[x] \in Moving /\ files'[x] = files[x]
      BY <1>3, <2>2 DEF Moving
    <3> QED BY <1>3, <2>1, <2>2, <3>1 DEF FreshInv, InstalledIsFrozen
  <2> QED BY <1>1, <2>2 DEF InstalledIsFrozen
<1>6. ASSUME NEW b \in Client, journal'[b] # None PROVE StaysFrozen(b)'
  <2>1. journal'[b] = journal[b] /\ pc'[b] = pc[b] /\ journal[b].src \in Server
    BY <1>1, <1>6, BaseParts DEF clientVars, ClientsOK, Ticket
  <2>2. StaysFrozen(b)
    BY <1>6, <2>1 DEF FreshInv
  <2>3. /\ Exporting(journal[b].src, journal[b].token)'
               <=> Exporting(journal[b].src, journal[b].token)
        /\ Freezing(b)' <=> Freezing(b)
    BY <1>1, <1>3, <2>1 DEF Exporting, Freezing
  <2> QED BY <2>1, <2>2, <2>3 DEF StaysFrozen
<1> QED BY <1>4, <1>5, <1>6 DEF FreshInv

\* No queue has the token of a migration that starts.
LEMMA StartFresh ==
    ASSUME NEW from, NEW to, Base(from, to), FreshInv, NEW c \in Client, NEW t \in Token,
           NEW d \in Server, Start(c, t, d)
    PROVE  FreshInv'
<1>1. ClientsOK /\ UNCHANGED serverVars /\ t \notin issued /\ t # None
  BY BaseParts, MigrationAssumption DEF Start
<1>2. /\ journal'[c].token = t /\ pc'[c] = "export_begin"
      /\ \A b \in Client : b # c => journal'[b] = journal[b] /\ pc'[b] = pc[b]
  BY <1>1 DEF Start, Goto, ClientsOK
<1>3. \A x \in Server : token[x] # t
  BY <1>1, BaseParts, RoutesOf
<1>4. "export_begin" \notin Later
  BY DEF Later
<1> QED BY <1>1, <1>2, <1>3, <1>4, QuietFresh

\* A restored session does nothing but end its migration.
LEMMA SessionFresh ==
    ASSUME NEW from, NEW to, Base(from, to), FreshInv, NEW c \in Client,
           \/ Resume(c) \/ Restore(c) \/ Switch(c) \/ Forget(c) \/ Follow(c) \/ Quit(c)
    PROVE  FreshInv'
<1>1. ClientsOK /\ UNCHANGED serverVars
  BY BaseParts DEF Resume, Restore, Reopen, Switch, Forget, Follow, Quit
<1>2. CASE Forget(c)
  <2>1. journal'[c] = None /\ \A b \in Client : b # c => journal'[b] = journal[b] /\ pc'[b] = pc[b]
    BY <1>1, <1>2 DEF Forget, Goto, ClientsOK
  <2> QED BY <1>1, <2>1, QuietFresh
<1>3. CASE Follow(c)
  BY <1>1, <1>3, QuietFresh DEF Follow
<1>4. CASE Resume(c) \/ Restore(c) \/ Switch(c) \/ Quit(c)
  <2>1. UNCHANGED journal /\ pc[c] # "restored" /\ \E op : Goto(c, op) /\ op \notin Later
    BY <1>4 DEF Resume, Restore, Reopen, Switch, Quit, Later, Ops, SourceOps
  <2>2. \A b \in Client : pc'[b] = pc[b] \/ (pc[b] # "restored" /\ pc'[b] \notin Later)
    BY <1>1, <2>1 DEF Goto, ClientsOK
  <2> QED BY <1>1, <2>1, <2>2, QuietFresh
<1> QED BY <1>2, <1>3, <1>4

LEMMA InitFresh == Init => FreshInv
BY DEF Init, FreshInv, FrozenSnapshot, InstalledIsFrozen, Moving

\* NOVA does not die between a restoration and the removal of the journal.
NoneKept == \A c \in Client : ~KeepJournal(c)

LEMMA NextFresh ==
    /\ MigrationInv /\ OrderInv /\ PromptInv /\ FreshInv
    /\ NoneLate /\ NoneLate' /\ [Next]_vars /\ [NoneKept]_vars
    => FreshInv'
<1> SUFFICES ASSUME MigrationInv, OrderInv, PromptInv, FreshInv, NoneLate, NoneLate',
                    [Next]_vars, [NoneKept]_vars
             PROVE  FreshInv'
  OBVIOUS
<1>1. PICK from \in Route, to \in Route : Base(from, to)
  BY DEF OrderInv, Base
<1>2. ~RunLate /\ \A c \in Client : ~Break(c)
  BY DEF RunLate, Break, NoneLate
<1>3. CASE UNCHANGED vars
  <2>1. UNCHANGED <<serverVars, journal, pc>>
    BY <1>3 DEF vars, clientVars
  <2> QED BY <2>1, QuietFresh
<1>4. ASSUME NEW s \in Server, Write(s) \/ Recover(s) PROVE FreshInv'
  BY <1>1, <1>4, QueueFresh
<1>5. ASSUME NEW c \in Client, NEW t \in Token, NEW d \in Server, Start(c, t, d) PROVE FreshInv'
  BY <1>1, <1>5, StartFresh
<1>6. ASSUME NEW c \in Client,
             \/ Resume(c) \/ Restore(c) \/ Call(c) \/ Switch(c) \/ Forget(c)
             \/ Follow(c) \/ Quit(c) \/ Crash(c)
      PROVE  FreshInv'
  BY <1>1, <1>6, CallFresh, CrashFresh, SessionFresh
<1>7. CASE NoneKept
  BY <1>2, <1>3, <1>4, <1>5, <1>6, <1>7 DEF Next, NoneKept
<1> QED BY <1>3, <1>7

\* The cutover is current: while a source refuses to come back and its successor
\* is not in use yet, the two hold the same records.  It needs that no request
\* outlives its session and that a restored source is not migrated with the old
\* journal, whose snapshot was taken before the source was in use again
\* (control.py export_begin, import_prepare; sync_server.c sync_server_run).
THEOREM CutoverOrderly == Spec /\ []NoneLate /\ [][NoneKept]_vars => []CutoverIsCurrent
<1>1. ASSUME MigrationInv, OrderInv, FreshInv PROVE CutoverIsCurrent
  <2>1. PICK from \in Route, to \in Route : Base(from, to)
    BY <1>1 DEF OrderInv, Base
  <2>2. ASSUME NEW s \in Server, phase[s] = "REDIRECT", phase[destination[s]] = "PREPARED"
        PROVE  files[destination[s]] = files[s]
    <3>1. /\ token[s] \in issued /\ from[token[s]] = s /\ destination[s] = to[token[s]]
          /\ destination[s] \in Server
      BY <2>1, <2>2, BaseParts, RoutesOf DEF Base, QueuesInv, RoutedQueues, Moving
    <3>2. Arrived(from, to, token[s])
      BY <2>1, <2>2, <3>1 DEF Base, QueuesInv, InstalledArrived, GivenUp
    <3> QED BY <1>1, <2>2, <3>1, <3>2 DEF Arrived, FreshInv, InstalledIsFrozen, Moving
  <2> QED BY <2>2 DEF CutoverIsCurrent
<1>2. MigrationInv /\ OrderInv /\ FreshInv => CutoverIsCurrent
  BY <1>1
<1> QED
  BY <1>2, InitFresh, NextFresh, MigrationAlways, OrderAlways, PromptAlways, PTL DEF Spec

=============================================================================
