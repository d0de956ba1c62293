--------------------------- MODULE SyncClientProofs ---------------------------
(***************************************************************************)
(* Theorems about the synchronization client, for any devices, paths and   *)
(* contents and any number of versions, edits and stopped runs.            *)
(***************************************************************************)
EXTENDS SyncClient, SequenceFacts

-----------------------------------------------------------------------------
(* Lineages. *)

\* The versions reached from one by the parents exist as a function.
LEMMA ChainExists ==
    ASSUME NEW n \in Nat, NEW par \in [1 .. n -> Nat], \A k \in 1 .. n : par[k] < k
    PROVE  \E c : c = [k \in 0 .. n |-> IF k = 0 THEN {} ELSE {k} \union c[par[k]]]
<1> DEFINE Closed(S) == \A x \in S : x # 0 => par[x] \in S
           R(k) == {w \in 1 .. n : \A S \in SUBSET (0 .. n) : k \in S /\ Closed(S) => w \in S}
           c == [k \in 0 .. n |-> R(k)]
<1>1. R(0) = {}
  <2>1. {0} \in SUBSET (0 .. n) /\ 0 \in {0} /\ Closed({0})
    OBVIOUS
  <2>2. ASSUME NEW w \in R(0) PROVE FALSE
    <3>1. w \in 1 .. n /\ w \in {0}
      BY <2>1
    <3>2. QED BY <3>1
  <2>3. QED BY <2>2
<1>2. ASSUME NEW k \in 1 .. n PROVE R(k) = {k} \union R(par[k])
  <2>1. par[k] \in 0 .. n
    OBVIOUS
  <2>2. k \in R(k)
    OBVIOUS
  <2>3. ASSUME NEW w \in R(par[k]) PROVE w \in R(k)
    <3>1. ASSUME NEW S \in SUBSET (0 .. n), k \in S, Closed(S) PROVE w \in S
      BY <3>1
    <3>2. QED BY <3>1
  <2>4. ASSUME NEW w \in R(k), w # k PROVE w \in R(par[k])
    <3>1. ASSUME NEW S \in SUBSET (0 .. n), par[k] \in S, Closed(S) PROVE w \in S
      <4>1. S \union {k} \in SUBSET (0 .. n) /\ k \in S \union {k} /\ Closed(S \union {k})
        BY <3>1
      <4>2. QED BY <4>1, <2>4
    <3>2. QED BY <3>1
  <2>5. QED BY <2>2, <2>3, <2>4, SMTT(20)
<1> HIDE DEF R
<1>3. ASSUME NEW k \in 1 .. n PROVE c[par[k]] = R(par[k])
  <2>1. par[k] \in 0 .. n
    OBVIOUS
  <2>2. QED BY <2>1
<1>4. ASSUME NEW k \in 0 .. n
      PROVE  c[k] = IF k = 0 THEN {} ELSE {k} \union c[par[k]]
  BY <1>1, <1>2, <1>3
<1>5. c = [k \in 0 .. n |-> IF k = 0 THEN {} ELSE {k} \union c[par[k]]]
  BY <1>4
<1>6. QED BY <1>5

\* A chain: what is reached from a version is the version and what is reached
\* from its parent.
IsChain(c, n, par) ==
    c[0] = {} /\ \A k \in 1 .. n : c[k] = {k} \union c[par[k]]

LEMMA ChainFacts ==
    ASSUME NEW n \in Nat, NEW par \in [1 .. n -> Nat], \A k \in 1 .. n : par[k] < k,
           NEW c, IsChain(c, n, par)
    PROVE  /\ \A k \in 1 .. n : \A w \in c[k] : w \in 1 .. k /\ c[w] \subseteq c[k]
           /\ \A k \in 1 .. n : \A v, w \in c[k] : v \in c[w] \/ w \in c[v]
<1> DEFINE Good(k) ==
             /\ \A w \in c[k] : w \in 1 .. k /\ c[w] \subseteq c[k]
             /\ \A v, w \in c[k] : v \in c[w] \/ w \in c[v]
           Bad == {k \in 1 .. n : ~Good(k)}
<1>1. Bad = {}
  <2>1. SUFFICES ASSUME Bad # {} PROVE FALSE
    OBVIOUS
  <2>2. PICK k \in Bad : \A y \in Bad : k <= y
    <3>1. Bad \subseteq Nat
      OBVIOUS
    <3>2. QED BY <3>1, <2>1, LeastNat
  <2>3. k \in 1 .. n /\ par[k] \in 0 .. n /\ par[k] < k /\ c[k] = {k} \union c[par[k]]
    BY DEF IsChain
  <2>4. par[k] # 0 => Good(par[k])
    BY <2>2, <2>3
  <2>5. par[k] = 0 => c[par[k]] = {}
    BY DEF IsChain
  <2>6. \A w \in c[k] : w \in 1 .. k /\ c[w] \subseteq c[k]
    BY <2>3, <2>4, <2>5
  <2>7. \A v, w \in c[k] : v \in c[w] \/ w \in c[v]
    BY <2>3, <2>4, <2>5
  <2>8. QED BY <2>2, <2>6, <2>7
<1>2. QED BY <1>1

\* Chains agree where the parents do.
LEMMA ChainsAgree ==
    ASSUME NEW n \in Nat, NEW par \in [1 .. n -> Nat], \A k \in 1 .. n : par[k] < k,
           NEW c, IsChain(c, n, par), NEW e, IsChain(e, n, par)
    PROVE  \A k \in 0 .. n : c[k] = e[k]
<1> DEFINE Bad == {k \in 0 .. n : c[k] # e[k]}
<1>1. Bad = {}
  <2>1. SUFFICES ASSUME Bad # {} PROVE FALSE
    OBVIOUS
  <2>2. PICK k \in Bad : \A y \in Bad : k <= y
    <3>1. Bad \subseteq Nat
      OBVIOUS
    <3>2. QED BY <3>1, <2>1, LeastNat
  <2>3. k \in 0 .. n /\ c[k] # e[k] /\ k # 0
    BY <2>2 DEF IsChain
  <2>4. k \in 1 .. n /\ par[k] \in 0 .. n /\ c[par[k]] = e[par[k]]
    BY <2>2, <2>3
  <2>5. QED BY <2>2, <2>3, <2>4, ZenonT(40) DEF IsChain
<1>2. QED BY <1>1

Parent == [v \in Ids |-> manifest[v].parent]
Chain == [v \in 0 .. Len(manifest) |-> Lineage(v)]

\* Parents are older.
Older == \A v \in Ids : manifest[v].parent \in Nat /\ manifest[v].parent < v

LEMMA LineageIsChain ==
    ASSUME Older, Len(manifest) \in Nat PROVE IsChain(Chain, Len(manifest), Parent)
<1> DEFINE n == Len(manifest)
<1>1. Parent \in [1 .. n -> Nat] /\ \A k \in 1 .. n : Parent[k] < k
  BY DEF Parent, Older, Ids
<1>2. PICK c : c = [k \in 0 .. n |-> IF k = 0 THEN {} ELSE {k} \union c[Parent[k]]]
  <2> HIDE DEF n
  <2>1. n \in Nat
    BY DEF n
  <2>2. QED BY <1>1, <2>1, ChainExists
<1>3. \A k \in 1 .. n : Parent[k] = manifest[k].parent
  BY DEF Parent, Ids
<1>4. c = [k \in 0 .. n |-> IF k = 0 THEN {} ELSE {k} \union c[manifest[k].parent]]
  BY <1>2, <1>3
<1> DEFINE d == CHOOSE f : f = [k \in 0 .. n |-> IF k = 0 THEN {} ELSE {k} \union f[manifest[k].parent]]
<1>5. d = [k \in 0 .. n |-> IF k = 0 THEN {} ELSE {k} \union d[manifest[k].parent]]
  BY <1>4
<1>6. \A v : Lineage(v) = d[v]
  BY DEF Lineage
<1> HIDE DEF d
<1>7. ASSUME NEW k \in 1 .. n PROVE Chain[k] = {k} \union Chain[Parent[k]]
  <2>1. k \in 0 .. n /\ k # 0 /\ Parent[k] \in 0 .. n
    BY <1>1
  <2>2. Chain[k] = d[k] /\ Chain[Parent[k]] = d[Parent[k]]
    BY <2>1, <1>6 DEF Chain
  <2>3. d[k] = {k} \union d[Parent[k]]
    BY <2>1, <1>3, <1>5
  <2>4. QED BY <2>2, <2>3
<1>8. Chain[0] = {}
  BY <1>5, <1>6 DEF Chain
<1>9. QED BY <1>7, <1>8 DEF IsChain

-----------------------------------------------------------------------------
(* The manifests and the server. *)

\* A version descends from an older published version of its path, or from none.
ParentOk(v) ==
    LET u == manifest[v].parent IN
    u # 0 => u < v /\ u \in published /\ PathOf(u) = PathOf(v)

\* The published versions of a path are the lineage of its head, and every
\* author has the receipts of its own.
HistoryInv ==
    /\ \A v \in Ids : ParentOk(v)
    /\ \A p \in Path : heads[p] # 0 => heads[p] \in published /\ PathOf(heads[p]) = p
    /\ \A v \in published, h \in Base : heads[PathOf(v)] = h => v \in Lineage(h)
    /\ \A v \in published : <<v, manifest[v].origin>> \in receipts

-----------------------------------------------------------------------------
(* The index of a device. *)

HasContent(d, v) == ContentOf(v) \in cache[d] \union {NoFile}

\* The device has received the version, or only its receipt is missing.
Handled(d, v) == <<v, d>> \in receipts \/ inbox[d][v] = "APPLIED"
HandledTo(d, v) == \A w \in Lineage(v) : Handled(d, w)

IndexOk(d) ==
    /\ outbox[d] \subseteq Ids /\ versions[d] \subseteq Ids
    /\ \A v \in outbox[d] : manifest[v].origin = d
    /\ \A v \in outbox[d] \union versions[d] : HasContent(d, v)
    /\ \A p \in Path : files[d][p] # 0 =>
          /\ files[d][p] \in published \intersect versions[d]
          /\ PathOf(files[d][p]) = p
    /\ \A v \in Version : inbox[d][v] # "none" => v \in published
    /\ \A v \in Version : inbox[d][v] = "APPLIED" => v \in versions[d]

\* What leads to a base, and to the parent of an own version, is handled.
BaseOk(d) ==
    /\ \A p \in Path, f \in Base : files[d][p] = f => HandledTo(d, f)
    /\ \A u \in Ids, f \in Base :
          manifest[u].origin = d /\ manifest[u].parent = f => HandledTo(d, f)

-----------------------------------------------------------------------------
(* A run. *)

Publishing == {"prepare", "commit", "record"}
Receiving == {"fetch", "apply", "replace", "recycle", "settle"}
Closing == {"ack", "forget"}
ReceivePhase == {"inbox", "pending", "lineage", "choice"}
ResolvePhase == {"ask", "lineage", "choice", "drop"}

\* The phases of a run follow its mode; the work on a version, its phase.
PhaseOk(d) ==
    LET r == run[d] IN
    /\ r.phase = "outbox" => r.mode \in {"RUN", "PUSH"}
    /\ r.phase \in {"inbox", "pending"} => r.mode \in {"RUN", "PULL"}
    /\ r.phase \in ResolvePhase => r.mode \in {"KEEP", "USE"}
    /\ r.phase \in {"idle", "ask", "drop"} => r.step = "next"
    /\ r.step \in Publishing => r.phase \in {"outbox", "scan", "deletions"}
    /\ r.step \in Receiving \union Closing => r.phase \in ReceivePhase

\* What it still has to do.
TodoOk(d) ==
    LET r == run[d] IN
    /\ r.phase = "outbox" => r.todo \subseteq outbox[d]
    /\ r.phase \in ReceivePhase => r.todo \subseteq published

\* The version in hand.
CurOk(d) ==
    LET r == run[d] IN
    /\ r.step # "next" => r.cur \in Ids
    /\ \A v \in Ids : r.cur = v =>
          /\ r.step \in Publishing => v \in outbox[d]
          /\ r.step = "record" => v \in published
          /\ r.step \in Receiving \union Closing =>
                v \in published /\ v \in r.todo /\ \A x \in r.todo : v <= x
          /\ r.step \in Receiving => inbox[d][v] \in {"DOWNLOADING", "READY"}
          /\ r.step \in Receiving \ {"fetch"} => HasContent(d, v)
          /\ r.step \in Closing => v \in versions[d]
          /\ r.step = "ack" => inbox[d][v] = "APPLIED"
          /\ r.step = "forget" => <<v, d>> \in receipts

\* A resolution is about one path and a published version of it; the local
\* content it accepts is kept.
ResolveOk(d) ==
    LET r == run[d] IN
    /\ r.phase \in ResolvePhase =>
          r.remote \in published /\ r.paths = {PathOf(r.remote)}
    /\ r.phase \in {"lineage", "choice"} => \A v \in r.todo : r.paths = {PathOf(v)}
    /\ r.phase = "choice" => r.todo \subseteq {r.remote}
    /\ r.phase = "drop" => RowsOfPath(d) \subseteq versions[d]
    /\ \A p \in Path, c \in Content :
          r.phase \in {"ask", "lineage", "choice"} /\ r.paths = {p} /\ r.accepted = c
             => Kept(d, p, c)

\* The content a run is about to write over is kept.
ReplaceOk(d) ==
    LET r == run[d] IN
    /\ r.step \in {"apply", "replace"} => ~r.already
    /\ r.step = "recycle" => r.actual # NoFile
    /\ \A v \in Ids, p \in Path, c \in Content :
          (/\ r.step \in {"fetch", "apply", "replace"} /\ ~r.already
           /\ r.cur = v /\ PathOf(v) = p /\ r.actual = c)
          => Kept(d, p, c)

\* The version in hand follows the base; in a resolution the base, then the
\* versions the device misses, lead to the accepted version.
MoveOk(d) ==
    LET r == run[d] IN
    /\ \A v \in Ids : r.cur = v =>
          /\ r.step \in Publishing /\ r.phase \in {"scan", "deletions"} =>
                manifest[v].parent = BaseOf(d, v)
          /\ r.step \in Receiving /\ r.phase \in {"inbox", "pending"} =>
                manifest[v].parent = BaseOf(d, v)
    /\ \A h \in Ids, f \in Base :
          (/\ r.phase \in {"ask", "lineage", "choice"}
           /\ r.remote = h /\ files[d][PathOf(h)] = f)
          => f \in Lineage(h) \union {0}
    /\ \A h \in Ids : r.phase = "lineage" /\ r.remote = h =>
          /\ r.todo \subseteq Lineage(h)
          /\ \A w \in Lineage(h) : Handled(d, w) \/ w \in r.todo
          /\ \A w \in r.todo : <<w, d>> \in receipts => r.step = "forget" /\ r.cur = w
    /\ \A h \in Ids : r.phase = "choice" /\ r.remote = h => HandledTo(d, h)

RunOk(d) ==
    /\ PhaseOk(d) /\ TodoOk(d) /\ CurOk(d) /\ ResolveOk(d) /\ ReplaceOk(d) /\ MoveOk(d)

ClientInv ==
    /\ TypeOK /\ HistoryInv /\ PublicationRemembered /\ ReceiptMeansApplied
    /\ \A d \in Device : IndexOk(d) /\ BaseOk(d) /\ RunOk(d)

-----------------------------------------------------------------------------
(* Lineages of the state. *)

LineageInv ==
    /\ Lineage(0) = {}
    /\ \A v \in Ids, u \in Nat : manifest[v].parent = u => Lineage(v) = {v} \union Lineage(u)
    /\ \A v \in Ids : \A w \in Lineage(v) : w \in 1 .. v /\ Lineage(w) \subseteq Lineage(v)
    /\ \A h \in Ids : \A v, w \in Lineage(h) : v \in Lineage(w) \/ w \in Lineage(v)

LEMMA LineageFacts == Older /\ Len(manifest) \in Nat => LineageInv
<1> SUFFICES ASSUME Older, Len(manifest) \in Nat PROVE LineageInv
  OBVIOUS
<1> DEFINE n == Len(manifest)
<1>1. Parent \in [1 .. n -> Nat] /\ \A k \in 1 .. n : Parent[k] < k /\ Parent[k] = manifest[k].parent
  BY DEF Parent, Older, Ids
<1>2. \A k \in 0 .. n : Chain[k] = Lineage(k)
  BY DEF Chain
<1>3. Chain[0] = {} /\ \A k \in 1 .. n : Chain[k] = {k} \union Chain[Parent[k]]
  BY LineageIsChain DEF IsChain
<1>4. /\ \A k \in 1 .. n : \A w \in Chain[k] : w \in 1 .. k /\ Chain[w] \subseteq Chain[k]
      /\ \A k \in 1 .. n : \A v, w \in Chain[k] : v \in Chain[w] \/ w \in Chain[v]
  <2>1. IsChain(Chain, n, Parent) /\ n \in Nat
    BY LineageIsChain
  <2> HIDE DEF n
  <2>2. QED BY <1>1, <2>1, ChainFacts
<1>5. Ids = 1 .. n /\ 0 \in 0 .. n
  BY DEF Ids
<1> HIDE DEF n
<1>6. n \in Nat
  BY DEF n
<1>7. ASSUME NEW v \in 1 .. n PROVE v \in 0 .. n /\ Parent[v] \in 0 .. n /\ Parent[v] \in Nat
  BY <1>1, <1>6
<1>8. ASSUME NEW v \in 1 .. n, NEW w \in Lineage(v)
      PROVE  w \in 1 .. v /\ w \in 0 .. n /\ Lineage(w) \subseteq Lineage(v)
  <2>1. w \in 1 .. v /\ Chain[w] \subseteq Chain[v]
    BY <1>2, <1>4, <1>7
  <2>2. w \in 0 .. n
    BY <2>1, <1>6
  <2>3. QED BY <2>1, <2>2, <1>2, <1>7
<1>9. ASSUME NEW h \in 1 .. n, NEW v \in Lineage(h), NEW w \in Lineage(h)
      PROVE  v \in Lineage(w) \/ w \in Lineage(v)
  <2>1. v \in 0 .. n /\ w \in 0 .. n /\ Lineage(h) = Chain[h]
    BY <1>2, <1>7, <1>8
  <2>2. QED BY <2>1, <1>2, <1>4
<1>10. ASSUME NEW v \in 1 .. n, NEW u \in Nat, manifest[v].parent = u
       PROVE  Lineage(v) = {v} \union Lineage(u)
  BY <1>1, <1>2, <1>3, <1>7, <1>10
<1>11. QED BY <1>2, <1>3, <1>5, <1>8, <1>9, <1>10 DEF LineageInv

LEMMA LineageFactsNext == Older' /\ (Len(manifest) \in Nat)' => LineageInv'
BY LineageFacts, PTL

\* Manifests are immutable, versions stay published, receipts are kept.
Grows ==
    /\ Len(manifest) <= Len(manifest)'
    /\ \A v \in Ids : manifest'[v] = manifest[v]
    /\ published \subseteq published' /\ receipts \subseteq receipts'

LEMMA LineageGrows ==
    ASSUME Older, Older', Len(manifest) \in Nat, Len(manifest)' \in Nat, Grows
    PROVE  \A v \in 0 .. Len(manifest) : Lineage(v)' = Lineage(v)
<1> DEFINE n == Len(manifest)
           e == [k \in 0 .. n |-> Lineage(k)']
<1>1. Parent \in [1 .. n -> Nat] /\ \A k \in 1 .. n : Parent[k] < k /\ Parent[k] = manifest[k].parent
  BY DEF Parent, Older, Ids
<1>2. IsChain(Chain, n, Parent) /\ n \in Nat
  BY LineageIsChain
<1>3. LineageInv'
  BY LineageFactsNext
<1>4. \A k \in 1 .. n : k \in Ids' /\ manifest'[k].parent = Parent[k]
  BY <1>1 DEF Ids, Grows
<1> HIDE DEF n
<1>5. IsChain(e, n, Parent)
  <2>1. Lineage(0)' = {} /\ e[0] = Lineage(0)'
    BY <1>2, <1>3 DEF LineageInv
  <2>2. ASSUME NEW k \in 1 .. n PROVE e[k] = {k} \union e[Parent[k]]
    <3>1. Parent[k] \in 0 .. n /\ Parent[k] \in Nat /\ k \in 0 .. n
      BY <1>1, <1>2
    <3>2. PICK u \in Nat : u = Parent[k]
      BY <3>1
    <3>3. Lineage(k)' = {k} \union Lineage(u)'
      BY <1>3, <1>4, <3>2 DEF LineageInv
    <3>4. e[k] = Lineage(k)' /\ e[u] = Lineage(u)'
      BY <3>1, <3>2
    <3>5. QED BY <3>2, <3>3, <3>4
  <2>3. QED BY <2>1, <2>2 DEF IsChain
<1> HIDE DEF e
<1>6. \A k \in 0 .. n : Chain[k] = e[k]
  BY <1>1, <1>2, <1>5, ChainsAgree
<1>7. QED BY <1>6 DEF Chain, e, n

-----------------------------------------------------------------------------
(* What the invariant says of a state. *)

LEMMA RunFacts ==
    ASSUME TypeOK, NEW d \in Device
    PROVE  /\ run[d] \in Run /\ run \in [Device -> Run]
           /\ run[d].todo \subseteq Version /\ run[d].paths \subseteq Path
           /\ run[d].cur \in Base /\ run[d].remote \in Base
           /\ run[d].actual \in Local /\ run[d].accepted \in Local /\ run[d].already \in BOOLEAN
           /\ run[d].mode \in Mode \union {"none"}
BY DEF TypeOK, Run

LEMMA Numbers ==
    ASSUME TypeOK
    PROVE  /\ Len(manifest) \in Nat /\ Ids \subseteq Version /\ Version \subseteq Base
           /\ Base \subseteq Nat /\ 0 \in Base /\ 0 \notin Ids /\ 0 \notin Version
           /\ Base = Version \union {0} /\ Ids \subseteq Nat
           /\ published \subseteq Ids /\ staged \subseteq Ids
BY ClientAssumption DEF TypeOK, Ids, Version, Base

LEMMA ManifestFacts ==
    ASSUME TypeOK, NEW v \in Ids
    PROVE  /\ manifest[v].path \in Path /\ manifest[v].origin \in Device
           /\ manifest[v].parent \in Base /\ manifest[v].content \in Local
           /\ PathOf(v) = manifest[v].path /\ ContentOf(v) = manifest[v].content
           /\ manifest[v] \in Manifest /\ v # 0
<1>1. manifest[v] \in Manifest /\ v # 0
  BY Numbers DEF TypeOK, Ids
<1>2. QED BY <1>1 DEF Manifest, PathOf, ContentOf

LEMMA ParentsOlder == ASSUME TypeOK, HistoryInv PROVE Older
<1>1. ASSUME NEW v \in Ids PROVE manifest[v].parent \in Nat /\ manifest[v].parent < v
  <2>1. manifest[v].parent \in Base /\ v \in Nat /\ v # 0 /\ manifest[v].parent \in Nat
    BY Numbers, ManifestFacts
  <2>2. manifest[v].parent # 0 => manifest[v].parent < v
    BY DEF HistoryInv, ParentOk
  <2>3. QED BY <2>1, <2>2
<1>2. QED BY <1>1 DEF Older

LEMMA Lineages == ASSUME TypeOK, HistoryInv PROVE LineageInv
BY ParentsOlder, Numbers, LineageFacts

LEMMA LineageIds ==
    ASSUME TypeOK, HistoryInv, NEW v \in Ids \union {0}, NEW w \in Lineage(v)
    PROVE  w \in Ids /\ w \in Base /\ w <= v
BY Lineages, Numbers DEF LineageInv, Ids

\* A lineage stays within the published versions of a path.
LEMMA LineagePublished ==
    ASSUME TypeOK, HistoryInv, NEW v \in published
    PROVE  \A w \in Lineage(v) : w \in published /\ PathOf(w) = PathOf(v)
<1> DEFINE Good(k) == \A w \in Lineage(k) : w \in published /\ PathOf(w) = PathOf(k)
           Bad == {k \in published : ~Good(k)}
<1>1. Bad = {}
  <2>1. SUFFICES ASSUME Bad # {} PROVE FALSE
    OBVIOUS
  <2>2. PICK k \in Bad : \A y \in Bad : k <= y
    <3>1. Bad \subseteq Nat
      BY Numbers
    <3>2. QED BY <3>1, <2>1, LeastNat
  <2>3. k \in published /\ k \in Ids /\ k \in Nat
    BY Numbers
  <2>4. PICK u \in Base : u = manifest[k].parent
    BY <2>3, ManifestFacts
  <2>5. Lineage(k) = {k} \union Lineage(u) /\ Lineage(0) = {} /\ u \in Nat
    BY <2>3, <2>4, Lineages, Numbers DEF LineageInv
  <2>6. u # 0 => u < k /\ u \in published /\ PathOf(u) = PathOf(k)
    BY <2>3, <2>4 DEF HistoryInv, ParentOk
  <2>7. u # 0 => Good(u)
    BY <2>2, <2>3, <2>5, <2>6
  <2>8. QED BY <2>2, <2>3, <2>5, <2>6, <2>7
<1>2. QED BY <1>1

-----------------------------------------------------------------------------
(* What a step leaves alone. *)

LEMMA GrowFacts ==
    ASSUME TypeOK, TypeOK', HistoryInv, HistoryInv', Grows
    PROVE  /\ Ids \subseteq Ids'
           /\ \A v \in Base : v \in Ids \union {0} => Lineage(v)' = Lineage(v)
           /\ \A v \in Ids : PathOf(v)' = PathOf(v) /\ ContentOf(v)' = ContentOf(v)
           /\ ContentOf(0)' = ContentOf(0)
<1>1. Older /\ Older'
  <2>1. TypeOK' /\ HistoryInv' => Older'
    BY ParentsOlder, PTL
  <2>2. QED BY <2>1, ParentsOlder
<1>2. Len(manifest) \in Nat /\ Len(manifest)' \in Nat
  <2>1. TypeOK' => (Len(manifest) \in Nat)'
    BY Numbers, PTL
  <2>2. QED BY <2>1, Numbers
<1>3. \A v \in 0 .. Len(manifest) : Lineage(v)' = Lineage(v)
  BY <1>1, <1>2, LineageGrows
<1>4. \A v \in Base : v \in Ids \union {0} => v \in 0 .. Len(manifest)
  BY <1>2 DEF Ids
<1>5. Ids \subseteq Ids'
  BY <1>2 DEF Grows, Ids
<1>6. QED BY <1>3, <1>4, <1>5 DEF Grows, PathOf, ContentOf

\* The tables and copies of the device do not change, and it makes no manifest.
Still(e) ==
    /\ files'[e] = files[e] /\ outbox'[e] = outbox[e] /\ inbox'[e] = inbox[e]
    /\ versions'[e] = versions[e] /\ cache'[e] = cache[e] /\ recovery'[e] = recovery[e]
    /\ \A u \in Ids' : u \notin Ids => manifest'[u].origin # e

\* The device takes no part in the step.
Apart(e) ==
    /\ Still(e) /\ run'[e] = run[e]
    /\ \A v \in Version : <<v, e>> \in receipts' => <<v, e>> \in receipts

\* What is kept stays kept.
LEMMA KeptGrows ==
    ASSUME TypeOK, TypeOK', HistoryInv, HistoryInv', Grows,
           NEW e \in Device, IndexOk(e), cache[e] \subseteq cache'[e], versions[e] \subseteq versions'[e],
           recovery[e] \subseteq recovery'[e]
    PROVE  /\ \A p \in Path, c \in Content : Kept(e, p, c) => Kept(e, p, c)'
           /\ \A v \in Ids : HasContent(e, v) => HasContent(e, v)'
BY GrowFacts DEF IndexOk, Kept, HasContent

LEMMA HandledGrows ==
    ASSUME TypeOK, TypeOK', HistoryInv, HistoryInv', Grows, NEW e \in Device,
           \A v \in Ids : Handled(e, v) => Handled(e, v)'
    PROVE  \A v \in Ids \union {0} : HandledTo(e, v) => HandledTo(e, v)'
<1>1. LineageInv
  BY Lineages
<1>2. \A v \in Ids \union {0} : v \in Base
  BY Numbers
<1>3. \A v \in Ids \union {0} : \A w \in Lineage(v) : w \in Ids
  <2>1. ASSUME NEW v \in Ids, NEW w \in Lineage(v) PROVE w \in Ids
    BY <1>1, Numbers DEF LineageInv, Ids
  <2>2. QED BY <1>1, <2>1 DEF LineageInv
<1>4. QED BY <1>2, <1>3, GrowFacts DEF HandledTo

LEMMA StillKeeps ==
    ASSUME TypeOK, TypeOK', HistoryInv, HistoryInv', Grows,
           NEW e \in Device, Still(e), IndexOk(e), BaseOk(e)
    PROVE  IndexOk(e)' /\ BaseOk(e)'
<1>1. /\ Ids \subseteq Ids' /\ Ids \subseteq Version /\ published \subseteq published'
      /\ published \subseteq Ids /\ receipts \subseteq receipts' /\ 0 \notin Ids /\ Ids \subseteq Base
      /\ \A v \in Ids : /\ manifest'[v] = manifest[v] /\ PathOf(v)' = PathOf(v)
                        /\ Lineage(v)' = Lineage(v)
      /\ 0 \in Base /\ Lineage(0)' = Lineage(0)
  BY GrowFacts, Numbers DEF Grows
<1>2. /\ \A p \in Path, c \in Content : Kept(e, p, c) => Kept(e, p, c)'
      /\ \A v \in Ids : HasContent(e, v) => HasContent(e, v)'
  BY KeptGrows DEF Still
<1>3. \A v \in Ids : Handled(e, v) => Handled(e, v)'
  BY <1>1 DEF Handled, Still
<1>4. \A v \in Ids \union {0} : HandledTo(e, v) => HandledTo(e, v)'
  BY <1>3, HandledGrows
<1>5. IndexOk(e)'
  <2>1. outbox'[e] \subseteq Ids' /\ versions'[e] \subseteq Ids'
    BY <1>1 DEF IndexOk, Still
  <2>2. \A v \in outbox'[e] : manifest'[v].origin = e
    BY <1>1 DEF IndexOk, Still
  <2>3. \A v \in outbox'[e] \union versions'[e] : HasContent(e, v)'
    BY <1>2 DEF IndexOk, Still
  <2>4. \A p \in Path : files'[e][p] # 0 =>
          /\ files'[e][p] \in published' \intersect versions'[e]
          /\ PathOf(files[e][p])' = p
    BY <1>1 DEF IndexOk, Still, PathOf
  <2>5. \A v \in Version : inbox'[e][v] # "none" => v \in published'
    BY <1>1 DEF IndexOk, Still
  <2>6. \A v \in Version : inbox'[e][v] = "APPLIED" => v \in versions'[e]
    BY <1>1 DEF IndexOk, Still
  <2>7. QED BY <2>1, <2>2, <2>3, <2>4, <2>5, <2>6 DEF IndexOk
<1>6. BaseOk(e)'
  <2>1. ASSUME NEW p \in Path, NEW f \in Base, files'[e][p] = f PROVE HandledTo(e, f)'
    <3>1. files[e][p] = f /\ f \in Ids \union {0}
      BY <1>1, <2>1 DEF IndexOk, Still
    <3>2. QED BY <3>1, <1>4 DEF BaseOk
  <2>2. ASSUME NEW u \in Ids', NEW f \in Base, manifest'[u].origin = e, manifest'[u].parent = f
        PROVE  HandledTo(e, f)'
    <3>1. u \in Ids /\ manifest'[u] = manifest[u]
      BY <1>1, <2>2 DEF Still
    <3>2. f \in Ids \union {0}
      BY <1>1, <2>2, <3>1, ManifestFacts DEF HistoryInv, ParentOk
    <3>3. QED BY <2>2, <3>1, <3>2, <1>4 DEF BaseOk
  <2>3. QED BY <2>1, <2>2 DEF BaseOk
<1>7. QED BY <1>5, <1>6

LEMMA ApartKeeps ==
    ASSUME TypeOK, TypeOK', HistoryInv, HistoryInv', Grows,
           NEW e \in Device, Apart(e), IndexOk(e), BaseOk(e), RunOk(e)
    PROVE  IndexOk(e)' /\ BaseOk(e)' /\ RunOk(e)'
<1>1. /\ Ids \subseteq Ids' /\ Ids \subseteq Version /\ published \subseteq published'
      /\ published \subseteq Ids /\ receipts \subseteq receipts' /\ 0 \notin Ids /\ Ids \subseteq Base
      /\ \A v \in Ids : /\ manifest'[v] = manifest[v] /\ PathOf(v)' = PathOf(v)
                        /\ Lineage(v)' = Lineage(v)
      /\ 0 \in Base /\ Lineage(0)' = Lineage(0)
  BY GrowFacts, Numbers DEF Grows
<1>2. /\ \A p \in Path, c \in Content : Kept(e, p, c) => Kept(e, p, c)'
      /\ \A v \in Ids : HasContent(e, v) => HasContent(e, v)'
  BY KeptGrows DEF Apart, Still
<1>3. \A v \in Ids : Handled(e, v) => Handled(e, v)'
  BY <1>1 DEF Handled, Apart, Still
<1>4. \A v \in Ids \union {0} : HandledTo(e, v) => HandledTo(e, v)'
  BY <1>3, HandledGrows
<1>5. IndexOk(e)' /\ BaseOk(e)'
  BY StillKeeps DEF Apart
<1>7. PhaseOk(e)'
  BY DEF RunOk, PhaseOk, Apart, Still
<1>8. TodoOk(e)'
  BY <1>1 DEF RunOk, TodoOk, Apart, Still
<1>9. CurOk(e)'
  <2>1. ASSUME NEW v \in Ids', run'[e].cur = v, run'[e].step # "next" PROVE v \in Ids
    BY <2>1 DEF RunOk, CurOk, Apart, Still
  <2>2. QED BY <1>1, <1>2, <2>1 DEF RunOk, CurOk, Apart, Still, Publishing, Receiving, Closing
<1>10. ResolveOk(e)'
  BY <1>1, <1>2, RunFacts DEF RunOk, ResolveOk, TodoOk, Apart, Still, ResolvePhase, ReceivePhase, RowsOfPath, PathOf, IndexOk
<1>11. ReplaceOk(e)'
  <2>1. ASSUME NEW v \in Ids', run'[e].cur = v, run'[e].step # "next" PROVE v \in Ids
    BY <2>1 DEF RunOk, CurOk, Apart, Still
  <2>2. QED BY <1>1, <1>2, <2>1 DEF RunOk, ReplaceOk, Apart, Still
<1>12. MoveOk(e)'
  <2> DEFINE r == run[e]
  <2>1. ASSUME NEW v \in Ids', run'[e].cur = v, run'[e].step # "next"
        PROVE v \in Ids /\ BaseOf(e, v)' = BaseOf(e, v) /\ manifest'[v] = manifest[v]
    BY <2>1, <1>1 DEF RunOk, CurOk, Apart, Still, BaseOf
  <2>2. ASSUME NEW h \in Ids', run'[e].remote = h, r.phase \in ResolvePhase
        PROVE  /\ h \in Ids /\ PathOf(h)' = PathOf(h) /\ Lineage(h)' = Lineage(h)
               /\ \A w \in Lineage(h) : w \in Ids
    <3>1. h \in published
      BY <2>2, <1>1 DEF RunOk, ResolveOk, Apart, Still
    <3>2. QED BY <3>1, <1>1, LineagePublished
  <2>3. \A v \in Ids' : run'[e].cur = v =>
          /\ run'[e].step \in Publishing /\ run'[e].phase \in {"scan", "deletions"} =>
                manifest'[v].parent = BaseOf(e, v)'
          /\ run'[e].step \in Receiving /\ run'[e].phase \in {"inbox", "pending"} =>
                manifest'[v].parent = BaseOf(e, v)'
    BY <2>1 DEF RunOk, MoveOk, Apart, Still, Publishing, Receiving
  <2>4. ASSUME NEW h \in Ids', NEW f \in Base, r.phase \in {"ask", "lineage", "choice"},
               r.remote = h, files'[e][PathOf(h)'] = f
        PROVE  f \in Lineage(h)' \union {0}
    BY <2>2, <2>4 DEF RunOk, MoveOk, Apart, Still, ResolvePhase
  <2>5. ASSUME NEW h \in Ids', r.phase = "lineage", r.remote = h
        PROVE  /\ r.todo \subseteq Lineage(h)'
               /\ \A w \in Lineage(h)' : Handled(e, w)' \/ w \in r.todo
               /\ \A w \in r.todo : <<w, e>> \in receipts' => r.step = "forget" /\ r.cur = w
    BY <2>2, <2>5, <1>1, <1>3, RunFacts DEF RunOk, MoveOk, Apart, Still, ResolvePhase
  <2>6. ASSUME NEW h \in Ids', r.phase = "choice", r.remote = h PROVE HandledTo(e, h)'
    BY <2>2, <2>6, <1>4 DEF RunOk, MoveOk, Apart, Still, ResolvePhase
  <2>7. QED BY <2>3, <2>4, <2>5, <2>6 DEF MoveOk, Apart, Still
<1>13. QED BY <1>5, <1>7, <1>8, <1>9, <1>10, <1>11, <1>12 DEF RunOk

\* A step of one device keeps the invariant of the others.
LEMMA StepKeeps ==
    ASSUME ClientInv, NEW d \in Device, TypeOK', HistoryInv', Grows,
           \A e \in Device \ {d} : Apart(e),
           IndexOk(d)', BaseOk(d)', RunOk(d)', PublicationRemembered', ReceiptMeansApplied'
    PROVE  ClientInv'
<1>1. ASSUME NEW e \in Device PROVE IndexOk(e)' /\ BaseOk(e)' /\ RunOk(e)'
  <2>1. CASE e = d
    BY <2>1
  <2>2. CASE e # d
    BY <2>2, ApartKeeps DEF ClientInv
  <2>3. QED BY <2>1, <2>2
<1>2. QED BY <1>1 DEF ClientInv

-----------------------------------------------------------------------------
(* How a run moves. *)

Phase == {"idle", "outbox", "inbox", "pending", "ask", "lineage", "choice", "drop", "scan",
          "deletions"}
Step == {"next", "prepare", "commit", "record", "fetch", "apply", "replace", "recycle",
         "settle", "ack", "forget"}

\* Only the run of the device moves.
Turned(d) == run' \in [Device -> Run] /\ \A e \in Device \ {d} : run'[e] = run[e]

\* The fields of a run that a resolution fixes.
SameAim(d) ==
    /\ run'[d].mode = run[d].mode /\ run'[d].phase = run[d].phase
    /\ run'[d].remote = run[d].remote /\ run'[d].accepted = run[d].accepted
SameItem(d) == run'[d].actual = run[d].actual /\ run'[d].already = run[d].already

LEMMA TurnedTo ==
    ASSUME TypeOK, NEW d \in Device, NEW r \in Run, run' = [run EXCEPT ![d] = r]
    PROVE  Turned(d) /\ run'[d] = r
BY DEF TypeOK, Turned

LEMMA GotoRun ==
    ASSUME TypeOK, NEW d \in Device, NEW s \in Step, Goto(d, s)
    PROVE  /\ Turned(d) /\ SameAim(d) /\ SameItem(d) /\ run'[d].step = s
           /\ run'[d].todo = run[d].todo /\ run'[d].paths = run[d].paths /\ run'[d].cur = run[d].cur
<1> DEFINE r == [run[d] EXCEPT !.step = s]
<1>1. run[d] \in Run /\ run' = [run EXCEPT ![d] = r]
  BY RunFacts DEF Goto
<1>2. r \in Run
  BY <1>1 DEF Run, Step
<1>3. Turned(d) /\ run'[d] = r
  <2> HIDE DEF r
  <2>1. QED BY <1>1, <1>2, TurnedTo
<1>4. QED BY <1>1, <1>3 DEF SameAim, SameItem, Run

LEMMA TakeRun ==
    ASSUME TypeOK, NEW d \in Device, NEW s \in Step, NEW v \in Base,
           run' = [run EXCEPT ![d].step = s, ![d].cur = v]
    PROVE  /\ Turned(d) /\ SameAim(d) /\ SameItem(d) /\ run'[d].step = s
           /\ run'[d].todo = run[d].todo /\ run'[d].paths = run[d].paths /\ run'[d].cur = v
<1> DEFINE r == [run[d] EXCEPT !.step = s, !.cur = v]
<1>1. run[d] \in Run /\ run' = [run EXCEPT ![d] = r]
  BY RunFacts
<1>2. r \in Run
  BY <1>1 DEF Run, Step
<1>3. Turned(d) /\ run'[d] = r
  <2> HIDE DEF r
  <2>1. QED BY <1>1, <1>2, TurnedTo
<1>4. QED BY <1>1, <1>3 DEF SameAim, SameItem, Run

LEMMA ContinueRun ==
    ASSUME TypeOK, NEW d \in Device, Continue(d)
    PROVE  /\ Turned(d) /\ SameAim(d) /\ SameItem(d) /\ run'[d].step = "next"
           /\ run'[d].todo = run[d].todo \ {run[d].cur} /\ run'[d].paths = run[d].paths
           /\ run'[d].cur = 0
<1> DEFINE r == [run[d] EXCEPT !.step = "next", !.cur = 0, !.todo = @ \ {run[d].cur}]
<1>1. run[d] \in Run /\ run' = [run EXCEPT ![d] = r] /\ 0 \in Base
  BY RunFacts, Numbers DEF Continue
<1>2. /\ r \in Run /\ r.step = "next" /\ r.todo = run[d].todo \ {run[d].cur} /\ r.cur = 0
      /\ r.paths = run[d].paths /\ r.mode = run[d].mode /\ r.phase = run[d].phase
      /\ r.remote = run[d].remote /\ r.accepted = run[d].accepted
      /\ r.actual = run[d].actual /\ r.already = run[d].already
  BY <1>1 DEF Run
<1> HIDE DEF r
<1>3. QED BY <1>1, <1>2, TurnedTo DEF SameAim, SameItem

LEMMA EnterRun ==
    ASSUME TypeOK, NEW d \in Device, NEW ph \in Phase, NEW V \in SUBSET Version,
           NEW P \in SUBSET Path, Enter(d, ph, V, P)
    PROVE  /\ Turned(d) /\ SameItem(d)
           /\ run'[d].mode = run[d].mode /\ run'[d].phase = ph
           /\ run'[d].remote = run[d].remote /\ run'[d].accepted = run[d].accepted
           /\ run'[d].step = run[d].step /\ run'[d].cur = run[d].cur
           /\ run'[d].todo = V /\ run'[d].paths = P
<1> DEFINE r == [run[d] EXCEPT !.phase = ph, !.todo = V, !.paths = P]
<1>1. run[d] \in Run /\ run' = [run EXCEPT ![d] = r]
  BY RunFacts DEF Enter
<1>2. /\ r \in Run /\ r.step = run[d].step /\ r.todo = V /\ r.cur = run[d].cur
      /\ r.paths = P /\ r.mode = run[d].mode /\ r.phase = ph
      /\ r.remote = run[d].remote /\ r.accepted = run[d].accepted
      /\ r.actual = run[d].actual /\ r.already = run[d].already
  BY <1>1 DEF Run, Phase
<1> HIDE DEF r
<1>3. QED BY <1>1, <1>2, TurnedTo DEF SameItem

LEMMA EndRun ==
    ASSUME TypeOK, NEW d \in Device, NEW how, End(d, how)
    PROVE  Turned(d) /\ run'[d].phase = "idle" /\ run'[d].step = "next"
<1> DEFINE s == [Idle EXCEPT !.mode = run[d].mode, !.remote = run[d].remote]
           r == IF verdict[d] = "running" THEN s ELSE Idle
<1>1. /\ run' = [run EXCEPT ![d] = r] /\ 0 \in Base /\ NoFile \in Local
      /\ run[d].mode \in Mode \union {"none"} /\ run[d].remote \in Base
  BY RunFacts, Numbers DEF End, Local
<1>2. Idle \in Run /\ Idle.phase = "idle" /\ Idle.step = "next"
  BY <1>1 DEF Run, Idle
<1>3. s \in Run /\ s.phase = "idle" /\ s.step = "next"
  BY <1>1 DEF Run, Idle
<1>4. r \in Run /\ r.phase = "idle" /\ r.step = "next"
  BY <1>2, <1>3
<1> HIDE DEF r
<1>5. QED BY <1>1, <1>4, TurnedTo

LEMMA EndTypes ==
    ASSUME TypeOK, NEW d \in Device, NEW how \in {"none", "done", "refused", "conflict"},
           verdict' = [verdict EXCEPT ![d] = IF @ = "running" THEN how ELSE "none"]
    PROVE  verdict' \in [Device -> {"none", "running", "done", "refused", "conflict"}]
BY DEF TypeOK

-----------------------------------------------------------------------------
(* Steps that only move the run. *)

\* No manifest, no row, no receipt and no copy comes or goes.
Calm == UNCHANGED <<manifest, published, receipts, indexVars, cache, recovery>>
Quiet == Calm /\ UNCHANGED <<staged, heads>>

LEMMA CalmFacts ==
    ASSUME Calm
    PROVE  /\ Ids' = Ids
           /\ \A v \in Base : /\ PathOf(v)' = PathOf(v) /\ ContentOf(v)' = ContentOf(v)
                              /\ Lineage(v)' = Lineage(v)
           /\ \A d \in Device : \A v \in Base :
                 /\ BaseOf(d, v)' = BaseOf(d, v) /\ HasContent(d, v)' = HasContent(d, v)
                 /\ Handled(d, v)' = Handled(d, v) /\ HandledTo(d, v)' = HandledTo(d, v)
           /\ \A d \in Device, p \in Path, c \in Content : Kept(d, p, c)' = Kept(d, p, c)
BY DEF Calm, indexVars, Ids, PathOf, ContentOf, Lineage, BaseOf, HasContent, Handled, HandledTo, Kept

LEMMA QuietType ==
    ASSUME TypeOK, Quiet, run' \in [Device -> Run], work' \in [Device -> [Path -> Local]],
           recycled' \in [Device -> SUBSET (Path \X Content)],
           edits' \in 0 .. MaxEdits, faults' \in 0 .. MaxFaults,
           verdict' \in [Device -> {"none", "running", "done", "refused", "conflict"}]
    PROVE  TypeOK'
BY DEF TypeOK, Quiet, Calm, indexVars, Ids

LEMMA QuietKeeps ==
    ASSUME ClientInv, NEW d \in Device, TypeOK', Quiet, Turned(d), RunOk(d)'
    PROVE  ClientInv'
<1> USE DEF Quiet, Calm, indexVars
<1>1. Grows
  BY Numbers DEF ClientInv, Grows
<1>2. \A e \in Device \ {d} : Apart(e)
  BY DEF Apart, Still, Turned, Ids
<1>3. /\ Ids' = Ids
      /\ \A v \in Ids : PathOf(v)' = PathOf(v)
      /\ \A v \in Base : Lineage(v)' = Lineage(v)
  BY DEF Ids, PathOf, Lineage
<1>4. HistoryInv'
  BY <1>3 DEF ClientInv, HistoryInv, ParentOk, PathOf
<1>5. PublicationRemembered' /\ ReceiptMeansApplied'
  BY DEF ClientInv, PublicationRemembered, ReceiptMeansApplied, ContentOf
<1>6. IndexOk(d)' /\ BaseOk(d)'
  <2>1. IndexOk(d) /\ BaseOk(d)
    BY DEF ClientInv
  <2>2. QED BY <1>3, <2>1 DEF IndexOk, BaseOk, HasContent, ContentOf, PathOf, HandledTo, Handled
<1>7. QED BY <1>1, <1>2, <1>4, <1>5, <1>6, StepKeeps

\* A run that is over.
LEMMA RestingRun ==
    ASSUME NEW d \in Device, run'[d].phase = "idle", run'[d].step = "next"
    PROVE  RunOk(d)'
BY DEF RunOk, PhaseOk, TodoOk, CurOk, ResolveOk, ReplaceOk, MoveOk, Publishing, Receiving,
       Closing, ReceivePhase, ResolvePhase

LEMMA EndKeeps ==
    ASSUME ClientInv, NEW d \in Device, NEW how \in {"none", "done", "refused", "conflict"},
           End(d, how), Quiet, UNCHANGED <<work, recycled, edits>>, faults' \in 0 .. MaxFaults
    PROVE  ClientInv'
<1>1. TypeOK /\ Turned(d) /\ RunOk(d)'
  BY EndRun, RestingRun DEF ClientInv
<1>2. verdict' \in [Device -> {"none", "running", "done", "refused", "conflict"}]
  BY <1>1, EndTypes DEF End
<1>3. TypeOK'
  BY <1>1, <1>2, QuietType DEF TypeOK, Turned
<1>4. QED BY <1>1, <1>3, QuietKeeps

LEMMA StopKeeps == ASSUME ClientInv, NEW d \in Device, Stop(d) PROVE ClientInv'
<1>1. TypeOK /\ End(d, "none") /\ Quiet /\ UNCHANGED <<work, recycled, edits>>
  BY DEF ClientInv, Stop, Quiet, Calm, serverVars, indexVars, folderVars
<1>2. faults' \in 0 .. MaxFaults
  BY <1>1, ClientAssumption DEF Stop, TypeOK
<1>3. QED BY <1>1, <1>2, EndKeeps

LEMMA FailKeeps ==
    ASSUME ClientInv, NEW d \in Device, NEW how \in {"none", "refused", "conflict"}, Fail(d, how)
    PROVE  ClientInv'
<1>1. TypeOK /\ End(d, how) /\ Quiet /\ UNCHANGED <<work, recycled, edits>> /\ faults' = faults
  BY DEF ClientInv, Fail, Quiet, Calm, serverVars, indexVars, folderVars, bounds
<1>2. QED BY <1>1, EndKeeps DEF TypeOK

\* A run that goes on with the item in hand.
LEMMA GotoKeeps ==
    ASSUME ClientInv, NEW d \in Device, NEW s \in Step, Goto(d, s), Calm,
           \/ run[d].step = "prepare" /\ s = "commit"
           \/ run[d].step = "commit" /\ s = "record" /\ run[d].cur \in published
           \/ run[d].step = "apply" /\ s = "replace"
           \/ run[d].step \in {"replace", "recycle"} /\ s = "settle"
    PROVE  RunOk(d)'
<1>0. TypeOK /\ RunOk(d)
  BY DEF ClientInv
<1>1. /\ SameAim(d) /\ SameItem(d) /\ run'[d].step = s
      /\ run'[d].todo = run[d].todo /\ run'[d].paths = run[d].paths /\ run'[d].cur = run[d].cur
  BY <1>0, GotoRun
<1>2. /\ Ids' = Ids
      /\ \A v \in Base : PathOf(v)' = PathOf(v) /\ Lineage(v)' = Lineage(v)
      /\ \A v \in Base : /\ BaseOf(d, v)' = BaseOf(d, v) /\ HasContent(d, v)' = HasContent(d, v)
                         /\ Handled(d, v)' = Handled(d, v) /\ HandledTo(d, v)' = HandledTo(d, v)
      /\ \A p \in Path, c \in Content : Kept(d, p, c)' = Kept(d, p, c)
  BY CalmFacts
<1>3. \A v \in Ids : v \in Base
  BY <1>0, Numbers
<1>4. PhaseOk(d)'
  BY <1>0, <1>1 DEF RunOk, PhaseOk, SameAim, Publishing, Receiving, Closing
<1>5. TodoOk(d)'
  BY <1>0, <1>1 DEF RunOk, TodoOk, SameAim, Calm, indexVars
<1>6. CurOk(d)'
  BY <1>0, <1>1, <1>2, <1>3 DEF RunOk, CurOk, Calm, indexVars, Publishing, Receiving, Closing
<1>7. ResolveOk(d)'
  BY <1>0, <1>1, <1>2 DEF RunOk, ResolveOk, SameAim, Calm, indexVars, RowsOfPath, PathOf
<1>8. ReplaceOk(d)'
  BY <1>0, <1>1, <1>2, <1>3 DEF RunOk, ReplaceOk, SameItem
<1>9. MoveOk(d)'
  <2>1. \A v \in Ids : run'[d].cur = v =>
          /\ run'[d].step \in Publishing /\ run'[d].phase \in {"scan", "deletions"} =>
                manifest'[v].parent = BaseOf(d, v)'
          /\ run'[d].step \in Receiving /\ run'[d].phase \in {"inbox", "pending"} =>
                manifest'[v].parent = BaseOf(d, v)'
    BY <1>0, <1>1, <1>2, <1>3 DEF RunOk, MoveOk, SameAim, Calm, Publishing, Receiving
  <2>2. ASSUME NEW h \in Ids, NEW f \in Base, run'[d].phase \in {"ask", "lineage", "choice"},
               run'[d].remote = h, files'[d][PathOf(h)'] = f
        PROVE  f \in Lineage(h)' \union {0}
    BY <1>0, <1>1, <1>2, <1>3, <2>2 DEF RunOk, MoveOk, SameAim, Calm, indexVars
  <2>3. ASSUME NEW h \in Ids, run'[d].phase = "lineage", run'[d].remote = h
        PROVE  /\ run'[d].todo \subseteq Lineage(h)'
               /\ \A w \in Lineage(h)' : Handled(d, w)' \/ w \in run'[d].todo
               /\ \A w \in run'[d].todo : ~ (<<w, d>> \in receipts')
    <3>1. \A w \in Lineage(h) : w \in Base
      BY LineageIds DEF ClientInv
    <3>2. QED BY <1>0, <1>1, <1>2, <1>3, <2>3, <3>1 DEF RunOk, MoveOk, SameAim, Calm
  <2>4. ASSUME NEW h \in Ids, run'[d].phase = "choice", run'[d].remote = h PROVE HandledTo(d, h)'
    BY <1>0, <1>1, <1>2, <1>3, <2>4 DEF RunOk, MoveOk, SameAim
  <2>5. QED BY <1>2, <2>1, <2>2, <2>3, <2>4 DEF MoveOk
<1>10. QED BY <1>4, <1>5, <1>6, <1>7, <1>8, <1>9 DEF RunOk

\* Between two items, outside a resolution.
LEMMA PlainRun ==
    ASSUME NEW d \in Device, run'[d].step = "next", run'[d].phase \notin ResolvePhase,
           run'[d].phase = "outbox" =>
              run'[d].mode \in {"RUN", "PUSH"} /\ run'[d].todo \subseteq outbox'[d],
           run'[d].phase \in {"inbox", "pending"} =>
              run'[d].mode \in {"RUN", "PULL"} /\ run'[d].todo \subseteq published'
    PROVE  RunOk(d)'
BY DEF RunOk, PhaseOk, TodoOk, CurOk, ResolveOk, ReplaceOk, MoveOk, Publishing, Receiving,
       Closing, ReceivePhase, ResolvePhase

LEMMA RowsArePublished ==
    ASSUME TypeOK, NEW d \in Device, IndexOk(d)
    PROVE  /\ InboxRows(d) \subseteq published /\ Pending(d) \subseteq published
           /\ InboxRows(d) \in SUBSET Version /\ Pending(d) \in SUBSET Version
           /\ outbox[d] \in SUBSET Version
BY Numbers DEF IndexOk, InboxRows, Pending, TypeOK

LEMMA StartKeeps ==
    ASSUME ClientInv, NEW d \in Device, NEW m \in {"RUN", "PUSH", "PULL"}, Start(d, m)
    PROVE  ClientInv'
<1> DEFINE r == [Idle EXCEPT !.mode = m,
                              !.phase = IF m = "PULL" THEN "inbox" ELSE "outbox",
                              !.todo = IF m = "PULL" THEN InboxRows(d) ELSE outbox[d]]
<1>1. TypeOK /\ IndexOk(d) /\ Quiet /\ UNCHANGED <<work, recycled, edits, faults>>
  BY DEF ClientInv, Start, Quiet, Calm, serverVars, indexVars, folderVars, bounds
<1>2. /\ InboxRows(d) \subseteq published /\ InboxRows(d) \in SUBSET Version
      /\ outbox[d] \in SUBSET Version /\ outbox' = outbox /\ published' = published
  BY <1>1, RowsArePublished DEF Quiet, Calm, indexVars
<1>3. /\ r \in Run /\ r.step = "next" /\ r.mode = m
      /\ r.phase = IF m = "PULL" THEN "inbox" ELSE "outbox"
      /\ r.todo = IF m = "PULL" THEN InboxRows(d) ELSE outbox[d]
  <2>1. 0 \in Base /\ NoFile \in Local
    BY <1>1, Numbers DEF Local
  <2>2. QED BY <1>2, <2>1 DEF Run, Idle, Mode
<1>4. run' = [run EXCEPT ![d] = r]
  BY DEF Start
<1> HIDE DEF r
<1>5. Turned(d) /\ run'[d] = r
  BY <1>1, <1>3, <1>4, TurnedTo
<1>6. RunOk(d)'
  BY <1>2, <1>3, <1>5, PlainRun DEF ResolvePhase
<1>7. verdict' \in [Device -> {"none", "running", "done", "refused", "conflict"}]
  BY <1>1 DEF TypeOK, Start
<1>8. TypeOK'
  BY <1>1, <1>5, <1>7, QuietType DEF TypeOK, Turned
<1>9. QED BY <1>1, <1>5, <1>6, <1>8, QuietKeeps

\* The next phase of an ordinary run, or of the publication of a kept file.
LEMMA EnterKeeps ==
    ASSUME ClientInv, NEW d \in Device, NEW ph \in Phase \ ResolvePhase, NEW V \in SUBSET Version,
           NEW P \in SUBSET Path, Enter(d, ph, V, P), Quiet, run[d].step = "next",
           UNCHANGED <<work, recycled, edits, faults, verdict>>,
           ph = "outbox" => run[d].mode \in {"RUN", "PUSH"} /\ V \subseteq outbox[d],
           ph \in {"inbox", "pending"} => run[d].mode \in {"RUN", "PULL"} /\ V \subseteq published
    PROVE  ClientInv'
<1>1. TypeOK
  BY DEF ClientInv
<1>2. /\ Turned(d) /\ run'[d].phase = ph /\ run'[d].mode = run[d].mode
      /\ run'[d].todo = V /\ run'[d].step = "next"
  BY <1>1, EnterRun
<1>3. RunOk(d)'
  BY <1>2, PlainRun DEF Quiet, Calm, indexVars
<1>4. TypeOK'
  BY <1>1, <1>2, QuietType DEF TypeOK, Turned
<1>5. QED BY <1>2, <1>3, <1>4, QuietKeeps

LEMMA NextPhaseKeeps == ASSUME ClientInv, NEW d \in Device, NextPhase(d) PROVE ClientInv'
<1> DEFINE ph == run[d].phase
           m == run[d].mode
<1>1. /\ TypeOK /\ IndexOk(d) /\ PhaseOk(d) /\ Quiet /\ UNCHANGED <<work, recycled, edits, faults>>
      /\ run[d].step = "next" /\ ph # "idle"
  BY DEF ClientInv, RunOk, NextPhase, Quiet, Calm, serverVars, indexVars, folderVars, bounds, At, IsIdle
<1>2. /\ InboxRows(d) \subseteq published /\ InboxRows(d) \in SUBSET Version
      /\ Pending(d) \subseteq published /\ Pending(d) \in SUBSET Version
      /\ {} \in SUBSET Version /\ {} \in SUBSET Path /\ Path \in SUBSET Path
      /\ {p \in Path : files[d][p] # 0} \in SUBSET Path
  BY <1>1, RowsArePublished
<1>3. {"inbox", "pending", "scan", "deletions"} \subseteq Phase \ ResolvePhase
  BY DEF Phase, ResolvePhase
<1>4. CASE ph = "outbox" /\ m = "RUN" /\ Enter(d, "inbox", InboxRows(d), {}) /\ UNCHANGED verdict
  BY <1>1, <1>2, <1>3, <1>4, EnterKeeps
<1>5. CASE ph = "inbox" /\ Enter(d, "pending", Pending(d), {}) /\ UNCHANGED verdict
  <2>1. m \in {"RUN", "PULL"}
    BY <1>1, <1>5 DEF PhaseOk
  <2>2. QED BY <1>1, <1>2, <1>3, <1>5, <2>1, EnterKeeps
<1>6. CASE Enter(d, "scan", {}, Path) /\ UNCHANGED verdict
  BY <1>1, <1>2, <1>3, <1>6, EnterKeeps
<1>7. CASE Enter(d, "deletions", {}, {p \in Path : files[d][p] # 0}) /\ UNCHANGED verdict
  BY <1>1, <1>2, <1>3, <1>7, EnterKeeps
<1>8. CASE End(d, "done")
  BY <1>1, <1>8, EndKeeps DEF TypeOK
<1>9. QED BY <1>4, <1>5, <1>6, <1>7, <1>8 DEF NextPhase

LEMMA EditKeeps ==
    ASSUME ClientInv, NEW d \in Device, NEW p \in Path, NEW c \in Local, Edit(d, p, c)
    PROVE  ClientInv'
<1>1. TypeOK /\ RunOk(d) /\ Quiet /\ run' = run /\ recycled' = recycled /\ faults' = faults
  BY DEF ClientInv, Edit, Quiet, Calm, serverVars, indexVars
<1>2. /\ edits' \in 0 .. MaxEdits
      /\ work' \in [Device -> [Path -> Local]]
      /\ verdict' \in [Device -> {"none", "running", "done", "refused", "conflict"}]
  BY <1>1, ClientAssumption DEF TypeOK, Edit, Disturb
<1>3. TypeOK' /\ Turned(d)
  BY <1>1, <1>2, QuietType DEF TypeOK, Turned
<1>4. RunOk(d)'
  <2>1. /\ Ids' = Ids
        /\ \A v \in Base : PathOf(v)' = PathOf(v) /\ Lineage(v)' = Lineage(v)
        /\ \A v \in Base : /\ BaseOf(d, v)' = BaseOf(d, v) /\ HasContent(d, v)' = HasContent(d, v)
                           /\ Handled(d, v)' = Handled(d, v) /\ HandledTo(d, v)' = HandledTo(d, v)
        /\ \A q \in Path, x \in Content : Kept(d, q, x)' = Kept(d, q, x)
    BY <1>1, CalmFacts DEF Quiet
  <2>2. \A v \in Ids : v \in Base /\ \A w \in Lineage(v) : w \in Base
    BY <1>1, Numbers, LineageIds DEF ClientInv
  <2>3. PhaseOk(d)' /\ TodoOk(d)'
    BY <1>1 DEF RunOk, PhaseOk, TodoOk, Quiet, Calm, indexVars
  <2>4. CurOk(d)'
    BY <1>1, <2>1, <2>2 DEF RunOk, CurOk, Quiet, Calm, indexVars
  <2>5. ResolveOk(d)'
    BY <1>1, <2>1, <2>2 DEF RunOk, ResolveOk, Quiet, Calm, indexVars, RowsOfPath, PathOf
  <2>6. ReplaceOk(d)'
    BY <1>1, <2>1, <2>2 DEF RunOk, ReplaceOk
  <2>7. MoveOk(d)'
    BY <1>1, <2>1, <2>2 DEF RunOk, MoveOk, Quiet, Calm, indexVars
  <2>8. QED BY <2>3, <2>4, <2>5, <2>6, <2>7 DEF RunOk
<1>5. QED BY <1>1, <1>3, <1>4, QuietKeeps

-----------------------------------------------------------------------------
(* Publishing. *)

LEMMA OldestFacts ==
    ASSUME NEW T, T \subseteq Version, T # {}
    PROVE  Oldest(T) \in T /\ \A x \in T : Oldest(T) <= x
<1>1. T \subseteq Nat
  BY DEF Version
<1>2. \E x \in T : \A y \in T : x <= y
  BY <1>1, LeastNat
<1>3. QED BY <1>2 DEF Oldest

LEMMA SkipKeeps ==
    ASSUME ClientInv, NEW d \in Device, NEW p \in Path, Skip(d, p), run[d].step = "next",
           run[d].phase \in {"scan", "deletions"}
    PROVE  ClientInv'
<1> DEFINE r == [run[d] EXCEPT !.paths = @ \ {p}]
<1>1. /\ TypeOK /\ Quiet /\ UNCHANGED <<work, recycled, edits, faults, verdict>>
      /\ run[d] \in Run /\ run' = [run EXCEPT ![d] = r]
  BY RunFacts DEF ClientInv, Skip, Quiet, Calm, serverVars, indexVars, folderVars, bounds
<1>2. r \in Run /\ r.step = "next" /\ r.phase = run[d].phase
  BY <1>1 DEF Run
<1> HIDE DEF r
<1>3. Turned(d) /\ run'[d] = r
  BY <1>1, <1>2, TurnedTo
<1>4. RunOk(d)'
  BY <1>2, <1>3, PlainRun DEF ResolvePhase
<1>5. TypeOK'
  BY <1>1, <1>3, QuietType DEF TypeOK, Turned
<1>6. QED BY <1>1, <1>3, <1>4, <1>5, QuietKeeps

\* Outside a resolution, with an own version in hand.
LEMMA PublishRun ==
    ASSUME NEW d \in Device, run'[d].phase \in {"outbox", "scan", "deletions"},
           run'[d].step \in Publishing, run'[d].cur \in Ids', run'[d].cur \in outbox'[d],
           run'[d].phase = "outbox" =>
              run'[d].mode \in {"RUN", "PUSH"} /\ run'[d].todo \subseteq outbox'[d],
           run'[d].phase # "outbox" =>
              \A v \in Ids' : run'[d].cur = v => manifest'[v].parent = BaseOf(d, v)',
           run'[d].step = "record" => run'[d].cur \in published'
    PROVE  RunOk(d)'
<1> USE DEF Publishing, Receiving, Closing, ReceivePhase, ResolvePhase
<1>1. PhaseOk(d)' /\ TodoOk(d)' /\ ResolveOk(d)' /\ ReplaceOk(d)'
  BY DEF PhaseOk, TodoOk, ResolveOk, ReplaceOk
<1>2. CurOk(d)'
  BY DEF CurOk
<1>3. MoveOk(d)'
  BY DEF MoveOk
<1>4. QED BY <1>1, <1>2, <1>3 DEF RunOk

LEMMA RepublishKeeps == ASSUME ClientInv, NEW d \in Device, Republish(d) PROVE ClientInv'
<1>1. /\ TypeOK /\ Quiet /\ UNCHANGED <<work, recycled, edits, faults, verdict>>
      /\ IndexOk(d) /\ TodoOk(d) /\ PhaseOk(d) /\ run[d].phase = "outbox"
      /\ outbox' = outbox /\ run[d].todo # {}
  BY DEF ClientInv, RunOk, Republish, Quiet, Calm, serverVars, indexVars, folderVars, bounds
<1>2. PICK v : v = Oldest(run[d].todo)
  OBVIOUS
<1>3. v \in run[d].todo /\ v \in outbox[d] /\ v \in Ids /\ v \in Base
  BY <1>1, <1>2, OldestFacts, RunFacts, Numbers DEF TodoOk, IndexOk
<1>4. run' = [run EXCEPT ![d].step = "prepare", ![d].cur = v]
  BY <1>2 DEF Republish
<1>5. /\ Turned(d) /\ SameAim(d) /\ run'[d].step = "prepare" /\ run'[d].todo = run[d].todo
      /\ run'[d].cur = v
  BY <1>1, <1>3, <1>4, TakeRun DEF Step
<1>6. Ids' = Ids
  BY <1>1, CalmFacts DEF Quiet
<1>7. RunOk(d)'
  BY <1>1, <1>3, <1>5, <1>6, PublishRun DEF SameAim, TodoOk, PhaseOk, Publishing
<1>8. TypeOK'
  BY <1>1, <1>5, QuietType DEF TypeOK, Turned
<1>9. QED BY <1>1, <1>5, <1>7, <1>8, QuietKeeps

\* The version being published.
LEMMA PublishFacts ==
    ASSUME ClientInv, NEW d \in Device, run[d].step \in Publishing
    PROVE  /\ run[d].cur \in Ids /\ run[d].cur \in Base /\ run[d].cur \in Version
           /\ run[d].cur \in outbox[d] /\ manifest[run[d].cur].origin = d
           /\ HasContent(d, run[d].cur) /\ PathOf(run[d].cur) \in Path
           /\ run[d].phase \in {"outbox", "scan", "deletions"}
           /\ run[d].step = "record" => run[d].cur \in published
           /\ run[d].phase = "outbox" => run[d].mode \in {"RUN", "PUSH"} /\ run[d].todo \subseteq outbox[d]
           /\ run[d].phase # "outbox" => manifest[run[d].cur].parent = BaseOf(d, run[d].cur)
<1>1. TypeOK /\ IndexOk(d) /\ PhaseOk(d) /\ CurOk(d) /\ TodoOk(d) /\ MoveOk(d)
  BY DEF ClientInv, RunOk
<1>2. run[d].cur \in Ids /\ run[d].cur \in outbox[d]
  BY <1>1 DEF CurOk, Publishing
<1>3. run[d].phase \in {"outbox", "scan", "deletions"}
  BY <1>1 DEF PhaseOk
<1>4. /\ run[d].step = "record" => run[d].cur \in published
      /\ run[d].phase # "outbox" => manifest[run[d].cur].parent = BaseOf(d, run[d].cur)
  BY <1>1, <1>2, <1>3 DEF CurOk, MoveOk
<1>5. run[d].phase = "outbox" => run[d].mode \in {"RUN", "PUSH"} /\ run[d].todo \subseteq outbox[d]
  BY <1>1 DEF PhaseOk, TodoOk
<1>6. manifest[run[d].cur].origin = d /\ HasContent(d, run[d].cur)
  BY <1>1, <1>2 DEF IndexOk
<1>7. PathOf(run[d].cur) \in Path /\ run[d].cur \in Base /\ run[d].cur \in Version
  BY <1>1, <1>2, ManifestFacts, Numbers
<1>8. QED
  BY <1>2, <1>3, <1>4, <1>5, <1>6, <1>7

LEMMA PrepareKeeps == ASSUME ClientInv, NEW d \in Device, Prepare(d) PROVE ClientInv'
<1>1. CASE Fail(d, "refused")
  BY <1>1, FailKeeps
<1>2. CASE ~Fail(d, "refused")
  <2> DEFINE v == run[d].cur
  <2>1. /\ TypeOK /\ Calm /\ heads' = heads /\ Goto(d, "commit") /\ run[d].step = "prepare"
        /\ staged \subseteq staged' /\ staged' \subseteq staged \union {v}
        /\ UNCHANGED <<work, recycled, edits, faults, verdict>>
    BY <1>2 DEF ClientInv, Prepare, Calm, At, indexVars, folderVars, bounds
  <2>2. v \in Ids /\ v \in outbox[d] /\ manifest[v].origin = d
    BY <2>1, PublishFacts DEF Publishing
  <2>3. Turned(d) /\ RunOk(d)'
    BY <2>1, GotoRun, GotoKeeps DEF Step
  <2>4. TypeOK'
    BY <2>1, <2>2, <2>3 DEF TypeOK, Turned, Calm, indexVars, Ids
  <2>5. Grows
    BY <2>1, Numbers DEF Calm, Grows
  <2>6. \A e \in Device \ {d} : Apart(e)
    BY <2>1, <2>3 DEF Calm, indexVars, Apart, Still, Turned, Ids
  <2>7. HistoryInv'
    <3>1. Ids' = Ids /\ \A u \in Base : PathOf(u)' = PathOf(u) /\ Lineage(u)' = Lineage(u)
      BY <2>1, CalmFacts
    <3>2. QED BY <2>1, <3>1, Numbers DEF ClientInv, HistoryInv, ParentOk, PathOf, Calm
  <2>8. IndexOk(d)' /\ BaseOk(d)'
    <3>1. Still(d)
      BY <2>1 DEF Still, Calm, indexVars, Ids
    <3>2. QED BY <2>1, <2>4, <2>5, <2>7, <3>1, StillKeeps DEF ClientInv
  <2>9. PublicationRemembered' /\ ReceiptMeansApplied'
    BY <2>1, <2>2 DEF ClientInv, PublicationRemembered, ReceiptMeansApplied, ContentOf, Calm, indexVars
  <2>10. QED BY <2>3, <2>4, <2>5, <2>6, <2>7, <2>8, <2>9, StepKeeps
<1>3. QED BY <1>1, <1>2

LEMMA CommitKeeps == ASSUME ClientInv, NEW d \in Device, Commit(d) PROVE ClientInv'
<1> DEFINE v == run[d].cur
<1>0. /\ TypeOK /\ HistoryInv /\ IndexOk(d) /\ BaseOk(d) /\ RunOk(d) /\ run[d].step = "commit"
      /\ PublicationRemembered /\ ReceiptMeansApplied
  BY DEF ClientInv, Commit, At
<1>1. /\ v \in Ids /\ v \in Base /\ v \in Version /\ v \in outbox[d] /\ manifest[v].origin = d
      /\ HasContent(d, v) /\ PathOf(v) \in Path /\ run[d].phase \in {"outbox", "scan", "deletions"}
      /\ run[d].phase = "outbox" => run[d].mode \in {"RUN", "PUSH"} /\ run[d].todo \subseteq outbox[d]
      /\ run[d].phase # "outbox" => manifest[v].parent = BaseOf(d, v)
  BY <1>0, PublishFacts DEF Publishing
<1>2. CASE Fail(d, "refused")
  BY <1>2, FailKeeps
<1>3. CASE /\ v \in published /\ Goto(d, "record")
           /\ UNCHANGED <<manifest, serverVars, folderVars, indexVars, cache, bounds, verdict>>
  <2>1. Quiet /\ UNCHANGED <<work, recycled, edits, faults, verdict>>
    BY <1>3 DEF Quiet, Calm, serverVars, folderVars, indexVars, bounds
  <2>2. Turned(d) /\ RunOk(d)'
    BY <1>0, <1>3, <2>1, GotoRun, GotoKeeps DEF Step, Quiet
  <2>3. TypeOK'
    BY <1>0, <2>1, <2>2, QuietType DEF TypeOK, Turned
  <2>4. QED BY <2>1, <2>2, <2>3, QuietKeeps
<1>4. CASE /\ ParentIsHead(v)
           /\ staged' = staged \ {v}
           /\ published' = published \union {v}
           /\ heads' = [heads EXCEPT ![PathOf(v)] = v]
           /\ receipts' = receipts \union {<<v, d>>}
           /\ Goto(d, "record")
           /\ Disturb(Device \ {d})
           /\ UNCHANGED <<manifest, folderVars, indexVars, cache, bounds>>
  <2>1. /\ Turned(d) /\ SameAim(d) /\ run'[d].step = "record" /\ run'[d].todo = run[d].todo
        /\ run'[d].cur = v
    BY <1>0, <1>4, GotoRun DEF Step
  <2>2. UNCHANGED <<manifest, files, outbox, inbox, versions, cache, recovery, work, recycled, edits, faults>>
    BY <1>4 DEF folderVars, indexVars, bounds
  <2>3. TypeOK'
    <3>1. verdict' \in [Device -> {"none", "running", "done", "refused", "conflict"}]
      BY <1>0, <1>4 DEF TypeOK, Disturb
    <3>2. heads' \in [Path -> Base] /\ receipts' \subseteq Version \X Device
      BY <1>0, <1>1, <1>4 DEF TypeOK
    <3>3. staged' \subseteq Ids' /\ published' \subseteq Ids'
      BY <1>0, <1>1, <1>4, <2>2 DEF TypeOK, Ids
    <3>4. run' \in [Device -> Run]
      BY <2>1 DEF Turned
    <3>5. QED BY <1>0, <2>2, <3>1, <3>2, <3>3, <3>4 DEF TypeOK
  <2>4. Grows
    BY <1>0, <1>4, <2>2, Numbers DEF Grows
  <2>5. /\ Ids' = Ids
        /\ \A u \in Base : /\ PathOf(u)' = PathOf(u) /\ ContentOf(u)' = ContentOf(u)
                           /\ Lineage(u)' = Lineage(u)
    BY <2>2 DEF Ids, PathOf, ContentOf, Lineage
  <2>6. PICK h \in Base : h = manifest[v].parent
    BY <1>0, <1>1, ManifestFacts
  <2>7. Lineage(v) = {v} \union Lineage(h) /\ heads[PathOf(v)] = h
    BY <1>0, <1>1, <1>4, <2>6, Lineages, Numbers DEF LineageInv, ParentIsHead
  <2>8. HistoryInv'
    <3>1. \A u \in Ids : ParentOk(u)'
      BY <1>0, <1>4, <2>2 DEF HistoryInv, ParentOk, PathOf
    <3>2. ASSUME NEW p \in Path, heads'[p] # 0
          PROVE  heads'[p] \in published' /\ PathOf(heads[p])' = p
      <4>1. CASE p = PathOf(v)
        BY <1>0, <1>4, <2>2, <4>1 DEF TypeOK, PathOf
      <4>2. CASE p # PathOf(v)
        BY <1>0, <1>4, <2>2, <3>2, <4>2 DEF TypeOK, HistoryInv, PathOf
      <4>3. QED BY <4>1, <4>2
    <3>3. ASSUME NEW u \in published', NEW g \in Base, heads'[PathOf(u)] = g
          PROVE  u \in Lineage(g)
      <4>1. u \in Ids /\ PathOf(u) \in Path
        BY <1>0, <1>1, <1>4, Numbers, ManifestFacts
      <4>2. CASE u = v
        BY <1>0, <1>1, <1>4, <2>7, <3>3, <4>2 DEF TypeOK
      <4>3. CASE u # v /\ PathOf(u) = PathOf(v)
        <5>1. g = v /\ u \in published
          BY <1>0, <1>1, <1>4, <3>3, <4>3 DEF TypeOK
        <5>2. u \in Lineage(h)
          BY <1>0, <2>7, <4>3, <5>1 DEF HistoryInv
        <5>3. QED BY <5>1, <5>2, <2>7
      <4>4. CASE u # v /\ PathOf(u) # PathOf(v)
        BY <1>0, <1>4, <3>3, <4>1, <4>4 DEF HistoryInv, TypeOK
      <4>5. QED BY <4>2, <4>3, <4>4
    <3>4. \A u \in published', g \in Base : heads'[PathOf(u)'] = g => u \in Lineage(g)'
      <4>1. \A u \in published' : u \in Base
        BY <1>0, <1>1, <1>4, Numbers
      <4>2. QED BY <2>5, <3>3, <4>1
    <3>5. \A u \in published' : <<u, manifest'[u].origin>> \in receipts'
      BY <1>0, <1>1, <1>4, <2>2 DEF HistoryInv
    <3>6. QED BY <2>5, <3>1, <3>2, <3>4, <3>5 DEF HistoryInv
  <2>9. \A e \in Device : Still(e)
    BY <2>2, <2>5 DEF Still
  <2>10. \A e \in Device \ {d} : Apart(e)
    BY <1>4, <2>1, <2>9 DEF Apart, Turned
  <2>11. IndexOk(d)' /\ BaseOk(d)'
    BY <1>0, <2>3, <2>4, <2>8, <2>9, StillKeeps
  <2>12. RunOk(d)'
    <3>1. \A u \in Ids : BaseOf(d, u)' = BaseOf(d, u)
      BY <2>2 DEF BaseOf, PathOf
    <3>2. /\ run'[d].phase \in {"outbox", "scan", "deletions"} /\ run'[d].step \in Publishing
          /\ run'[d].cur \in Ids' /\ run'[d].cur \in outbox'[d]
          /\ run'[d].phase = "outbox" =>
                run'[d].mode \in {"RUN", "PUSH"} /\ run'[d].todo \subseteq outbox'[d]
          /\ run'[d].step = "record" => run'[d].cur \in published'
      BY <1>1, <1>4, <2>1, <2>2, <2>5 DEF SameAim, Publishing
    <3>3. run'[d].phase # "outbox" =>
             \A u \in Ids' : run'[d].cur = u => manifest'[u].parent = BaseOf(d, u)'
      BY <1>1, <2>1, <2>2, <2>5, <3>1 DEF SameAim
    <3>4. QED BY <3>2, <3>3, PublishRun
  <2>13. PublicationRemembered'
    BY <1>0, <1>1, <1>4, <2>2 DEF PublicationRemembered
  <2>14. ReceiptMeansApplied'
    BY <1>0, <1>1, <1>4, <2>2 DEF ReceiptMeansApplied, HasContent, ContentOf
  <2>15. QED BY <2>1, <2>3, <2>4, <2>8, <2>10, <2>11, <2>12, <2>13, <2>14, StepKeeps
<1>5. QED BY <1>2, <1>3, <1>4 DEF Commit

LEMMA RecordKeeps == ASSUME ClientInv, NEW d \in Device, Record(d) PROVE ClientInv'
<1> DEFINE v == run[d].cur
<1>0. /\ TypeOK /\ HistoryInv /\ IndexOk(d) /\ BaseOk(d) /\ RunOk(d) /\ run[d].step = "record"
      /\ PublicationRemembered /\ ReceiptMeansApplied
  BY DEF ClientInv, Record, At
<1>1. /\ v \in Ids /\ v \in Base /\ v \in Version /\ v \in outbox[d] /\ manifest[v].origin = d
      /\ HasContent(d, v) /\ PathOf(v) \in Path /\ run[d].phase \in {"outbox", "scan", "deletions"}
      /\ v \in published
      /\ run[d].phase = "outbox" => run[d].mode \in {"RUN", "PUSH"} /\ run[d].todo \subseteq outbox[d]
  BY <1>0, PublishFacts DEF Publishing
<1>2. /\ files' = [files EXCEPT ![d][PathOf(v)] = v]
      /\ versions' = [versions EXCEPT ![d] = @ \union {v}]
      /\ outbox' = [outbox EXCEPT ![d] = @ \ {v}]
      /\ UNCHANGED <<manifest, staged, published, heads, receipts, work, recovery, recycled,
                     inbox, cache, edits, faults, verdict>>
  BY DEF Record, serverVars, folderVars, bounds
<1>3. /\ Turned(d) /\ SameAim(d) /\ run'[d].step = "next" /\ run'[d].todo = run[d].todo \ {v}
  BY <1>0, ContinueRun DEF Record
<1>4. /\ Ids' = Ids
      /\ \A u \in Base : /\ PathOf(u)' = PathOf(u) /\ ContentOf(u)' = ContentOf(u)
                         /\ Lineage(u)' = Lineage(u)
  BY <1>2 DEF Ids, PathOf, ContentOf, Lineage
<1>5. TypeOK'
  <2>1. files' \in [Device -> [Path -> Base]]
    BY <1>0, <1>1, <1>2 DEF TypeOK
  <2>2. versions' \in [Device -> SUBSET Version] /\ outbox' \in [Device -> SUBSET Version]
    BY <1>0, <1>1, <1>2 DEF TypeOK
  <2>3. run' \in [Device -> Run]
    BY <1>3 DEF Turned
  <2>4. QED BY <1>0, <1>2, <1>4, <2>1, <2>2, <2>3 DEF TypeOK
<1>6. Grows
  BY <1>0, <1>2, Numbers DEF Grows
<1>7. HistoryInv'
  BY <1>0, <1>2, <1>4, Numbers DEF HistoryInv, ParentOk, PathOf
<1>8. \A e \in Device \ {d} : Apart(e)
  BY <1>0, <1>2, <1>3, <1>4 DEF Apart, Still, Turned, TypeOK
<1>9. /\ files'[d] = [files[d] EXCEPT ![PathOf(v)] = v] /\ versions'[d] = versions[d] \union {v}
      /\ outbox'[d] = outbox[d] \ {v}
  BY <1>0, <1>2 DEF TypeOK
<1>10. IndexOk(d)'
  <2>1. outbox'[d] \subseteq Ids' /\ versions'[d] \subseteq Ids'
    BY <1>0, <1>1, <1>4, <1>9 DEF IndexOk
  <2>2. \A u \in outbox'[d] : manifest'[u].origin = d
    BY <1>0, <1>2, <1>9 DEF IndexOk
  <2>3. \A u \in outbox'[d] \union versions'[d] : HasContent(d, u)'
    BY <1>0, <1>1, <1>2, <1>9 DEF IndexOk, HasContent, ContentOf
  <2>4. ASSUME NEW p \in Path, files'[d][p] # 0
        PROVE  /\ files'[d][p] \in published' \intersect versions'[d]
               /\ PathOf(files[d][p])' = p
    <3>1. CASE p = PathOf(v)
      BY <1>0, <1>1, <1>2, <1>9, <3>1 DEF TypeOK, PathOf
    <3>2. CASE p # PathOf(v)
      BY <1>0, <1>1, <1>2, <1>9, <2>4, <3>2 DEF TypeOK, PathOf, IndexOk
    <3>3. QED BY <3>1, <3>2
  <2>5. \A u \in Version : inbox'[d][u] # "none" => u \in published'
    BY <1>0, <1>2 DEF IndexOk
  <2>6. \A u \in Version : inbox'[d][u] = "APPLIED" => u \in versions'[d]
    BY <1>0, <1>2, <1>9 DEF IndexOk
  <2>7. QED BY <2>1, <2>2, <2>3, <2>4, <2>5, <2>6 DEF IndexOk
<1>11. BaseOk(d)'
  <2>1. \A u \in Base : HandledTo(d, u)' = HandledTo(d, u)
    BY <1>2, <1>4 DEF HandledTo, Handled
  <2>2. HandledTo(d, v)
    <3>1. PICK h \in Base : h = manifest[v].parent
      BY <1>0, <1>1, ManifestFacts
    <3>2. Lineage(v) = {v} \union Lineage(h)
      BY <1>0, <1>1, <3>1, Lineages, Numbers DEF LineageInv
    <3>3. HandledTo(d, h)
      BY <1>0, <1>1, <3>1 DEF BaseOk
    <3>4. Handled(d, v)
      BY <1>0, <1>1 DEF HistoryInv, Handled
    <3>5. QED BY <3>2, <3>3, <3>4 DEF HandledTo
  <2>3. ASSUME NEW p \in Path, NEW f \in Base, files'[d][p] = f PROVE HandledTo(d, f)
    <3>1. files'[d][p] = IF p = PathOf(v) THEN v ELSE files[d][p]
      BY <1>0, <1>1, <1>9 DEF TypeOK
    <3>2. QED BY <1>0, <2>2, <2>3, <3>1 DEF BaseOk
  <2>4. \A u \in Ids, f \in Base :
           manifest'[u].origin = d /\ manifest'[u].parent = f => HandledTo(d, f)
    BY <1>0, <1>2 DEF BaseOk
  <2>5. QED BY <1>4, <2>1, <2>3, <2>4 DEF BaseOk
<1>12. RunOk(d)'
  BY <1>1, <1>3, <1>9, PlainRun DEF SameAim, ResolvePhase
<1>13. PublicationRemembered'
  BY <1>0, <1>1, <1>2 DEF PublicationRemembered, TypeOK
<1>14. ReceiptMeansApplied'
  BY <1>0, <1>1, <1>2 DEF ReceiptMeansApplied, ContentOf, TypeOK
<1>15. QED BY <1>3, <1>5, <1>6, <1>7, <1>8, <1>10, <1>11, <1>12, <1>13, <1>14, StepKeeps

LEMMA Appended ==
    ASSUME TypeOK, NEW m \in Manifest, manifest' = Append(manifest, m), Len(manifest) < MaxVersions
    PROVE  LET v == Len(manifest) + 1 IN
           /\ manifest' \in Seq(Manifest) /\ Len(manifest)' = v /\ Len(manifest)' <= MaxVersions
           /\ v \in Version /\ v \in Base /\ v \notin Ids /\ \A u \in Ids : u < v
           /\ Ids' = Ids \union {v} /\ manifest'[v] = m
           /\ \A u \in Ids : manifest'[u] = manifest[u]
<1> DEFINE v == Len(manifest) + 1
<1>1. manifest \in Seq(Manifest) /\ Len(manifest) \in Nat /\ MaxVersions \in Nat
  BY ClientAssumption, Numbers DEF TypeOK
<1>2. /\ manifest' \in Seq(Manifest) /\ Len(manifest') = v /\ manifest'[v] = m
      /\ \A u \in 1 .. Len(manifest) : manifest'[u] = manifest[u]
  BY <1>1
<1>3. v \in Version /\ v \in Base /\ v \notin Ids /\ \A u \in Ids : u < v
  BY <1>1 DEF Version, Base, Ids
<1>4. Ids' = Ids \union {v}
  BY <1>1, <1>2 DEF Ids
<1>5. v <= MaxVersions
  BY <1>1
<1>6. QED BY <1>2, <1>3, <1>4, <1>5 DEF Ids

LEMMA NewVersionRun ==
    ASSUME TypeOK, NEW d \in Device, NEW v \in Base, NEW p \in Path,
           run' = [run EXCEPT ![d].step = "prepare", ![d].cur = v, ![d].paths = @ \ {p}]
    PROVE  /\ Turned(d) /\ SameAim(d) /\ run'[d].step = "prepare" /\ run'[d].cur = v
           /\ run'[d].todo = run[d].todo
<1> DEFINE r == [run[d] EXCEPT !.step = "prepare", !.cur = v, !.paths = @ \ {p}]
<1>1. run[d] \in Run /\ run' = [run EXCEPT ![d] = r]
  BY RunFacts
<1>2. /\ r \in Run /\ r.step = "prepare" /\ r.cur = v /\ r.todo = run[d].todo
      /\ r.mode = run[d].mode /\ r.phase = run[d].phase
      /\ r.remote = run[d].remote /\ r.accepted = run[d].accepted
  BY <1>1 DEF Run
<1> HIDE DEF r
<1>3. QED BY <1>1, <1>2, TurnedTo DEF SameAim

LEMMA NewVersionKeeps ==
    ASSUME ClientInv, NEW d \in Device, NEW p \in Path, NEW c \in Local, NewVersion(d, p, c),
           run[d].step = "next", run[d].phase \in {"scan", "deletions"}
    PROVE  ClientInv'
<1> DEFINE v == Len(manifest) + 1
           m == [path |-> p, origin |-> d, parent |-> files[d][p], content |-> c]
<1>0. /\ TypeOK /\ HistoryInv /\ IndexOk(d) /\ BaseOk(d) /\ PublicationRemembered /\ ReceiptMeansApplied
  BY DEF ClientInv
<1>1. CASE Fail(d, "none")
  BY <1>1, FailKeeps
<1>2. CASE ~Fail(d, "none")
  <2>1. /\ Len(manifest) < MaxVersions /\ manifest' = Append(manifest, m)
        /\ cache' = [cache EXCEPT ![d] = @ \union ({c} \ {NoFile})]
        /\ outbox' = [outbox EXCEPT ![d] = @ \union {v}]
        /\ run' = [run EXCEPT ![d].step = "prepare", ![d].cur = v, ![d].paths = @ \ {p}]
        /\ UNCHANGED <<staged, published, heads, receipts, work, recovery, recycled, files, inbox,
                       versions, edits, faults, verdict>>
    BY <1>2 DEF NewVersion, StoreRow, serverVars, folderVars, bounds
  <2>2. m \in Manifest /\ files[d][p] \in Base
    BY <1>0 DEF TypeOK, Manifest
  <2>3. /\ manifest' \in Seq(Manifest) /\ Len(manifest)' = v /\ Len(manifest)' <= MaxVersions
        /\ v \in Version /\ v \in Base /\ v \notin Ids /\ \A u \in Ids : u < v
        /\ Ids' = Ids \union {v} /\ manifest'[v] = m
        /\ \A u \in Ids : manifest'[u] = manifest[u]
    BY <1>0, <2>1, <2>2, Appended
  <2>4. /\ manifest'[v].path = p /\ manifest'[v].origin = d /\ manifest'[v].parent = files[d][p]
        /\ manifest'[v].content = c
    BY <2>3
  <2> HIDE DEF m
  <2>5. PICK n : n = v
    OBVIOUS
  <2> HIDE DEF v
  <2>6. /\ Turned(d) /\ SameAim(d) /\ run'[d].step = "prepare" /\ run'[d].cur = n
    BY <1>0, <2>1, <2>3, <2>5, NewVersionRun
  <2>7. TypeOK'
    <3>1. outbox' \in [Device -> SUBSET Version] /\ cache' \in [Device -> SUBSET Content]
      BY <1>0, <2>1, <2>3 DEF TypeOK, Local
    <3>2. staged' \subseteq Ids' /\ published' \subseteq Ids'
      BY <1>0, <2>1, <2>3 DEF TypeOK
    <3>3. run' \in [Device -> Run]
      BY <2>6 DEF Turned
    <3>4. QED BY <1>0, <2>1, <2>3, <3>1, <3>2, <3>3 DEF TypeOK
  <2>8. Grows
    <3>1. Len(manifest) \in Nat
      BY <1>0, Numbers
    <3>2. v = Len(manifest) + 1
      BY DEF v
    <3>3. Len(manifest) <= Len(manifest)'
      BY <2>3, <3>1, <3>2
    <3>4. QED BY <2>1, <2>3, <3>3 DEF Grows
  <2>9. files[d][p] # 0 => files[d][p] \in published /\ PathOf(files[d][p]) = p /\ files[d][p] \in Ids
    BY <1>0, Numbers DEF IndexOk
  <2>10. \A u \in Ids : PathOf(u)' = PathOf(u)
    BY <2>3 DEF PathOf
  <2>11. \A u \in Ids' : ParentOk(u)'
    <3>1. ASSUME NEW u \in Ids PROVE ParentOk(u)'
      <4>1. PICK w \in Base : w = manifest[u].parent
        BY <1>0, ManifestFacts
      <4>2. w # 0 => w < u /\ w \in published /\ w \in Ids /\ PathOf(w) = PathOf(u)
        BY <1>0, <4>1, Numbers DEF HistoryInv, ParentOk
      <4>3. w # 0 => PathOf(w)' = PathOf(u)'
        BY <2>10, <4>2
      <4>4. manifest'[u].parent = w
        BY <2>3, <4>1
      <4>5. QED BY <2>1, <4>2, <4>3, <4>4 DEF ParentOk, PathOf
    <3>2. ParentOk(n)'
      <4>1. files[d][p] # 0 => manifest'[files[d][p]].path = p
        BY <2>3, <2>9 DEF PathOf
      <4>2. manifest'[n].parent = files[d][p] /\ manifest'[n].path = p
        BY <2>4, <2>5
      <4>3. files[d][p] # 0 => files[d][p] < n
        BY <2>3, <2>5, <2>9
      <4>4. QED BY <2>1, <2>9, <4>1, <4>2, <4>3 DEF ParentOk, PathOf
    <3>3. QED BY <2>3, <2>5, <3>1, <3>2
  <2>12. \A u \in Ids \union {0} : Lineage(u)' = Lineage(u)
    <3>1. Older /\ Len(manifest) \in Nat /\ v \in Nat
      BY <1>0, <2>3, ParentsOlder, Numbers
    <3>2. Older'
      <4>1. ASSUME NEW u \in Ids' PROVE manifest'[u].parent \in Nat /\ manifest'[u].parent < u
        <5>1. CASE u \in Ids
          BY <2>3, <3>1, <5>1 DEF Older
        <5>2. CASE u = v
          BY <1>0, <2>2, <2>3, <2>4, <2>9, <5>2, Numbers
        <5>3. QED BY <2>3, <5>1, <5>2
      <4>2. QED BY <4>1 DEF Older
    <3>3. Len(manifest)' \in Nat
      BY <2>3, <3>1
    <3>4. \A u \in 0 .. Len(manifest) : Lineage(u)' = Lineage(u)
      BY <2>8, <3>1, <3>2, <3>3, LineageGrows
    <3>5. QED BY <3>1, <3>4 DEF Ids
  <2>13. HistoryInv'
    <3>1. \A q \in Path : heads'[q] # 0 => heads'[q] \in published' /\ PathOf(heads[q])' = q
      BY <1>0, <2>1, <2>3, Numbers DEF HistoryInv, PathOf
    <3>2. ASSUME NEW u \in published', NEW h \in Base, heads'[PathOf(u)'] = h PROVE u \in Lineage(h)'
      <4>1. u \in published /\ u \in Ids /\ PathOf(u) \in Path
        BY <1>0, <2>1, Numbers, ManifestFacts
      <4>2. heads[PathOf(u)] = h
        BY <2>1, <2>10, <3>2, <4>1
      <4>3. h \in Ids \union {0}
        BY <1>0, <4>1, <4>2, Numbers DEF HistoryInv
      <4>4. QED BY <1>0, <2>12, <4>1, <4>2, <4>3 DEF HistoryInv
    <3>3. \A u \in published' : <<u, manifest'[u].origin>> \in receipts'
      BY <1>0, <2>1, <2>3, Numbers DEF HistoryInv
    <3>4. QED BY <2>11, <3>1, <3>2, <3>3 DEF HistoryInv
  <2>14. /\ outbox'[d] = outbox[d] \union {n} /\ cache'[d] = cache[d] \union ({c} \ {NoFile})
    BY <1>0, <2>1, <2>5 DEF TypeOK
  <2>15. \A e \in Device \ {d} : Apart(e)
    BY <1>0, <2>1, <2>3, <2>4, <2>6 DEF Apart, Still, Turned, TypeOK
  <2>16. \A u \in Ids : HasContent(d, u) => HasContent(d, u)'
    BY <2>3, <2>14, Numbers DEF HasContent, ContentOf
  <2>17. IndexOk(d)'
    <3>1. outbox'[d] \subseteq Ids' /\ versions'[d] \subseteq Ids'
      BY <1>0, <2>1, <2>3, <2>5, <2>14 DEF IndexOk
    <3>2. \A u \in outbox'[d] : manifest'[u].origin = d
      BY <1>0, <2>3, <2>4, <2>5, <2>14 DEF IndexOk
    <3>3. \A u \in outbox'[d] \union versions'[d] : HasContent(d, u)'
      <4>1. HasContent(d, n)'
        BY <1>0, <2>3, <2>4, <2>5, <2>14, Numbers DEF HasContent, ContentOf
      <4>2. QED BY <1>0, <2>1, <2>14, <2>16, <4>1 DEF IndexOk
    <3>4. \A q \in Path : files'[d][q] # 0 =>
            /\ files'[d][q] \in published' \intersect versions'[d]
            /\ PathOf(files[d][q])' = q
      BY <1>0, <2>1, <2>3, Numbers DEF IndexOk, PathOf
    <3>5. \A u \in Version : inbox'[d][u] # "none" => u \in published'
      BY <1>0, <2>1 DEF IndexOk
    <3>6. \A u \in Version : inbox'[d][u] = "APPLIED" => u \in versions'[d]
      BY <1>0, <2>1 DEF IndexOk
    <3>7. QED BY <3>1, <3>2, <3>3, <3>4, <3>5, <3>6 DEF IndexOk
  <2>18. BaseOk(d)'
    <3>1. \A u \in Ids \union {0} : HandledTo(d, u) => HandledTo(d, u)'
      BY <2>1, <2>12 DEF HandledTo, Handled
    <3>2. ASSUME NEW q \in Path, NEW f \in Base, files'[d][q] = f PROVE HandledTo(d, f)'
      <4>1. files[d][q] = f /\ f \in Ids \union {0}
        BY <1>0, <2>1, <3>2, Numbers DEF IndexOk
      <4>2. QED BY <1>0, <3>1, <4>1 DEF BaseOk
    <3>3. ASSUME NEW u \in Ids', NEW f \in Base, manifest'[u].origin = d, manifest'[u].parent = f
          PROVE  HandledTo(d, f)'
      <4>1. CASE u \in Ids
        <5>1. manifest[u].origin = d /\ manifest[u].parent = f
          BY <2>3, <3>3, <4>1
        <5>2. f \in Ids \union {0}
          BY <1>0, <4>1, <5>1, Numbers DEF HistoryInv, ParentOk
        <5>3. QED BY <1>0, <3>1, <4>1, <5>1, <5>2 DEF BaseOk
      <4>2. CASE u = v
        BY <2>1, <2>4, <3>2, <3>3, <4>2
      <4>3. QED BY <2>3, <4>1, <4>2
    <3>4. QED BY <3>2, <3>3 DEF BaseOk
  <2>19. RunOk(d)'
    <3>1. run'[d].phase \in {"scan", "deletions"} /\ n \in Ids' /\ n \in outbox'[d]
      BY <2>3, <2>5, <2>6, <2>14 DEF SameAim
    <3>2. manifest'[n].parent = BaseOf(d, n)'
      BY <2>1, <2>4, <2>5 DEF BaseOf, PathOf
    <3>3. \A u \in Ids' : run'[d].cur = u => manifest'[u].parent = BaseOf(d, u)'
      BY <2>6, <3>2
    <3>4. QED BY <2>6, <3>1, <3>3, PublishRun DEF Publishing
  <2>20. PublicationRemembered'
    BY <1>0, <2>1, <2>3, <2>14, Numbers, SMTT(20) DEF PublicationRemembered, TypeOK
  <2>21. ReceiptMeansApplied'
    <3>1. ASSUME NEW r \in receipts'
          PROVE  /\ ContentOf(r[1])' \in cache'[r[2]] \union {NoFile}
                 /\ \/ r[1] \in versions'[r[2]]
                    \/ manifest'[r[1]].origin = r[2] /\ r[1] \in outbox'[r[2]]
      <4>1. /\ r[2] \in Device /\ r \in receipts
            /\ ContentOf(r[1]) \in cache[r[2]] \union {NoFile}
            /\ \/ r[1] \in versions[r[2]]
               \/ manifest[r[1]].origin = r[2] /\ r[1] \in outbox[r[2]]
        BY <1>0, <2>1 DEF ReceiptMeansApplied, TypeOK
      <4>2. r[1] \in Ids
        BY <4>1 DEF ClientInv, IndexOk
      <4>3. ContentOf(r[1])' = ContentOf(r[1]) /\ manifest'[r[1]] = manifest[r[1]]
        BY <2>3, <4>2 DEF ContentOf
      <4>4. cache[r[2]] \subseteq cache'[r[2]] /\ outbox[r[2]] \subseteq outbox'[r[2]]
        BY <1>0, <2>1, <4>1 DEF TypeOK
      <4>5. QED BY <2>1, <4>1, <4>3, <4>4
    <3>2. QED BY <3>1 DEF ReceiptMeansApplied
  <2>22. QED
    BY <2>6, <2>7, <2>8, <2>13, <2>15, <2>17, <2>18, <2>19, <2>20, <2>21, StepKeeps
<1>3. QED BY <1>1, <1>2

LEMMA ScanFileKeeps ==
    ASSUME ClientInv, NEW d \in Device, NEW p \in Path, ScanFile(d, p) PROVE ClientInv'
<1>1. run[d].step = "next" /\ run[d].phase = "scan" /\ work[d][p] \in Local
  BY DEF ClientInv, TypeOK, ScanFile, At
<1>2. QED BY <1>1, SkipKeeps, NewVersionKeeps DEF ScanFile

LEMMA PushDeletionKeeps ==
    ASSUME ClientInv, NEW d \in Device, NEW p \in Path, PushDeletion(d, p) PROVE ClientInv'
<1>1. run[d].step = "next" /\ run[d].phase = "deletions" /\ NoFile \in Local
  BY DEF PushDeletion, At, Local
<1>2. QED BY <1>1, SkipKeeps, NewVersionKeeps DEF PushDeletion

-----------------------------------------------------------------------------
(* Receiving. *)

\* The version being received.
LEMMA ReceiveFacts ==
    ASSUME ClientInv, NEW d \in Device, run[d].step \in Receiving \union Closing
    PROVE  LET v == run[d].cur IN
           /\ v \in Ids /\ v \in Base /\ v \in Version /\ v \in published /\ v \in run[d].todo
           /\ PathOf(v) \in Path /\ ContentOf(v) \in Local
           /\ \A x \in run[d].todo : v <= x
           /\ run[d].phase \in ReceivePhase /\ run[d].todo \subseteq published
           /\ run[d].step \in Receiving => inbox[d][v] \in {"DOWNLOADING", "READY"}
           /\ run[d].step \in Receiving \ {"fetch"} => HasContent(d, v)
           /\ run[d].step \in Closing => v \in versions[d]
           /\ run[d].step = "ack" => inbox[d][v] = "APPLIED"
           /\ run[d].step = "forget" => <<v, d>> \in receipts
<1>1. TypeOK /\ PhaseOk(d) /\ CurOk(d) /\ TodoOk(d)
  BY DEF ClientInv, RunOk
<1>2. run[d].cur \in Ids
  BY <1>1 DEF CurOk, Receiving, Closing
<1>3. run[d].phase \in ReceivePhase /\ run[d].todo \subseteq published
  BY <1>1 DEF PhaseOk, TodoOk
<1>4. /\ PathOf(run[d].cur) \in Path /\ ContentOf(run[d].cur) \in Local
      /\ run[d].cur \in Base /\ run[d].cur \in Version
  BY <1>1, <1>2, ManifestFacts, Numbers
<1>5. QED BY <1>1, <1>2, <1>3, <1>4 DEF CurOk

LEMMA RecheckKeeps == ASSUME ClientInv, NEW d \in Device, Recheck(d) PROVE ClientInv'
<1>1. CASE Fail(d, "none")
  BY <1>1, FailKeeps
<1>2. CASE ~Fail(d, "none")
  <2>1. /\ TypeOK /\ Goto(d, "replace") /\ run[d].step = "apply"
        /\ Quiet /\ UNCHANGED <<work, recycled, edits, faults, verdict>>
    BY <1>2 DEF ClientInv, Recheck, At, Quiet, Calm, serverVars, indexVars, folderVars, bounds
  <2>2. Turned(d) /\ RunOk(d)'
    BY <2>1, GotoRun, GotoKeeps DEF Step, Quiet
  <2>3. TypeOK'
    BY <2>1, <2>2, QuietType DEF TypeOK, Turned
  <2>4. QED BY <2>1, <2>2, <2>3, QuietKeeps
<1>3. QED BY <1>1, <1>2

LEMMA ReplaceKeeps == ASSUME ClientInv, NEW d \in Device, Replace(d) PROVE ClientInv'
<1>1. /\ TypeOK /\ Goto(d, "settle") /\ run[d].step = "replace"
      /\ Quiet /\ UNCHANGED <<recycled, edits, faults, verdict>>
  BY DEF ClientInv, Replace, At, Quiet, Calm, serverVars, indexVars, bounds
<1>2. Turned(d) /\ RunOk(d)'
  BY <1>1, GotoRun, GotoKeeps DEF Step, Quiet
<1>3. work' \in [Device -> [Path -> Local]]
  <2>1. ContentOf(run[d].cur) \in Local
    BY <1>1, ReceiveFacts DEF Receiving
  <2>2. QED BY <1>1, <2>1 DEF Replace, TypeOK
<1>4. TypeOK'
  BY <1>1, <1>2, <1>3, QuietType DEF TypeOK, Turned
<1>5. QED BY <1>1, <1>2, <1>4, QuietKeeps

LEMMA RecycleKeeps == ASSUME ClientInv, NEW d \in Device, Recycle(d) PROVE ClientInv'
<1>1. CASE Fail(d, "none")
  BY <1>1, FailKeeps
<1>2. CASE ~Fail(d, "none")
  <2> DEFINE p == PathOf(run[d].cur)
  <2>1. /\ TypeOK /\ Goto(d, "settle") /\ run[d].step = "recycle" /\ ReplaceOk(d)
        /\ Quiet /\ UNCHANGED <<edits, faults, verdict>>
        /\ work[d][p] # NoFile
        /\ recycled' = [recycled EXCEPT ![d] = @ \union {<<p, work[d][p]>>}]
        /\ work' = [work EXCEPT ![d][p] = NoFile]
    BY <1>2 DEF ClientInv, RunOk, Recycle, At, Quiet, Calm, serverVars, indexVars, bounds
  <2>2. Turned(d) /\ RunOk(d)'
    BY <2>1, GotoRun, GotoKeeps DEF Step, Quiet
  <2>3. p \in Path
    BY <2>1, ReceiveFacts DEF Receiving
  <2>4. work[d][p] \in Content
    BY <2>1, <2>3 DEF TypeOK, Local
  <2> HIDE DEF p
  <2>5. /\ work' \in [Device -> [Path -> Local]]
        /\ recycled' \in [Device -> SUBSET (Path \X Content)]
    BY <2>1, <2>3, <2>4 DEF TypeOK, Local
  <2>6. TypeOK'
    BY <2>1, <2>2, <2>5, QuietType DEF TypeOK, Turned
  <2>7. QED BY <2>1, <2>2, <2>6, QuietKeeps
<1>3. QED BY <1>1, <1>2

\* A version is on its way: content enters the cache, its row changes phase.
Loads(d, v, phase, C) ==
    /\ cache' = [cache EXCEPT ![d] = @ \union C]
    /\ inbox' = [inbox EXCEPT ![d][v] = phase]
    /\ UNCHANGED <<manifest, staged, published, heads, receipts, work, recovery, recycled,
                   files, outbox, versions, edits, faults, verdict>>

\* What that leaves true of the device.
Loaded(d) ==
    /\ Ids' = Ids
    /\ \A u \in Base : /\ PathOf(u)' = PathOf(u) /\ Lineage(u)' = Lineage(u)
                       /\ BaseOf(d, u)' = BaseOf(d, u)
    /\ \A u \in Ids : Handled(d, u)' = Handled(d, u)
    /\ \A u \in Ids \union {0} : HandledTo(d, u)' = HandledTo(d, u)
    /\ \A u \in Ids : HasContent(d, u) => HasContent(d, u)'
    /\ \A p \in Path, c \in Content : Kept(d, p, c) => Kept(d, p, c)'

LEMMA LoadFacts ==
    ASSUME ClientInv, NEW d \in Device, NEW v \in published, NEW phase \in {"DOWNLOADING", "READY"},
           NEW C \in SUBSET Content, inbox[d][v] # "APPLIED", Loads(d, v, phase, C)
    PROVE  Loaded(d)
<1>1. TypeOK /\ v \in Version /\ v \in Base
  BY Numbers DEF ClientInv
<1>2. /\ Ids' = Ids
      /\ \A u \in Base : /\ PathOf(u)' = PathOf(u) /\ ContentOf(u)' = ContentOf(u)
                         /\ Lineage(u)' = Lineage(u) /\ BaseOf(d, u)' = BaseOf(d, u)
  BY DEF Loads, Ids, PathOf, ContentOf, Lineage, BaseOf
<1>3. /\ inbox'[d] = [inbox[d] EXCEPT ![v] = phase] /\ inbox'[d][v] = phase
      /\ cache'[d] = cache[d] \union C
  BY <1>1 DEF Loads, TypeOK
<1>4. \A u \in Version : u # v => inbox'[d][u] = inbox[d][u]
  BY <1>1, <1>3 DEF TypeOK
<1>5. \A u \in Version : Handled(d, u)' = Handled(d, u)
  BY <1>3, <1>4 DEF Handled, Loads
<1>6. Ids \subseteq Version /\ \A u \in Ids \union {0} : u \in Base /\ \A w \in Lineage(u) : w \in Ids
  BY <1>1, Numbers, LineageIds DEF ClientInv
<1>7. \A u \in Ids : Handled(d, u)' = Handled(d, u)
  BY <1>5, <1>6
<1>8. \A p \in Path, c \in Content : Kept(d, p, c) => Kept(d, p, c)'
  BY <1>3 DEF Kept, Loads, PathOf, ContentOf
<1>9. \A u \in Ids : HasContent(d, u) => HasContent(d, u)'
  BY <1>3 DEF HasContent, Loads, ContentOf
<1>10. \A u \in Ids \union {0} : HandledTo(d, u)' = HandledTo(d, u)
  BY <1>2, <1>6, <1>7 DEF HandledTo
<1>11. QED BY <1>2, <1>3, <1>7, <1>8, <1>9, <1>10 DEF Loaded

LEMMA LoadKeeps ==
    ASSUME ClientInv, NEW d \in Device, NEW v \in published, NEW phase \in {"DOWNLOADING", "READY"},
           NEW C \in SUBSET Content, inbox[d][v] # "APPLIED", Loads(d, v, phase, C),
           Turned(d), RunOk(d)'
    PROVE  ClientInv'
<1>0. /\ TypeOK /\ HistoryInv /\ IndexOk(d) /\ BaseOk(d) /\ PublicationRemembered /\ ReceiptMeansApplied
      /\ v \in Version
  BY Numbers DEF ClientInv
<1>1. /\ Ids' = Ids
      /\ \A u \in Base : /\ PathOf(u)' = PathOf(u) /\ Lineage(u)' = Lineage(u)
                         /\ BaseOf(d, u)' = BaseOf(d, u)
      /\ \A u \in Ids : Handled(d, u)' = Handled(d, u)
      /\ \A u \in Ids \union {0} : HandledTo(d, u)' = HandledTo(d, u)
      /\ \A u \in Ids : HasContent(d, u) => HasContent(d, u)'
      /\ \A p \in Path, c \in Content : Kept(d, p, c) => Kept(d, p, c)'
      /\ inbox'[d] = [inbox[d] EXCEPT ![v] = phase] /\ inbox'[d][v] = phase
      /\ cache'[d] = cache[d] \union C
  <2>1. Loaded(d)
    BY LoadFacts DEF Loads
  <2>2. /\ inbox'[d] = [inbox[d] EXCEPT ![v] = phase] /\ inbox'[d][v] = phase
        /\ cache'[d] = cache[d] \union C
    BY <1>0 DEF Loads, TypeOK
  <2>3. QED BY <2>1, <2>2 DEF Loaded
<1>2. TypeOK'
  <2>1. inbox' \in [Device -> [Version -> InboxPhase]] /\ cache' \in [Device -> SUBSET Content]
    BY <1>0 DEF TypeOK, InboxPhase, Loads
  <2>2. QED BY <1>0, <1>1, <2>1 DEF TypeOK, Loads, Turned
<1>3. Grows
  BY <1>0, Numbers DEF Loads, Grows
<1>4. HistoryInv'
  BY <1>0, <1>1, Numbers DEF HistoryInv, ParentOk, PathOf, Loads
<1>5. \A e \in Device \ {d} : Apart(e)
  BY <1>0, <1>1 DEF Apart, Still, Turned, TypeOK, Loads
<1>6. IndexOk(d)'
  <2>1. /\ outbox'[d] = outbox[d] /\ versions'[d] = versions[d] /\ manifest' = manifest
        /\ published' = published /\ files' = files
    BY DEF Loads
  <2>2. \A u \in Version : inbox'[d][u] # "none" => u \in published
    BY <1>0, <1>1 DEF IndexOk, TypeOK
  <2>3. \A u \in Version : inbox'[d][u] = "APPLIED" => u \in versions[d]
    BY <1>0, <1>1 DEF IndexOk, TypeOK
  <2>4. \A u \in outbox[d] \union versions[d] : HasContent(d, u)'
    BY <1>0, <1>1 DEF IndexOk
  <2>5. QED BY <1>0, <1>1, <2>1, <2>2, <2>3, <2>4 DEF IndexOk, PathOf
<1>7. BaseOk(d)'
  <2>1. ASSUME NEW p \in Path, NEW f \in Base, files'[d][p] = f PROVE HandledTo(d, f)'
    <3>1. files[d][p] = f /\ f \in Ids \union {0}
      BY <1>0, <2>1, Numbers DEF IndexOk, Loads
    <3>2. QED BY <1>0, <1>1, <3>1 DEF BaseOk
  <2>2. ASSUME NEW u \in Ids', NEW f \in Base, manifest'[u].origin = d, manifest'[u].parent = f
        PROVE  HandledTo(d, f)'
    <3>1. u \in Ids /\ manifest'[u] = manifest[u]
      BY <1>1 DEF Loads
    <3>2. f \in Ids \union {0}
      BY <1>0, <2>2, <3>1, Numbers DEF HistoryInv, ParentOk
    <3>3. QED BY <1>0, <1>1, <2>2, <3>1, <3>2 DEF BaseOk
  <2>3. QED BY <2>1, <2>2 DEF BaseOk
<1>8. PublicationRemembered'
  BY <1>0 DEF PublicationRemembered, Loads
<1>9. ReceiptMeansApplied'
  <2>1. \A e \in Device : cache[e] \subseteq cache'[e]
    BY <1>0 DEF Loads, TypeOK
  <2>2. \A r \in receipts : r[2] \in Device
    BY <1>0 DEF TypeOK
  <2>3. QED BY <1>0, <2>1, <2>2 DEF ReceiptMeansApplied, ContentOf, Loads
<1>10. QED BY <1>2, <1>3, <1>4, <1>5, <1>6, <1>7, <1>8, <1>9, StepKeeps

\* A run that takes up, or goes on with, a version to receive.
LEMMA ReceiveRun ==
    ASSUME ClientInv, NEW d \in Device, NEW v \in published,
           run[d].phase \in ReceivePhase, v \in run[d].todo, \A x \in run[d].todo : v <= x,
           SameAim(d), run'[d].todo = run[d].todo, run'[d].paths = run[d].paths, run'[d].cur = v,
           run'[d].step \in Receiving \union {"ack"},
           UNCHANGED <<manifest, published, receipts, files, outbox, versions>>,
           \A u \in Ids : Handled(d, u)' = Handled(d, u),
           \A p \in Path, c \in Content : Kept(d, p, c) => Kept(d, p, c)',
           run'[d].step \in Receiving => inbox'[d][v] \in {"DOWNLOADING", "READY"},
           run'[d].step \in Receiving \ {"fetch"} => HasContent(d, v)',
           run'[d].step = "ack" => inbox'[d][v] = "APPLIED" /\ v \in versions[d],
           run[d].phase \in {"inbox", "pending"} =>
              run'[d].step = "ack" \/ manifest[v].parent = BaseOf(d, v),

           run[d].phase = "lineage" => ~ (<<v, d>> \in receipts) /\ run[d].step # "forget",
           ReplaceOk(d)'
    PROVE  RunOk(d)'
<1> USE DEF ReceivePhase
<1>0. TypeOK /\ HistoryInv /\ PhaseOk(d) /\ TodoOk(d) /\ ResolveOk(d) /\ MoveOk(d)
  BY DEF ClientInv, RunOk
<1>1. /\ Ids' = Ids /\ v \in Ids /\ Ids \subseteq Base
      /\ \A u \in Base : /\ PathOf(u)' = PathOf(u) /\ Lineage(u)' = Lineage(u)
                         /\ BaseOf(d, u)' = BaseOf(d, u)
      /\ \A u \in Ids : \A w \in Lineage(u) : w \in Ids
  BY <1>0, Numbers, LineageIds DEF Ids, PathOf, Lineage, BaseOf
<1>2. \A u \in Ids : HandledTo(d, u) => HandledTo(d, u)'
  BY <1>1 DEF HandledTo
<1>3. PhaseOk(d)'
  BY <1>0 DEF PhaseOk, SameAim, Publishing, Receiving, Closing
<1>4. TodoOk(d)'
  BY <1>0 DEF TodoOk, SameAim
<1>5. CurOk(d)'
  BY <1>0, <1>1 DEF CurOk, Publishing, Receiving, Closing
<1>6. ResolveOk(d)'
  <2>1. run'[d].phase \in {"inbox", "pending", "lineage", "choice"}
    BY DEF SameAim
  <2>2. QED BY <1>0, <2>1 DEF ResolveOk, SameAim, PathOf, ResolvePhase
<1>7. MoveOk(d)'
  <2>1. \A u \in Ids : run'[d].cur = u =>
          /\ run'[d].step \in Publishing /\ run'[d].phase \in {"scan", "deletions"} =>
                manifest'[u].parent = BaseOf(d, u)'
          /\ run'[d].step \in Receiving /\ run'[d].phase \in {"inbox", "pending"} =>
                manifest'[u].parent = BaseOf(d, u)'
    BY <1>1 DEF SameAim, Publishing, Receiving
  <2>2. ASSUME NEW h \in Ids, NEW f \in Base, run'[d].phase \in {"ask", "lineage", "choice"},
               run'[d].remote = h, files'[d][PathOf(h)'] = f
        PROVE  f \in Lineage(h)' \union {0}
    BY <1>0, <1>1, <2>2 DEF MoveOk, SameAim
  <2>3. ASSUME NEW h \in Ids, run'[d].phase = "lineage", run'[d].remote = h
        PROVE  /\ run'[d].todo \subseteq Lineage(h)'
               /\ \A w \in Lineage(h)' : Handled(d, w)' \/ w \in run'[d].todo
               /\ \A w \in run'[d].todo : ~ (<<w, d>> \in receipts')
    BY <1>0, <1>1, <2>3 DEF MoveOk, SameAim
  <2>4. ASSUME NEW h \in Ids, run'[d].phase = "choice", run'[d].remote = h PROVE HandledTo(d, h)'
    BY <1>0, <1>2, <2>4 DEF MoveOk, SameAim
  <2>5. QED BY <1>1, <2>1, <2>2, <2>3, <2>4 DEF MoveOk
<1>8. QED BY <1>3, <1>4, <1>5, <1>6, <1>7 DEF RunOk

\* What a run takes for unchanged is kept: it is what the base holds, or what
\* the resolution accepted.
LEMMA ReceivedIsKept ==
    ASSUME ClientInv, NEW d \in Device, NEW v \in published, run[d].phase \in ReceivePhase,
           v \in run[d].todo, MayReceive(d, v), run[d].mode # "KEEP", ~InPlace(d, v), ~Adopted(d, v),
           work[d][PathOf(v)] # NoFile
    PROVE  Kept(d, PathOf(v), work[d][PathOf(v)])
<1>0. /\ TypeOK /\ IndexOk(d) /\ PhaseOk(d) /\ ResolveOk(d) /\ v \in Ids
  BY Numbers DEF ClientInv, RunOk
<1>1. PathOf(v) \in Path /\ work[d][PathOf(v)] \in Content
  <2>1. PathOf(v) \in Path
    BY <1>0, ManifestFacts
  <2>2. QED BY <1>0, <2>1 DEF TypeOK, Local
<1>2. CASE Resolving(d)
  <2>1. work[d][PathOf(v)] = run[d].accepted
    BY <1>2 DEF MayReceive
  <2>2. run[d].phase \in {"lineage", "choice"}
    BY <1>0, <1>2 DEF PhaseOk, Resolving, ReceivePhase
  <2>3. run[d].paths = {PathOf(v)}
    BY <1>0, <2>2 DEF ResolveOk
  <2>4. QED BY <1>0, <1>1, <2>1, <2>2, <2>3 DEF ResolveOk
<1>3. CASE ~Resolving(d)
  <2>1. PICK b \in Base : b = BaseOf(d, v)
    BY <1>0, <1>1 DEF BaseOf, TypeOK
  <2>2. work[d][PathOf(v)] = ContentOf(b)
    BY <1>3, <2>1 DEF MayReceive, Clean
  <2>3. b # 0 /\ b \in versions[d] /\ PathOf(b) = PathOf(v)
    BY <1>0, <1>1, <2>1, <2>2 DEF IndexOk, BaseOf, ContentOf
  <2>4. ContentOf(b) \in cache[d]
    BY <1>0, <2>2, <2>3 DEF IndexOk, HasContent
  <2>5. QED BY <2>2, <2>3, <2>4 DEF Kept
<1>4. QED BY <1>2, <1>3

LEMMA ReceiveKeeps == ASSUME ClientInv, NEW d \in Device, Receive(d) PROVE ClientInv'
<1>0. /\ TypeOK /\ IndexOk(d) /\ PhaseOk(d) /\ TodoOk(d) /\ ResolveOk(d) /\ MoveOk(d)
      /\ run[d].step = "next" /\ run[d].phase \in ReceivePhase /\ run[d].todo # {}
  BY DEF ClientInv, RunOk, Receive, At, ReceivePhase
<1>1. PICK v : v = Oldest(run[d].todo)
  OBVIOUS
<1>2. v \in run[d].todo /\ \A x \in run[d].todo : v <= x
  BY <1>0, <1>1, RunFacts, OldestFacts
<1>3. v \in published /\ v \in Ids /\ v \in Base /\ v \in Version
  BY <1>0, <1>2, Numbers DEF TodoOk
<1>4. PathOf(v) \in Path /\ ContentOf(v) \in Local /\ work[d][PathOf(v)] \in Local
  <2>1. PathOf(v) \in Path /\ ContentOf(v) \in Local
    BY <1>0, <1>3, ManifestFacts
  <2>2. work \in [Device -> [Path -> Local]]
    BY <1>0 DEF TypeOK
  <2>3. QED BY <2>1, <2>2
<1>5. run[d].phase = "lineage" => ~ (<<v, d>> \in receipts)
  <2>1. ASSUME run[d].phase = "lineage" PROVE ~ (<<v, d>> \in receipts)
    <3>1. run[d].remote \in Ids
      BY <1>0, <2>1, Numbers DEF ResolveOk, ResolvePhase
    <3>2. QED BY <1>0, <1>2, <2>1, <3>1 DEF MoveOk
  <2>2. QED BY <2>1
<1>6. CASE /\ inbox[d][v] = "APPLIED"
           /\ run' = [run EXCEPT ![d].step = "ack", ![d].cur = v]
           /\ UNCHANGED <<manifest, serverVars, folderVars, indexVars, cache, bounds, verdict>>
  <2>1. Quiet /\ UNCHANGED <<work, recycled, edits, faults, verdict>>
    BY <1>6 DEF Quiet, Calm, serverVars, indexVars, folderVars, bounds
  <2>2. /\ Turned(d) /\ SameAim(d) /\ run'[d].step = "ack" /\ run'[d].cur = v
        /\ run'[d].todo = run[d].todo /\ run'[d].paths = run[d].paths
    BY <1>0, <1>3, <1>6, TakeRun DEF Step
  <2>3. UNCHANGED <<manifest, published, receipts, files, outbox, versions, inbox>>
    BY <2>1 DEF Quiet, Calm, indexVars
  <2>4. /\ \A u \in Ids : Handled(d, u)' = Handled(d, u)
        /\ \A p \in Path, c \in Content : Kept(d, p, c) => Kept(d, p, c)'
    <3>1. \A u \in Ids : u \in Base
      BY <1>0, Numbers
    <3>2. QED BY <2>1, <3>1, CalmFacts DEF Quiet
  <2>5. ReplaceOk(d)'
    BY <2>2 DEF ReplaceOk
  <2>6. inbox'[d][v] = "APPLIED" /\ v \in versions[d]
    BY <1>0, <1>3, <1>6, <2>3 DEF IndexOk
  <2>7. RunOk(d)'
    BY <1>0, <1>2, <1>3, <1>5, <2>2, <2>3, <2>4, <2>5, <2>6, ReceiveRun DEF Receiving
  <2>8. TypeOK'
    BY <1>0, <2>1, <2>2, QuietType DEF TypeOK, Turned
  <2>9. QED BY <2>1, <2>2, <2>7, <2>8, QuietKeeps
<1>7. CASE Fail(d, "conflict") \/ Fail(d, "none")
  BY <1>7, FailKeeps
<1>8. CASE /\ inbox[d][v] # "APPLIED" /\ MayReceive(d, v)
           /\ cache' = [cache EXCEPT ![d] = @ \union Seeded(d, v)]
           /\ inbox' = [inbox EXCEPT ![d][v] = IF @ = "none" THEN "DOWNLOADING" ELSE @]
           /\ run' = [run EXCEPT
                ![d].step = "fetch", ![d].cur = v, ![d].actual = work[d][PathOf(v)],
                ![d].already = run[d].mode = "KEEP" \/ InPlace(d, v) \/ Adopted(d, v)]
           /\ UNCHANGED <<manifest, serverVars, folderVars, files, outbox, versions, bounds, verdict>>
  <2>1. PICK ph \in {"DOWNLOADING", "READY"} :
           ph = IF inbox[d][v] = "none" THEN "DOWNLOADING" ELSE inbox[d][v]
    BY <1>0, <1>3, <1>8 DEF TypeOK, InboxPhase
  <2>2. PICK C : C = Seeded(d, v)
    OBVIOUS
  <2>3. C \in SUBSET Content
    BY <1>4, <2>2 DEF Seeded, Local
  <2>4. Loads(d, v, ph, C)
    BY <1>0, <1>3, <1>8, <2>1, <2>2 DEF Loads, serverVars, folderVars, bounds, TypeOK
  <2>5. PICK a : a = work[d][PathOf(v)]
    OBVIOUS
  <2>6. PICK b \in BOOLEAN : b <=> (run[d].mode = "KEEP" \/ InPlace(d, v) \/ Adopted(d, v))
    OBVIOUS
  <2>7. b = (run[d].mode = "KEEP" \/ InPlace(d, v) \/ Adopted(d, v))
    BY <2>6 DEF InPlace, Adopted
  <2> DEFINE r == [run[d] EXCEPT !.step = "fetch", !.cur = v, !.actual = a, !.already = b]
  <2>8. run' = [run EXCEPT ![d] = r] /\ run[d] \in Run /\ a \in Local
    BY <1>0, <1>4, <1>8, <2>5, <2>7, RunFacts
  <2>9. /\ Turned(d) /\ SameAim(d) /\ run'[d].step = "fetch" /\ run'[d].cur = v
        /\ run'[d].todo = run[d].todo /\ run'[d].paths = run[d].paths
        /\ run'[d].actual = a /\ run'[d].already = b
    <3>1. /\ r \in Run /\ r.step = "fetch" /\ r.cur = v /\ r.todo = run[d].todo
          /\ r.paths = run[d].paths /\ r.mode = run[d].mode /\ r.phase = run[d].phase
          /\ r.remote = run[d].remote /\ r.accepted = run[d].accepted
          /\ r.actual = a /\ r.already = b
      BY <1>3, <2>8 DEF Run
    <3> HIDE DEF r
    <3>2. QED BY <1>0, <2>8, <3>1, TurnedTo DEF SameAim
  <2> HIDE DEF r
  <2>10. Loaded(d) /\ inbox'[d][v] = ph
    <3>1. Loaded(d)
      BY <1>3, <1>8, <2>3, <2>4, LoadFacts DEF Loads
    <3>2. QED BY <1>0, <1>3, <2>4, <3>1 DEF Loads, TypeOK
  <2>11. ReplaceOk(d)'
    <3>1. ASSUME NEW p \in Path, NEW c \in Content, ~b, PathOf(v) = p, a = c PROVE Kept(d, p, c)'
      <4>1. Kept(d, PathOf(v), work[d][PathOf(v)])
        <5>1. work[d][PathOf(v)] # NoFile
          BY <2>5, <3>1, ClientAssumption
        <5>2. QED BY <1>0, <1>2, <1>3, <1>8, <2>6, <3>1, <5>1, ReceivedIsKept
      <4>2. Kept(d, p, c)
        BY <2>5, <3>1, <4>1
      <4>3. QED BY <2>10, <4>2 DEF Loaded
    <3>2. PathOf(v)' = PathOf(v)
      BY <1>3, <2>10 DEF Loaded
    <3>3. QED BY <2>9, <3>1, <3>2 DEF ReplaceOk
  <2>12. run[d].phase \in {"inbox", "pending"} => manifest[v].parent = BaseOf(d, v)
    BY <1>0, <1>8 DEF PhaseOk, MayReceive, Resolving, FollowsBase
  <2>13. UNCHANGED <<manifest, published, receipts, files, outbox, versions>>
    BY <2>4 DEF Loads
  <2>14. RunOk(d)'
    <3>1. /\ \A u \in Ids : Handled(d, u)' = Handled(d, u)
          /\ \A p \in Path, c \in Content : Kept(d, p, c) => Kept(d, p, c)'
      BY <2>10 DEF Loaded
    <3>2. QED
      BY <1>0, <1>2, <1>3, <1>5, <2>9, <2>10, <2>11, <2>12, <2>13, <3>1, ReceiveRun DEF Receiving
  <2>15. QED BY <1>3, <1>8, <2>3, <2>4, <2>9, <2>14, LoadKeeps DEF Loads
<1>9. QED BY <1>1, <1>6, <1>7, <1>8 DEF Receive

LEMMA FetchKeeps == ASSUME ClientInv, NEW d \in Device, Fetch(d) PROVE ClientInv'
<1>0. /\ TypeOK /\ IndexOk(d) /\ ResolveOk(d) /\ ReplaceOk(d) /\ MoveOk(d) /\ PhaseOk(d)
      /\ run[d].step = "fetch"
  BY DEF ClientInv, RunOk, Fetch, At
<1>1. PICK v : v = run[d].cur
  OBVIOUS
<1>2. /\ v \in Ids /\ v \in Base /\ v \in Version /\ v \in published /\ v \in run[d].todo
      /\ PathOf(v) \in Path /\ ContentOf(v) \in Local
      /\ \A x \in run[d].todo : v <= x
      /\ run[d].phase \in ReceivePhase
      /\ inbox[d][v] \in {"DOWNLOADING", "READY"}
  BY <1>0, <1>1, ReceiveFacts DEF Receiving
<1>3. PICK C : C = {ContentOf(v)} \ {NoFile}
  OBVIOUS
<1>4. PICK s \in {"settle", "apply", "recycle"} :
        s = IF run[d].already THEN "settle"
            ELSE IF ContentOf(v) # NoFile THEN "apply"
            ELSE IF run[d].actual # NoFile THEN "recycle"
            ELSE "settle"
  OBVIOUS
<1>5. C \in SUBSET Content /\ inbox[d][v] # "APPLIED"
  BY <1>2, <1>3 DEF Local
<1>6. Loads(d, v, "READY", C) /\ Goto(d, s)
  BY <1>1, <1>3, <1>4 DEF Fetch, LoadedPhase, Loads, serverVars, folderVars, bounds
<1>7. /\ Turned(d) /\ SameAim(d) /\ SameItem(d) /\ run'[d].step = s
      /\ run'[d].todo = run[d].todo /\ run'[d].paths = run[d].paths /\ run'[d].cur = v
  BY <1>0, <1>1, <1>6, GotoRun DEF Step
<1>8. Loaded(d)
  BY <1>2, <1>5, <1>6, LoadFacts DEF Loads
<1>9. inbox'[d][v] = "READY" /\ cache'[d] = cache[d] \union C
  BY <1>0, <1>2, <1>6 DEF Loads, TypeOK
<1>10. HasContent(d, v)'
  BY <1>3, <1>6, <1>9 DEF HasContent, ContentOf, Loads
<1>11. ReplaceOk(d)'
  <2>1. run'[d].step = "apply" => ~run'[d].already
    BY <1>4, <1>7 DEF SameItem
  <2>2. run'[d].step = "recycle" => run'[d].actual # NoFile
    BY <1>4, <1>7 DEF SameItem
  <2>3. \A p \in Path, c \in Content :
          ~run[d].already /\ PathOf(v) = p /\ run[d].actual = c => Kept(d, p, c)'
    BY <1>0, <1>1, <1>2, <1>8 DEF ReplaceOk, Loaded
  <2>4. PathOf(v)' = PathOf(v)
    BY <1>2, <1>8 DEF Loaded
  <2>5. run'[d].step # "replace" /\ run'[d].step # "fetch"
    BY <1>7
  <2>6. QED BY <1>7, <2>1, <2>2, <2>3, <2>4, <2>5 DEF ReplaceOk, SameItem
<1>12. run[d].phase \in {"inbox", "pending"} => manifest[v].parent = BaseOf(d, v)
  BY <1>0, <1>1, <1>2 DEF MoveOk, Receiving
<1>13. run[d].phase = "lineage" => ~ (<<v, d>> \in receipts)
  <2>1. ASSUME run[d].phase = "lineage" PROVE ~ (<<v, d>> \in receipts)
    <3>1. run[d].remote \in Ids
      BY <1>0, <2>1, Numbers DEF ResolveOk, ResolvePhase
    <3>2. QED BY <1>0, <1>2, <2>1, <3>1 DEF MoveOk
  <2>2. QED BY <2>1
<1>14. UNCHANGED <<manifest, published, receipts, files, outbox, versions>>
  BY <1>6 DEF Loads
<1>15. RunOk(d)'
  <2>1. /\ \A u \in Ids : Handled(d, u)' = Handled(d, u)
        /\ \A p \in Path, c \in Content : Kept(d, p, c) => Kept(d, p, c)'
    BY <1>8 DEF Loaded
  <2>2. run'[d].step \in Receiving
    BY <1>7 DEF Receiving
  <2>3. QED
    BY <1>0, <1>2, <1>7, <1>9, <1>10, <1>11, <1>12, <1>13, <1>14, <2>1, <2>2, ReceiveRun
       DEF Receiving
<1>16. QED BY <1>2, <1>5, <1>6, <1>7, <1>15, LoadKeeps DEF Loads

LEMMA AcknowledgeKeeps == ASSUME ClientInv, NEW d \in Device, Acknowledge(d) PROVE ClientInv'
<1>0. /\ TypeOK /\ HistoryInv /\ IndexOk(d) /\ BaseOk(d) /\ RunOk(d) /\ run[d].step = "ack"
      /\ PublicationRemembered /\ ReceiptMeansApplied
  BY DEF ClientInv, Acknowledge, At
<1>1. PICK v : v = run[d].cur
  OBVIOUS
<1>2. /\ v \in Ids /\ v \in Base /\ v \in Version /\ v \in published /\ v \in run[d].todo
      /\ \A x \in run[d].todo : v <= x
      /\ run[d].phase \in ReceivePhase /\ run[d].todo \subseteq published
      /\ v \in versions[d] /\ inbox[d][v] = "APPLIED"
  BY <1>0, <1>1, ReceiveFacts DEF Closing
<1>3. CASE Fail(d, "none")
  BY <1>3, FailKeeps
<1>4. CASE ~Fail(d, "none")
  <2>1. /\ ContentOf(v) \in cache[d] \union {NoFile} /\ receipts' = receipts \union {<<v, d>>}
        /\ Goto(d, "forget")
        /\ UNCHANGED <<manifest, staged, published, heads, work, recovery, recycled, files, outbox,
                       inbox, versions, cache, edits, faults, verdict>>
    BY <1>1, <1>4 DEF Acknowledge, folderVars, indexVars, bounds
  <2>2. /\ Turned(d) /\ SameAim(d) /\ run'[d].step = "forget"
        /\ run'[d].todo = run[d].todo /\ run'[d].paths = run[d].paths /\ run'[d].cur = v
    BY <1>0, <1>1, <2>1, GotoRun DEF Step
  <2>3. /\ Ids' = Ids /\ Ids \subseteq Base /\ Ids \subseteq Version
        /\ \A u \in Base : /\ PathOf(u)' = PathOf(u) /\ Lineage(u)' = Lineage(u)
                           /\ BaseOf(d, u)' = BaseOf(d, u)
        /\ \A u \in Ids : \A w \in Lineage(u) : w \in Ids
        /\ \A u \in Ids : Handled(d, u) => Handled(d, u)'
        /\ \A p \in Path, c \in Content : Kept(d, p, c) = Kept(d, p, c)'
    BY <1>0, <2>1, Numbers, LineageIds DEF Ids, PathOf, Lineage, BaseOf, Handled, Kept, ContentOf
  <2>4. \A u \in Ids : HandledTo(d, u) => HandledTo(d, u)'
    BY <2>3 DEF HandledTo
  <2>5. TypeOK'
    BY <1>0, <1>2, <2>1, <2>2, <2>3 DEF TypeOK, Turned
  <2>6. Grows
    BY <1>0, <2>1, Numbers DEF Grows
  <2>7. HistoryInv'
    BY <1>0, <2>1, <2>3, Numbers DEF HistoryInv, ParentOk, PathOf
  <2>8. Still(d) /\ \A e \in Device \ {d} : Apart(e)
    BY <2>1, <2>2, <2>3 DEF Apart, Still, Turned
  <2>9. IndexOk(d)' /\ BaseOk(d)'
    BY <1>0, <2>5, <2>6, <2>7, <2>8, StillKeeps
  <2>10. PublicationRemembered' /\ ReceiptMeansApplied'
    BY <1>0, <1>2, <2>1 DEF PublicationRemembered, ReceiptMeansApplied, ContentOf
  <2>11. RunOk(d)'
    <3> USE DEF ReceivePhase
    <3>1. PhaseOk(d)'
      BY <1>0, <1>2, <2>2 DEF RunOk, PhaseOk, SameAim, Publishing, Receiving, Closing
    <3>2. TodoOk(d)'
      BY <1>0, <2>1, <2>2 DEF RunOk, TodoOk, SameAim
    <3>3. CurOk(d)'
      BY <1>2, <2>1, <2>2, <2>3 DEF CurOk, Publishing, Receiving, Closing
    <3>4. ResolveOk(d)'
      BY <1>0, <1>2, <2>1, <2>2, <2>3 DEF RunOk, ResolveOk, SameAim, PathOf, ResolvePhase
    <3>5. ReplaceOk(d)'
      BY <2>2 DEF ReplaceOk
    <3>6. MoveOk(d)'
      <4>1. ASSUME NEW h \in Ids, NEW f \in Base, run'[d].phase \in {"ask", "lineage", "choice"},
                   run'[d].remote = h, files'[d][PathOf(h)'] = f
            PROVE  f \in Lineage(h)' \union {0}
        BY <1>0, <2>1, <2>2, <2>3, <4>1 DEF RunOk, MoveOk, SameAim
      <4>2. ASSUME NEW h \in Ids, run'[d].phase = "lineage", run'[d].remote = h
            PROVE  /\ run'[d].todo \subseteq Lineage(h)'
                   /\ \A w \in Lineage(h)' : Handled(d, w)' \/ w \in run'[d].todo
                   /\ \A w \in run'[d].todo : <<w, d>> \in receipts' => w = v
        <5>1. \A w \in run[d].todo : ~ (<<w, d>> \in receipts)
          BY <1>0, <2>2, <4>2 DEF RunOk, MoveOk, SameAim
        <5>2. QED BY <1>0, <2>1, <2>2, <2>3, <4>2, <5>1 DEF RunOk, MoveOk, SameAim
      <4>3. ASSUME NEW h \in Ids, run'[d].phase = "choice", run'[d].remote = h PROVE HandledTo(d, h)'
        BY <1>0, <2>2, <2>4, <4>3 DEF RunOk, MoveOk, SameAim
      <4>4. QED BY <2>2, <2>3, <4>1, <4>2, <4>3 DEF MoveOk, Publishing, Receiving
    <3>7. QED BY <3>1, <3>2, <3>3, <3>4, <3>5, <3>6 DEF RunOk
  <2>12. QED BY <2>2, <2>5, <2>6, <2>7, <2>8, <2>9, <2>10, <2>11, StepKeeps
<1>5. QED BY <1>3, <1>4

LEMMA SettleKeeps == ASSUME ClientInv, NEW d \in Device, Settle(d) PROVE ClientInv'
<1>0. /\ TypeOK /\ HistoryInv /\ IndexOk(d) /\ BaseOk(d) /\ RunOk(d) /\ run[d].step = "settle"
      /\ PublicationRemembered /\ ReceiptMeansApplied
  BY DEF ClientInv, Settle, At
<1>1. PICK v : v = run[d].cur
  OBVIOUS
<1>2. /\ v \in Ids /\ v \in Base /\ v \in Version /\ v \in published /\ v \in run[d].todo
      /\ PathOf(v) \in Path /\ ContentOf(v) \in Local
      /\ \A x \in run[d].todo : v <= x
      /\ run[d].phase \in ReceivePhase /\ run[d].todo \subseteq published
      /\ HasContent(d, v)
  BY <1>0, <1>1, ReceiveFacts DEF Receiving
<1>3. CASE Fail(d, "conflict")
  BY <1>3, FailKeeps
<1>4. CASE ~Fail(d, "conflict")
  <2>1. PICK a : a = IF run[d].mode = "USE" THEN ContentOf(v) ELSE run[d].accepted
    OBVIOUS
  <2> DEFINE r == [run[d] EXCEPT !.step = "ack", !.accepted = a]
  <2>2. /\ files' = [files EXCEPT ![d][PathOf(v)] = v]
        /\ versions' = [versions EXCEPT ![d] = @ \union {v}]
        /\ inbox' = [inbox EXCEPT ![d][v] = "APPLIED"]
        /\ run' = [run EXCEPT ![d] = r]
        /\ UNCHANGED <<manifest, staged, published, heads, receipts, work, recovery, recycled,
                       outbox, cache, edits, faults, verdict>>
    BY <1>0, <1>1, <1>4, <2>1, RunFacts DEF Settle, serverVars, folderVars, bounds
  <2>3. run[d] \in Run /\ a \in Local
    BY <1>0, <1>2, <2>1, RunFacts
  <2>4. /\ Turned(d) /\ run'[d].step = "ack" /\ run'[d].accepted = a
        /\ run'[d].mode = run[d].mode /\ run'[d].phase = run[d].phase
        /\ run'[d].remote = run[d].remote /\ run'[d].cur = v
        /\ run'[d].todo = run[d].todo /\ run'[d].paths = run[d].paths
    <3>1. /\ r \in Run /\ r.step = "ack" /\ r.accepted = a
          /\ r.mode = run[d].mode /\ r.phase = run[d].phase /\ r.remote = run[d].remote
          /\ r.cur = v /\ r.todo = run[d].todo /\ r.paths = run[d].paths
      BY <1>1, <2>3 DEF Run
    <3> HIDE DEF r
    <3>2. QED BY <1>0, <2>2, <3>1, TurnedTo
  <2> HIDE DEF r
  <2>5. /\ files'[d] = [files[d] EXCEPT ![PathOf(v)] = v] /\ versions'[d] = versions[d] \union {v}
        /\ inbox'[d] = [inbox[d] EXCEPT ![v] = "APPLIED"] /\ inbox'[d][v] = "APPLIED"
    BY <1>0, <1>2, <2>2 DEF TypeOK
  <2>6. /\ Ids' = Ids /\ Ids \subseteq Base /\ Ids \subseteq Version /\ 0 \in Base
        /\ \A u \in Base : PathOf(u)' = PathOf(u) /\ Lineage(u)' = Lineage(u)
        /\ \A u \in Ids \union {0} : \A w \in Lineage(u) : w \in Ids
        /\ \A p \in Path, c \in Content : Kept(d, p, c) => Kept(d, p, c)'
    <3>1. \A p \in Path, c \in Content : Kept(d, p, c) => Kept(d, p, c)'
      BY <2>2, <2>5 DEF Kept, PathOf, ContentOf
    <3>2. Ids' = Ids /\ \A u \in Base : PathOf(u)' = PathOf(u) /\ Lineage(u)' = Lineage(u)
      BY <2>2 DEF Ids, PathOf, Lineage
    <3>3. QED BY <1>0, <3>1, <3>2, Numbers, LineageIds
  <2>7. \A u \in Ids : (Handled(d, u) \/ u = v) => Handled(d, u)'
    <3>1. \A u \in Version : u # v => inbox'[d][u] = inbox[d][u]
      BY <1>0, <2>5 DEF TypeOK
    <3>2. QED BY <2>2, <2>5, <2>6, <3>1 DEF Handled
  <2>8. \A w \in Lineage(v) : Handled(d, w) \/ w = v
    <3>1. CASE run[d].phase \in {"inbox", "pending"}
      <4>1. PICK h \in Base : h = manifest[v].parent
        BY <1>0, <1>2, ManifestFacts
      <4>2. files[d][PathOf(v)] = h
        BY <1>0, <1>1, <1>2, <3>1, <4>1 DEF RunOk, MoveOk, BaseOf, Receiving
      <4>3. Lineage(v) = {v} \union Lineage(h)
        BY <1>0, <1>2, <4>1, Lineages, Numbers DEF LineageInv
      <4>4. HandledTo(d, h)
        BY <1>0, <1>2, <4>2 DEF BaseOk
      <4>5. QED BY <4>3, <4>4 DEF HandledTo
    <3>2. CASE run[d].phase = "lineage"
      <4>1. PICK h \in Ids : h = run[d].remote
        BY <1>0, <3>2, Numbers DEF RunOk, ResolveOk, ResolvePhase
      <4>2. v \in Lineage(h) /\ \A w \in Lineage(h) : Handled(d, w) \/ w \in run[d].todo
        BY <1>0, <1>2, <3>2, <4>1 DEF RunOk, MoveOk
      <4>3. Lineage(v) \subseteq Lineage(h)
        BY <1>0, <4>2, Lineages DEF LineageInv
      <4>4. \A w \in Lineage(v) : w \in Nat /\ w <= v
        BY <1>0, <1>2, LineageIds, Numbers
      <4>5. v \in Nat
        BY <1>0, <1>2, Numbers
      <4>6. ASSUME NEW w \in Lineage(v), ~Handled(d, w) PROVE w = v
        <5>1. w \in run[d].todo /\ w \in Nat /\ w <= v
          BY <4>2, <4>3, <4>4, <4>6
        <5>2. v <= w
          BY <1>2, <5>1
        <5>3. QED BY <4>5, <5>1, <5>2
      <4>7. QED BY <4>6
    <3>3. CASE run[d].phase = "choice"
      <4>1. v = run[d].remote
        BY <1>0, <1>2, <3>3 DEF RunOk, ResolveOk
      <4>2. QED BY <1>0, <1>2, <3>3, <4>1 DEF RunOk, MoveOk, HandledTo
    <3>4. QED BY <1>2, <3>1, <3>2, <3>3 DEF ReceivePhase
  <2>9. \A u \in Ids \union {0} : (HandledTo(d, u) \/ u = v) => HandledTo(d, u)'
    <3>1. ASSUME NEW u \in Ids \union {0}, HandledTo(d, u) \/ u = v PROVE HandledTo(d, u)'
      <4>1. Lineage(u)' = Lineage(u) /\ \A w \in Lineage(u) : w \in Ids
        BY <2>6
      <4>2. \A w \in Lineage(u) : Handled(d, w) \/ w = v
        BY <2>8, <3>1 DEF HandledTo
      <4>3. QED BY <2>7, <4>1, <4>2 DEF HandledTo
    <3>2. QED BY <3>1
  <2>10. TypeOK'
    <3>1. /\ files' \in [Device -> [Path -> Base]] /\ versions' \in [Device -> SUBSET Version]
          /\ inbox' \in [Device -> [Version -> InboxPhase]]
      BY <1>0, <1>2, <2>2 DEF TypeOK, InboxPhase
    <3>2. QED BY <1>0, <2>2, <2>4, <2>6, <3>1 DEF TypeOK, Turned
  <2>11. Grows
    BY <1>0, <2>2, Numbers DEF Grows
  <2>12. HistoryInv'
    BY <1>0, <2>2, <2>6, Numbers DEF HistoryInv, ParentOk, PathOf
  <2>13. \A e \in Device \ {d} : Apart(e)
    BY <1>0, <2>2, <2>4, <2>6 DEF Apart, Still, Turned, TypeOK
  <2>14. IndexOk(d)'
    <3>1. outbox'[d] = outbox[d] /\ manifest' = manifest /\ published' = published
      BY <2>2
    <3>2. \A u \in outbox[d] \union versions'[d] : HasContent(d, u)'
      BY <1>0, <1>2, <2>2, <2>5 DEF IndexOk, HasContent, ContentOf
    <3>3. ASSUME NEW p \in Path, files'[d][p] # 0
          PROVE  /\ files'[d][p] \in published /\ files'[d][p] \in versions'[d]
                 /\ PathOf(files[d][p])' = p
      <4>1. CASE p = PathOf(v)
        BY <1>0, <1>2, <2>2, <2>5, <4>1 DEF TypeOK, PathOf
      <4>2. CASE p # PathOf(v)
        BY <1>0, <1>2, <2>2, <2>5, <3>3, <4>2 DEF TypeOK, PathOf, IndexOk
      <4>3. QED BY <4>1, <4>2
    <3>4. /\ \A u \in Version : inbox'[d][u] # "none" => u \in published
          /\ \A u \in Version : inbox'[d][u] = "APPLIED" => u \in versions'[d]
      BY <1>0, <1>2, <2>5 DEF IndexOk, TypeOK
    <3>5. versions'[d] \subseteq Ids
      BY <1>0, <1>2, <2>5 DEF IndexOk
    <3>6. QED BY <1>0, <2>6, <3>1, <3>2, <3>3, <3>4, <3>5 DEF IndexOk
  <2>15. BaseOk(d)'
    <3>1. ASSUME NEW p \in Path, NEW f \in Base, files'[d][p] = f PROVE HandledTo(d, f)'
      <4>1. f = v \/ files[d][p] = f
        BY <1>0, <2>5, <3>1 DEF TypeOK
      <4>2. files[d][p] = f => f \in Ids \union {0} /\ HandledTo(d, f)
        BY <1>0, Numbers DEF IndexOk, BaseOk
      <4>3. QED BY <1>2, <2>9, <4>1, <4>2
    <3>2. ASSUME NEW u \in Ids', NEW f \in Base, manifest'[u].origin = d, manifest'[u].parent = f
          PROVE  HandledTo(d, f)'
      <4>1. u \in Ids /\ manifest' = manifest
        BY <2>2, <2>6
      <4>2. f \in Ids \union {0}
        BY <1>0, <3>2, <4>1, Numbers DEF HistoryInv, ParentOk
      <4>3. QED BY <1>0, <2>9, <3>2, <4>1, <4>2 DEF BaseOk
    <3>3. QED BY <3>1, <3>2 DEF BaseOk
  <2>16. PublicationRemembered' /\ ReceiptMeansApplied'
    <3>1. \A e \in Device : versions[e] \subseteq versions'[e]
      BY <1>0, <2>2 DEF TypeOK
    <3>2. \A u \in Ids : manifest[u].origin \in Device
      BY <1>0, ManifestFacts
    <3>3. \A x \in receipts : x[2] \in Device
      BY <1>0 DEF TypeOK
    <3>4. PublicationRemembered'
      BY <1>0, <2>2, <3>1, <3>2, Numbers DEF PublicationRemembered
    <3>5. ReceiptMeansApplied'
      BY <1>0, <2>2, <3>1, <3>3 DEF ReceiptMeansApplied, ContentOf
    <3>6. QED BY <3>4, <3>5
  <2>17. RunOk(d)'
    <3> USE DEF ReceivePhase
    <3>1. PhaseOk(d)'
      BY <1>0, <1>2, <2>4 DEF RunOk, PhaseOk, Publishing, Receiving, Closing
    <3>2. TodoOk(d)'
      BY <1>0, <2>2, <2>4 DEF RunOk, TodoOk
    <3>3. CurOk(d)'
      BY <1>2, <2>2, <2>4, <2>5, <2>6 DEF CurOk, Publishing, Receiving, Closing
    <3>4. ResolveOk(d)'
      <4>1. ASSUME NEW p \in Path, NEW c \in Content, run[d].phase \in {"lineage", "choice"},
                   run[d].paths = {p}, a = c
            PROVE  Kept(d, p, c)'
        <5>1. CASE run[d].mode = "USE"
          <6>1. ContentOf(v) = c /\ p = PathOf(v) /\ c # NoFile
            BY <1>0, <1>2, <2>1, <4>1, <5>1, ClientAssumption DEF RunOk, ResolveOk
          <6>2. c \in cache[d]
            BY <1>2, <6>1 DEF HasContent
          <6>3. QED BY <1>2, <2>2, <2>5, <6>1, <6>2 DEF Kept, PathOf, ContentOf
        <5>2. CASE run[d].mode # "USE"
          <6>1. Kept(d, p, c)
            BY <1>0, <2>1, <4>1, <5>2 DEF RunOk, ResolveOk
          <6>2. QED BY <2>6, <6>1
        <5>3. QED BY <5>1, <5>2
      <4>2. QED BY <1>0, <1>2, <2>2, <2>4, <4>1 DEF RunOk, ResolveOk, PathOf, ResolvePhase
    <3>5. ReplaceOk(d)'
      BY <2>4 DEF ReplaceOk
    <3>6. MoveOk(d)'
      <4>1. ASSUME NEW h \in Ids, NEW f \in Base, run'[d].phase \in {"ask", "lineage", "choice"},
                   run'[d].remote = h, files'[d][PathOf(h)'] = f
            PROVE  f \in Lineage(h)' \union {0}
        <5>1. run[d].phase \in {"lineage", "choice"} /\ run[d].remote = h
          BY <1>2, <2>4, <4>1
        <5>2. PathOf(h) = PathOf(v)
          BY <1>0, <1>2, <5>1 DEF RunOk, ResolveOk, ResolvePhase
        <5>3. f = v
          BY <1>0, <1>2, <2>5, <2>6, <4>1, <5>2 DEF TypeOK
        <5>4. v \in Lineage(h)
          <6>1. CASE run[d].phase = "lineage"
            BY <1>0, <1>2, <5>1, <6>1 DEF RunOk, MoveOk
          <6>2. CASE run[d].phase = "choice"
            <7>1. v = h
              BY <1>0, <1>2, <5>1, <6>2 DEF RunOk, ResolveOk
            <7>2. PICK u \in Nat : u = manifest[h].parent
              BY <1>0, ManifestFacts, Numbers
            <7>3. QED BY <1>0, <7>1, <7>2, Lineages DEF LineageInv
          <6>3. QED BY <5>1, <6>1, <6>2
        <5>5. QED BY <2>6, <5>3, <5>4
      <4>2. ASSUME NEW h \in Ids, run'[d].phase = "lineage", run'[d].remote = h
            PROVE  /\ run'[d].todo \subseteq Lineage(h)'
                   /\ \A w \in Lineage(h)' : Handled(d, w)' \/ w \in run'[d].todo
                   /\ \A w \in run'[d].todo : ~ (<<w, d>> \in receipts')
        BY <1>0, <2>2, <2>4, <2>6, <2>7, <4>2 DEF RunOk, MoveOk
      <4>3. ASSUME NEW h \in Ids, run'[d].phase = "choice", run'[d].remote = h PROVE HandledTo(d, h)'
        BY <1>0, <2>4, <2>9, <4>3 DEF RunOk, MoveOk
      <4>4. QED BY <2>4, <2>6, <4>1, <4>2, <4>3 DEF MoveOk, Publishing, Receiving
    <3>7. QED BY <3>1, <3>2, <3>3, <3>4, <3>5, <3>6 DEF RunOk
  <2>18. QED BY <2>4, <2>10, <2>11, <2>12, <2>13, <2>14, <2>15, <2>16, <2>17, StepKeeps
<1>5. QED BY <1>3, <1>4

LEMMA ForgetKeeps == ASSUME ClientInv, NEW d \in Device, Forget(d) PROVE ClientInv'
<1>0. /\ TypeOK /\ HistoryInv /\ IndexOk(d) /\ BaseOk(d) /\ RunOk(d) /\ run[d].step = "forget"
      /\ PublicationRemembered /\ ReceiptMeansApplied
  BY DEF ClientInv, Forget, At
<1>1. PICK v : v = run[d].cur
  OBVIOUS
<1>2. /\ v \in Ids /\ v \in Base /\ v \in Version /\ v \in published
      /\ run[d].phase \in ReceivePhase /\ run[d].todo \subseteq published
      /\ <<v, d>> \in receipts
  BY <1>0, <1>1, ReceiveFacts DEF Closing
<1>3. /\ inbox' = [inbox EXCEPT ![d][v] = "none"]
      /\ UNCHANGED <<manifest, staged, published, heads, receipts, work, recovery, recycled, files,
                     outbox, versions, cache, edits, faults, verdict>>
  BY <1>1 DEF Forget, serverVars, folderVars, bounds
<1>4. /\ Turned(d) /\ SameAim(d) /\ run'[d].step = "next" /\ run'[d].cur = 0
      /\ run'[d].todo = run[d].todo \ {v} /\ run'[d].paths = run[d].paths
  BY <1>0, <1>1, ContinueRun DEF Forget
<1>5. inbox'[d] = [inbox[d] EXCEPT ![v] = "none"] /\ inbox'[d][v] = "none"
  BY <1>0, <1>2, <1>3 DEF TypeOK
<1>6. \A u \in Version : u # v => inbox'[d][u] = inbox[d][u]
  BY <1>0, <1>5 DEF TypeOK
<1>7. /\ Ids' = Ids /\ Ids \subseteq Base /\ Ids \subseteq Version /\ 0 \in Base /\ 0 \notin Ids
      /\ \A u \in Base : PathOf(u)' = PathOf(u) /\ Lineage(u)' = Lineage(u)
      /\ \A u \in Ids \union {0} : \A w \in Lineage(u) : w \in Ids
      /\ \A p \in Path, c \in Content : Kept(d, p, c)' = Kept(d, p, c)
  <2>1. \A p \in Path, c \in Content : Kept(d, p, c)' = Kept(d, p, c)
    BY <1>3 DEF Kept, PathOf, ContentOf
  <2>2. Ids' = Ids /\ \A u \in Base : PathOf(u)' = PathOf(u) /\ Lineage(u)' = Lineage(u)
    BY <1>3 DEF Ids, PathOf, Lineage
  <2>3. QED BY <1>0, <2>1, <2>2, Numbers, LineageIds
<1>8. \A u \in Ids : Handled(d, u)' = Handled(d, u)
  BY <1>2, <1>3, <1>6, <1>7 DEF Handled
<1>9. \A u \in Ids \union {0} : HandledTo(d, u)' = HandledTo(d, u)
  <2>1. ASSUME NEW u \in Ids \union {0} PROVE HandledTo(d, u)' = HandledTo(d, u)
    <3>1. Lineage(u)' = Lineage(u) /\ \A w \in Lineage(u) : w \in Ids
      BY <1>7
    <3>2. QED BY <1>8, <3>1 DEF HandledTo
  <2>2. QED BY <2>1
<1>10. TypeOK'
  <2>1. inbox' \in [Device -> [Version -> InboxPhase]]
    BY <1>0, <1>2, <1>3 DEF TypeOK, InboxPhase
  <2>2. QED BY <1>0, <1>3, <1>4, <1>7, <2>1 DEF TypeOK, Turned
<1>11. Grows
  BY <1>0, <1>3, Numbers DEF Grows
<1>12. HistoryInv'
  BY <1>0, <1>3, <1>7, Numbers DEF HistoryInv, ParentOk, PathOf
<1>13. \A e \in Device \ {d} : Apart(e)
  BY <1>0, <1>3, <1>4, <1>7 DEF Apart, Still, Turned, TypeOK
<1>14. IndexOk(d)'
  <2>1. \A u \in outbox[d] \union versions[d] : HasContent(d, u)'
    BY <1>0, <1>3 DEF IndexOk, HasContent, ContentOf
  <2>2. /\ \A u \in Version : inbox'[d][u] # "none" => u \in published
        /\ \A u \in Version : inbox'[d][u] = "APPLIED" => u \in versions[d]
    BY <1>0, <1>5, <1>6 DEF IndexOk
  <2>3. QED BY <1>0, <1>3, <1>7, <2>1, <2>2 DEF IndexOk, PathOf
<1>15. BaseOk(d)'
  <2>1. ASSUME NEW p \in Path, NEW f \in Base, files'[d][p] = f PROVE HandledTo(d, f)'
    <3>1. files[d][p] = f /\ f \in Ids \union {0}
      BY <1>0, <1>3, <2>1, Numbers DEF IndexOk
    <3>2. QED BY <1>0, <1>9, <3>1 DEF BaseOk
  <2>2. ASSUME NEW u \in Ids', NEW f \in Base, manifest'[u].origin = d, manifest'[u].parent = f
        PROVE  HandledTo(d, f)'
    <3>1. u \in Ids /\ manifest' = manifest
      BY <1>3, <1>7
    <3>2. f \in Ids \union {0}
      BY <1>0, <2>2, <3>1, Numbers DEF HistoryInv, ParentOk
    <3>3. QED BY <1>0, <1>9, <2>2, <3>1, <3>2 DEF BaseOk
  <2>3. QED BY <2>1, <2>2 DEF BaseOk
<1>16. PublicationRemembered' /\ ReceiptMeansApplied'
  BY <1>0, <1>3 DEF PublicationRemembered, ReceiptMeansApplied, ContentOf
<1>17. RunOk(d)'
  <2> USE DEF ReceivePhase
  <2>1. PhaseOk(d)'
    BY <1>0, <1>2, <1>4 DEF RunOk, PhaseOk, SameAim, Publishing, Receiving, Closing
  <2>2. TodoOk(d)'
    BY <1>0, <1>3, <1>4 DEF RunOk, TodoOk, SameAim
  <2>3. CurOk(d)'
    BY <1>4, <1>7 DEF CurOk
  <2>4. ResolveOk(d)'
    BY <1>0, <1>2, <1>3, <1>4, <1>7 DEF RunOk, ResolveOk, SameAim, PathOf, ResolvePhase
  <2>5. ReplaceOk(d)'
    BY <1>4 DEF ReplaceOk
  <2>6. MoveOk(d)'
    <3>1. ASSUME NEW h \in Ids, NEW f \in Base, run'[d].phase \in {"ask", "lineage", "choice"},
                 run'[d].remote = h, files'[d][PathOf(h)'] = f
          PROVE  f \in Lineage(h)' \union {0}
      BY <1>0, <1>3, <1>4, <1>7, <3>1 DEF RunOk, MoveOk, SameAim
    <3>2. ASSUME NEW h \in Ids, run'[d].phase = "lineage", run'[d].remote = h
          PROVE  /\ run'[d].todo \subseteq Lineage(h)'
                 /\ \A w \in Lineage(h)' : Handled(d, w)' \/ w \in run'[d].todo
                 /\ \A w \in run'[d].todo : ~ (<<w, d>> \in receipts')
      <4>1. Handled(d, v)
        BY <1>2 DEF Handled
      <4>2. QED BY <1>0, <1>1, <1>3, <1>4, <1>7, <1>8, <3>2, <4>1 DEF RunOk, MoveOk, SameAim
    <3>3. ASSUME NEW h \in Ids, run'[d].phase = "choice", run'[d].remote = h PROVE HandledTo(d, h)'
      BY <1>0, <1>4, <1>9, <3>3 DEF RunOk, MoveOk, SameAim
    <3>4. QED BY <1>4, <1>7, <3>1, <3>2, <3>3 DEF MoveOk
  <2>7. QED BY <2>1, <2>2, <2>3, <2>4, <2>5, <2>6 DEF RunOk
<1>18. QED BY <1>4, <1>10, <1>11, <1>12, <1>13, <1>14, <1>15, <1>16, <1>17, StepKeeps

-----------------------------------------------------------------------------
(* Resolving a conflict. *)

\* Outbox rows move to the history and copies are added; nothing else changes.
Moves(d, O, V, C) ==
    /\ outbox' = [outbox EXCEPT ![d] = O]
    /\ versions' = [versions EXCEPT ![d] = V]
    /\ recovery' = [recovery EXCEPT ![d] = C]
    /\ UNCHANGED <<manifest, staged, published, heads, receipts, work, recycled, files, inbox,
                   cache, edits, faults>>

LEMMA MovesKeep ==
    ASSUME ClientInv, NEW d \in Device, NEW O \in SUBSET Version, NEW V \in SUBSET Version,
           NEW C \in SUBSET (Path \X Content), Moves(d, O, V, C),
           O \subseteq outbox[d], versions[d] \subseteq V, V \subseteq versions[d] \union outbox[d],
           outbox[d] \subseteq O \union V, Turned(d), RunOk(d)',
           verdict' \in [Device -> {"none", "running", "done", "refused", "conflict"}]
    PROVE  ClientInv'
<1>0. /\ TypeOK /\ HistoryInv /\ IndexOk(d) /\ BaseOk(d)
      /\ PublicationRemembered /\ ReceiptMeansApplied
  BY DEF ClientInv
<1>1. /\ Ids' = Ids
      /\ \A u \in Base : PathOf(u)' = PathOf(u) /\ Lineage(u)' = Lineage(u)
      /\ \A u \in Base : HandledTo(d, u)' = HandledTo(d, u)
  BY DEF Moves, Ids, PathOf, Lineage, HandledTo, Handled
<1>2. outbox'[d] = O /\ versions'[d] = V
  BY <1>0 DEF Moves, TypeOK
<1>3. TypeOK'
  BY <1>0, <1>1 DEF TypeOK, Moves, Turned
<1>4. Grows
  BY <1>0, Numbers DEF Grows, Moves
<1>5. HistoryInv'
  BY <1>0, <1>1, Numbers DEF HistoryInv, ParentOk, PathOf, Moves
<1>6. \A e \in Device \ {d} : Apart(e)
  BY <1>0, <1>1 DEF Apart, Still, Turned, TypeOK, Moves
<1>7. IndexOk(d)'
  <2>1. \A u \in O \union V : HasContent(d, u)'
    BY <1>0 DEF IndexOk, HasContent, ContentOf, Moves
  <2>2. O \subseteq Ids /\ V \subseteq Ids /\ \A u \in O : manifest[u].origin = d
    BY <1>0 DEF IndexOk
  <2>3. manifest' = manifest /\ files' = files /\ inbox' = inbox /\ published' = published
    BY DEF Moves
  <2>4. \A u \in Version : inbox[d][u] = "APPLIED" => u \in V
    BY <1>0 DEF IndexOk
  <2>5. \A p \in Path : files[d][p] # 0 =>
          files[d][p] \in published \intersect V /\ PathOf(files[d][p])' = p
    BY <1>0, <2>3 DEF IndexOk, PathOf
  <2>6. QED BY <1>0, <1>1, <1>2, <2>1, <2>2, <2>3, <2>4, <2>5 DEF IndexOk
<1>8. BaseOk(d)'
  BY <1>0, <1>1 DEF BaseOk, Moves
<1>9. PublicationRemembered'
  <2>1. \A e \in Device : outbox[e] \union versions[e] \subseteq outbox'[e] \union versions'[e]
    BY <1>0 DEF Moves, TypeOK
  <2>2. \A u \in Ids : manifest[u].origin \in Device
    BY <1>0, ManifestFacts
  <2>3. QED BY <1>0, <2>1, <2>2, Numbers DEF PublicationRemembered, Moves
<1>10. ReceiptMeansApplied'
  <2>1. \A e \in Device : /\ outbox[e] \subseteq outbox'[e] \union versions'[e]
                          /\ versions[e] \subseteq versions'[e]
    BY <1>0 DEF Moves, TypeOK
  <2>2. \A x \in receipts : x[2] \in Device
    BY <1>0 DEF TypeOK
  <2>3. QED BY <1>0, <2>1, <2>2 DEF ReceiptMeansApplied, ContentOf, Moves
<1>11. QED BY <1>3, <1>4, <1>5, <1>6, <1>7, <1>8, <1>9, <1>10, StepKeeps

LEMMA ResolveKeeps ==
    ASSUME ClientInv, NEW d \in Device, NEW p \in Path, NEW m \in {"KEEP", "USE"}, Resolve(d, p, m)
    PROVE  ClientInv'
<1>0. TypeOK /\ HistoryInv /\ IndexOk(d)
  BY DEF ClientInv
<1>1. PICK a \in Local : a = work[d][p]
  BY <1>0 DEF TypeOK
<1>2. PICK h \in Base : h = heads[p]
  BY <1>0 DEF TypeOK
<1>3. h # 0 /\ h \in published /\ PathOf(h) = p /\ h \in Ids
  <2>1. h # 0
    BY <1>2 DEF Resolve, Classify
  <2>2. QED BY <1>0, <1>2, <2>1, Numbers DEF HistoryInv
<1> DEFINE r == [Idle EXCEPT !.mode = m, !.phase = "ask", !.paths = {p},
                             !.remote = h, !.accepted = a]
           C == recovery[d] \union ({<<p, a>>} \ {<<p, NoFile>>})
<1>4. /\ run' = [run EXCEPT ![d] = r] /\ recovery' = [recovery EXCEPT ![d] = C]
      /\ verdict' = [verdict EXCEPT ![d] = "running"]
      /\ UNCHANGED <<manifest, staged, published, heads, receipts, work, recycled, files, outbox,
                     inbox, versions, cache, edits, faults>>
  BY <1>1, <1>2 DEF Resolve, Backup, serverVars, indexVars, bounds
<1>5. /\ Turned(d) /\ run'[d].phase = "ask" /\ run'[d].step = "next" /\ run'[d].mode = m
      /\ run'[d].todo = {} /\ run'[d].paths = {p} /\ run'[d].remote = h /\ run'[d].accepted = a
      /\ run'[d].cur = 0
  <2>1. /\ r \in Run /\ r.phase = "ask" /\ r.step = "next" /\ r.mode = m
        /\ r.todo = {} /\ r.paths = {p} /\ r.remote = h /\ r.accepted = a /\ r.cur = 0
    <3>1. 0 \in Base /\ NoFile \in Local
      BY <1>0, Numbers DEF Local
    <3>2. QED BY <3>1 DEF Run, Idle, Mode
  <2> HIDE DEF r
  <2>2. QED BY <1>0, <1>4, <2>1, TurnedTo
<1> HIDE DEF r
<1>6. C \in SUBSET (Path \X Content)
  BY <1>0 DEF TypeOK, Local
<1>7. recovery'[d] = C
  BY <1>0, <1>4 DEF TypeOK
<1>8. a \in Content => <<p, a>> \in recovery'[d]
  BY <1>7, ClientAssumption
<1> HIDE DEF C
<1>9. \A f \in Base : files[d][p] = f => f \in Lineage(h) \union {0}
  <2>1. ASSUME NEW f \in Base, files[d][p] = f, f # 0 PROVE f \in Lineage(h)
    <3>1. f \in published /\ PathOf(f) = p
      BY <1>0, <2>1 DEF IndexOk
    <3>2. QED BY <1>0, <1>2, <3>1 DEF HistoryInv
  <2>2. QED BY <2>1
<1>10. Ids' = Ids /\ Ids \subseteq Base /\ 0 \notin Ids
       /\ \A u \in Base : PathOf(u)' = PathOf(u) /\ Lineage(u)' = Lineage(u)
  <2>1. Ids' = Ids /\ \A u \in Base : PathOf(u)' = PathOf(u) /\ Lineage(u)' = Lineage(u)
    BY <1>4 DEF Ids, PathOf, Lineage
  <2>2. QED BY <1>0, <2>1, Numbers
<1>11. RunOk(d)'
  <2>1. PhaseOk(d)' /\ TodoOk(d)' /\ ReplaceOk(d)' /\ CurOk(d)'
    BY <1>5 DEF PhaseOk, TodoOk, ReplaceOk, CurOk, Publishing, Receiving, Closing, ResolvePhase,
       ReceivePhase
  <2>2. ResolveOk(d)'
    <3>1. run'[d].remote \in published' /\ run'[d].paths = {PathOf(run[d].remote)'}
      BY <1>3, <1>4, <1>5 DEF PathOf
    <3>2. \A q \in Path, c \in Content : {p} = {q} /\ a = c => Kept(d, q, c)'
      BY <1>8 DEF Kept
    <3>3. QED BY <1>5, <3>1, <3>2 DEF ResolveOk
  <2>3. MoveOk(d)'
    <3>1. ASSUME NEW g \in Ids, NEW f \in Base, run'[d].remote = g, files'[d][PathOf(g)'] = f
          PROVE  f \in Lineage(g)' \union {0}
      BY <1>3, <1>4, <1>5, <1>9, <1>10, <3>1
    <3>2. QED BY <1>5, <1>10, <3>1 DEF MoveOk, Publishing, Receiving
  <2>4. QED BY <2>1, <2>2, <2>3 DEF RunOk
<1>12. Moves(d, outbox[d], versions[d], C)
  BY <1>0, <1>4 DEF Moves, TypeOK
<1>13. outbox[d] \in SUBSET Version /\ versions[d] \in SUBSET Version
  BY <1>0 DEF TypeOK
<1>14. verdict' \in [Device -> {"none", "running", "done", "refused", "conflict"}]
  BY <1>0, <1>4 DEF TypeOK
<1>15. QED BY <1>5, <1>6, <1>11, <1>12, <1>13, <1>14, MovesKeep DEF Moves

LEMMA NewestFacts ==
    ASSUME NEW T, T \subseteq Version, T # {}
    PROVE  Newest(T) \in T /\ \A x \in T : x <= Newest(T)
<1> DEFINE S == {MaxVersions - x : x \in T}
<1>1. \A x \in T : x \in Nat /\ x <= MaxVersions /\ MaxVersions - x \in Nat
  BY ClientAssumption DEF Version
<1>2. S \subseteq Nat /\ S # {}
  BY <1>1
<1>3. PICK s \in S : \A y \in S : s <= y
  BY <1>2, LeastNat
<1>4. PICK x \in T : s = MaxVersions - x
  OBVIOUS
<1>5. ASSUME NEW y \in T PROVE y <= x
  <2>1. MaxVersions - x <= MaxVersions - y
    BY <1>3, <1>4
  <2>2. x \in Nat /\ y \in Nat /\ MaxVersions \in Nat
    BY <1>1, ClientAssumption
  <2>3. QED BY <2>1, <2>2
<1>6. \E z \in T : \A y \in T : y <= z
  BY <1>5
<1>7. QED BY <1>6 DEF Newest

\* The versions of the path without a receipt lie on the lineage of the newest.
LEMMA MissedVersions ==
    ASSUME TypeOK, HistoryInv, NEW d \in Device, NEW p \in Path, NEW h \in published, PathOf(h) = p,
           NEW V, V = {v \in Pending(d) : PathOf(v) = p}, V = {} \/ Newest(V) = h
    PROVE  /\ V \subseteq Lineage(h) /\ V \subseteq published /\ V \in SUBSET Version
           /\ \A w \in Lineage(h) : Handled(d, w) \/ w \in V
           /\ \A w \in V : PathOf(w) = p /\ ~ (<<w, d>> \in receipts)
<1>1. /\ V \subseteq published /\ V \in SUBSET Version
      /\ \A w \in V : PathOf(w) = p /\ ~ (<<w, d>> \in receipts)
  BY Numbers DEF Pending
<1>2. ASSUME NEW w \in Lineage(h) PROVE Handled(d, w) \/ w \in V
  <2>1. w \in published /\ PathOf(w) = p
    BY LineagePublished
  <2>2. QED BY <2>1 DEF Handled, Pending
<1>3. ASSUME NEW v \in V PROVE v \in Lineage(h)
  <2>1. h \in V /\ v <= h /\ h \in Nat /\ v \in Nat
    BY <1>1, NewestFacts, Numbers
  <2>2. PICK g \in Base : g = heads[p]
    BY DEF TypeOK
  <2>3. v \in Lineage(g) /\ h \in Lineage(g)
    BY <1>1, <2>1, <2>2 DEF HistoryInv
  <2>4. g # 0 /\ g \in Ids
    <3>1. Lineage(0) = {}
      BY Lineages DEF LineageInv
    <3>2. g # 0
      BY <2>3, <3>1
    <3>3. QED BY <2>2, <3>2, Numbers DEF HistoryInv
  <2>5. v \in Lineage(h) \/ h \in Lineage(v)
    BY <2>3, <2>4, Lineages DEF LineageInv
  <2>6. h \in Lineage(v) => h = v
    <3>1. ASSUME h \in Lineage(v) PROVE h = v
      <4>1. v \in Ids
        BY <1>1, Numbers
      <4>2. h <= v
        BY <3>1, <4>1, LineageIds
      <4>3. QED BY <2>1, <4>2
    <3>2. QED BY <3>1
  <2>7. QED BY <2>5, <2>6
<1>4. QED BY <1>1, <1>2, <1>3

\* The next stage of a resolution.
LEMMA StageKeeps ==
    ASSUME ClientInv, NEW d \in Device, NEW ph \in {"lineage", "choice"}, NEW V \in SUBSET Version,
           Enter(d, ph, V, run[d].paths), Quiet, UNCHANGED <<work, recycled, edits, faults, verdict>>,
           run[d].phase \in {"ask", "lineage"}, run[d].step = "next", V \subseteq published,
           \A w \in V : run[d].paths = {PathOf(w)},
           ph = "choice" => V \subseteq {run[d].remote} /\ HandledTo(d, run[d].remote),
           ph = "lineage" => /\ V \subseteq Lineage(run[d].remote)
                             /\ \A w \in Lineage(run[d].remote) : Handled(d, w) \/ w \in V
                             /\ \A w \in V : ~ (<<w, d>> \in receipts)
    PROVE  ClientInv'
<1>0. TypeOK /\ RunOk(d)
  BY DEF ClientInv
<1>1. PICK P : P = run[d].paths
  OBVIOUS
<1>2. /\ Turned(d) /\ run'[d].mode = run[d].mode /\ run'[d].phase = ph
      /\ run'[d].remote = run[d].remote /\ run'[d].accepted = run[d].accepted
      /\ run'[d].step = "next" /\ run'[d].todo = V /\ run'[d].paths = run[d].paths
  <2>1. P \in SUBSET Path /\ ph \in Phase
    BY <1>0, <1>1, RunFacts DEF Phase
  <2>2. Enter(d, ph, V, P)
    BY <1>1
  <2>3. QED BY <1>0, <1>1, <2>1, <2>2, EnterRun
<1>3. PICK h : h = run[d].remote
  OBVIOUS
<1>4. h \in published /\ h \in Ids /\ run[d].paths = {PathOf(h)}
  BY <1>0, <1>3, Numbers DEF RunOk, ResolveOk, ResolvePhase
<1>5. /\ Ids' = Ids /\ Ids \subseteq Base /\ 0 \notin Ids
      /\ \A u \in Base : PathOf(u)' = PathOf(u) /\ Lineage(u)' = Lineage(u)
      /\ \A u \in Base : Handled(d, u)' = Handled(d, u) /\ HandledTo(d, u)' = HandledTo(d, u)
      /\ \A p \in Path, c \in Content : Kept(d, p, c)' = Kept(d, p, c)
      /\ \A w \in Lineage(h) : w \in Base
  BY <1>0, <1>4, CalmFacts, Numbers, LineageIds DEF Quiet, ClientInv
<1>6. UNCHANGED <<manifest, published, receipts, files>>
  BY DEF Quiet, Calm, indexVars
<1>7. RunOk(d)'
  <2>1. PhaseOk(d)' /\ TodoOk(d)' /\ ReplaceOk(d)'
    BY <1>0, <1>2, <1>6 DEF RunOk, PhaseOk, TodoOk, ReplaceOk, Publishing, Receiving, Closing,
       ResolvePhase, ReceivePhase
  <2>2. CurOk(d)'
    BY <1>2 DEF CurOk, Publishing, Receiving, Closing
  <2>3. ResolveOk(d)'
    <3>1. run'[d].remote \in published' /\ run'[d].paths = {PathOf(run[d].remote)'}
      BY <1>2, <1>3, <1>4, <1>6 DEF PathOf
    <3>2. \A w \in V : run'[d].paths = {PathOf(w)'}
      BY <1>2, <1>6 DEF PathOf
    <3>3. \A p \in Path, c \in Content :
             run'[d].paths = {p} /\ run'[d].accepted = c => Kept(d, p, c)'
      BY <1>0, <1>2, <1>5 DEF RunOk, ResolveOk
    <3>4. QED BY <1>2, <3>1, <3>2, <3>3 DEF ResolveOk
  <2>4. MoveOk(d)'
    <3>1. ASSUME NEW g \in Ids, NEW f \in Base, run'[d].remote = g, files'[d][PathOf(g)'] = f
          PROVE  f \in Lineage(g)' \union {0}
      BY <1>0, <1>2, <1>5, <1>6, <3>1 DEF RunOk, MoveOk
    <3>2. ASSUME ph = "lineage"
          PROVE  /\ V \subseteq Lineage(h)' /\ \A w \in Lineage(h)' : Handled(d, w)' \/ w \in V
                 /\ \A w \in V : ~ (<<w, d>> \in receipts')
      BY <1>3, <1>4, <1>5, <1>6, <3>2
    <3>3. ph = "choice" => HandledTo(d, h)'
      BY <1>3, <1>4, <1>5
    <3>4. QED BY <1>2, <1>3, <1>5, <3>1, <3>2, <3>3 DEF MoveOk, Publishing, Receiving
  <2>5. QED BY <2>1, <2>2, <2>3, <2>4 DEF RunOk
<1>8. TypeOK'
  BY <1>0, <1>2, QuietType DEF TypeOK, Turned
<1>9. QED BY <1>2, <1>7, <1>8, QuietKeeps

LEMMA AskLineageKeeps == ASSUME ClientInv, NEW d \in Device, AskLineage(d) PROVE ClientInv'
<1>0. /\ TypeOK /\ HistoryInv /\ RunOk(d) /\ run[d].step = "next" /\ run[d].phase = "ask"
  BY DEF ClientInv, AskLineage, At
<1>1. PICK h : h = run[d].remote
  OBVIOUS
<1>2. h \in published /\ h \in Ids /\ run[d].paths = {PathOf(h)} /\ PathOf(h) \in Path
  BY <1>0, <1>1, Numbers, ManifestFacts DEF RunOk, ResolveOk, ResolvePhase
<1>3. PICK V : V = {v \in Pending(d) : PathOf(v) \in run[d].paths}
  OBVIOUS
<1>4. V = {v \in Pending(d) : PathOf(v) = PathOf(h)}
  BY <1>2, <1>3
<1>5. CASE Fail(d, "conflict")
  BY <1>5, FailKeeps
<1>6. CASE /\ V = {} \/ Newest(V) = h
           /\ Enter(d, "lineage", V, run[d].paths)
           /\ UNCHANGED <<manifest, serverVars, folderVars, indexVars, cache, bounds, verdict>>
  <2>1. Quiet /\ UNCHANGED <<work, recycled, edits, faults, verdict>>
    BY <1>6 DEF Quiet, Calm, serverVars, folderVars, indexVars, bounds
  <2>2. /\ V \subseteq Lineage(h) /\ V \subseteq published /\ V \in SUBSET Version
        /\ \A w \in Lineage(h) : Handled(d, w) \/ w \in V
        /\ \A w \in V : PathOf(w) = PathOf(h) /\ ~ (<<w, d>> \in receipts)
    BY <1>0, <1>2, <1>4, <1>6, MissedVersions, SMTT(20)
  <2>3. QED BY <1>0, <1>1, <1>2, <1>6, <2>1, <2>2, StageKeeps
<1>7. QED BY <1>1, <1>3, <1>5, <1>6 DEF AskLineage

LEMMA AcceptRemoteKeeps == ASSUME ClientInv, NEW d \in Device, AcceptRemote(d) PROVE ClientInv'
<1>0. /\ TypeOK /\ HistoryInv /\ RunOk(d) /\ run[d].step = "next" /\ run[d].phase = "lineage"
      /\ run[d].todo = {} /\ Enter(d, "choice", {run[d].remote}, run[d].paths)
      /\ Quiet /\ UNCHANGED <<work, recycled, edits, faults, verdict>>
  BY DEF ClientInv, AcceptRemote, At, Quiet, Calm, serverVars, folderVars, indexVars, bounds
<1>1. PICK h : h = run[d].remote
  OBVIOUS
<1>2. h \in published /\ h \in Ids /\ h \in Version /\ run[d].paths = {PathOf(h)}
  BY <1>0, <1>1, Numbers DEF RunOk, ResolveOk, ResolvePhase
<1>3. HandledTo(d, h)
  BY <1>0, <1>1, <1>2 DEF RunOk, MoveOk, HandledTo
<1>4. {h} \in SUBSET Version /\ {h} \subseteq published /\ Enter(d, "choice", {h}, run[d].paths)
  BY <1>0, <1>1, <1>2
<1>5. QED BY <1>0, <1>1, <1>2, <1>3, <1>4, StageKeeps

LEMMA RetireOutboxKeeps == ASSUME ClientInv, NEW d \in Device, RetireOutbox(d) PROVE ClientInv'
<1>0. /\ TypeOK /\ RunOk(d) /\ run[d].step = "next" /\ run[d].phase = "choice"
      /\ Enter(d, "drop", {}, run[d].paths)
      /\ versions' = [versions EXCEPT ![d] = @ \union RowsOfPath(d)]
      /\ UNCHANGED <<manifest, staged, published, heads, receipts, work, recovery, recycled, files,
                     outbox, inbox, cache, edits, faults, verdict>>
  BY DEF ClientInv, RetireOutbox, At, serverVars, folderVars, bounds
<1>1. PICK P \in SUBSET Path : P = run[d].paths
  BY <1>0, RunFacts
<1>2. /\ Turned(d) /\ run'[d].mode = run[d].mode /\ run'[d].phase = "drop"
      /\ run'[d].remote = run[d].remote /\ run'[d].step = "next" /\ run'[d].paths = run[d].paths
  <2>1. "drop" \in Phase /\ {} \in SUBSET Version /\ Enter(d, "drop", {}, P)
    BY <1>0, <1>1 DEF Phase
  <2>2. QED BY <1>0, <1>1, <2>1, EnterRun
<1>3. PICK V : V = versions[d] \union RowsOfPath(d)
  OBVIOUS
<1>4. /\ V \in SUBSET Version /\ V \subseteq versions[d] \union outbox[d] /\ versions[d] \subseteq V
      /\ RowsOfPath(d) \subseteq V
  BY <1>0, <1>3 DEF RowsOfPath, TypeOK
<1>5. Moves(d, outbox[d], V, recovery[d])
  BY <1>0, <1>3 DEF Moves, TypeOK
<1>6. RunOk(d)'
  <2>1. PhaseOk(d)' /\ TodoOk(d)' /\ ReplaceOk(d)' /\ CurOk(d)'
    BY <1>0, <1>2 DEF RunOk, PhaseOk, TodoOk, ReplaceOk, CurOk, Publishing, Receiving, Closing,
       ResolvePhase, ReceivePhase
  <2>2. ResolveOk(d)'
    <3>1. run'[d].remote \in published' /\ run'[d].paths = {PathOf(run[d].remote)'}
      BY <1>0, <1>2 DEF RunOk, ResolveOk, ResolvePhase, PathOf
    <3>2. RowsOfPath(d)' = RowsOfPath(d) /\ versions'[d] = V
      BY <1>0, <1>2, <1>3 DEF RowsOfPath, PathOf, TypeOK
    <3>3. QED BY <1>2, <1>4, <3>1, <3>2 DEF ResolveOk
  <2>3. MoveOk(d)'
    BY <1>2 DEF MoveOk, Publishing, Receiving
  <2>4. QED BY <2>1, <2>2, <2>3 DEF RunOk
<1>7. /\ outbox[d] \in SUBSET Version /\ recovery[d] \in SUBSET (Path \X Content)
      /\ verdict' \in [Device -> {"none", "running", "done", "refused", "conflict"}]
  BY <1>0 DEF TypeOK
<1>8. QED BY <1>2, <1>4, <1>5, <1>6, <1>7, MovesKeep DEF Moves

LEMMA DropOutboxKeeps == ASSUME ClientInv, NEW d \in Device, DropOutbox(d) PROVE ClientInv'
<1>0. /\ TypeOK /\ RunOk(d) /\ run[d].step = "next" /\ run[d].phase = "drop"
      /\ outbox' = [outbox EXCEPT ![d] = @ \ RowsOfPath(d)]
      /\ UNCHANGED <<manifest, staged, published, heads, receipts, work, recovery, recycled, files,
                     inbox, versions, cache, edits, faults>>
  BY DEF ClientInv, DropOutbox, At, serverVars, folderVars, bounds
<1>1. PICK P \in SUBSET Path : P = run[d].paths
  BY <1>0, RunFacts
<1>2. PICK O : O = outbox[d] \ RowsOfPath(d)
  OBVIOUS
<1>3. RowsOfPath(d) \subseteq versions[d]
  BY <1>0 DEF RunOk, ResolveOk
<1>4. /\ O \in SUBSET Version /\ O \subseteq outbox[d] /\ outbox[d] \subseteq O \union versions[d]
      /\ versions[d] \in SUBSET Version /\ recovery[d] \in SUBSET (Path \X Content)
  BY <1>0, <1>2, <1>3 DEF TypeOK
<1>5. Moves(d, O, versions[d], recovery[d])
  BY <1>0, <1>2 DEF Moves, TypeOK
<1>6. ASSUME Turned(d), RunOk(d)',
             verdict' \in [Device -> {"none", "running", "done", "refused", "conflict"}]
      PROVE  ClientInv'
  BY <1>4, <1>5, <1>6, MovesKeep DEF Moves
<1>7. CASE End(d, "done")
  <2>1. Turned(d) /\ RunOk(d)'
    BY <1>0, <1>7, EndRun, RestingRun
  <2>2. verdict' \in [Device -> {"none", "running", "done", "refused", "conflict"}]
    BY <1>0, <1>7, EndTypes DEF End
  <2>3. QED BY <1>6, <2>1, <2>2
<1>8. CASE ~End(d, "done")
  <2>1. PICK ph \in {"deletions", "scan"} : Enter(d, ph, {}, P) /\ verdict' = verdict
    BY <1>1, <1>8 DEF DropOutbox
  <2>2. Turned(d) /\ run'[d].phase = ph /\ run'[d].step = "next"
    <3>1. ph \in Phase /\ {} \in SUBSET Version
      BY DEF Phase
    <3>2. QED BY <1>0, <2>1, <3>1, EnterRun
  <2>3. RunOk(d)'
    BY <2>2, PlainRun DEF ResolvePhase
  <2>4. QED BY <1>0, <1>6, <2>1, <2>2, <2>3 DEF TypeOK
<1>9. QED BY <1>7, <1>8

-----------------------------------------------------------------------------
(* The invariant. *)

LEMMA InitHolds == Init => ClientInv
<1> SUFFICES ASSUME Init PROVE ClientInv
  OBVIOUS
<1>1. Len(manifest) = 0 /\ Ids = {}
  BY DEF Init, Ids
<1>2. TypeOK
  <2>1. manifest \in Seq(Manifest) /\ Len(manifest) <= MaxVersions
    BY <1>1, ClientAssumption DEF Init
  <2>2. run \in [Device -> Run]
    <3>1. 0 \in Base /\ NoFile \in Local
      BY ClientAssumption DEF Base, Local
    <3>2. Idle \in Run
      BY <3>1 DEF Idle, Run
    <3>3. QED BY <3>2 DEF Init
  <2>3. 0 \in Base /\ 0 \in 0 .. MaxEdits /\ 0 \in 0 .. MaxFaults
    BY ClientAssumption DEF Base
  <2>4. work \in [Device -> [Path -> Local]]
    BY DEF Init, Local
  <2>5. QED BY <2>1, <2>2, <2>3, <2>4 DEF Init, TypeOK, InboxPhase
<1>3. HistoryInv /\ PublicationRemembered /\ ReceiptMeansApplied
  BY <1>1 DEF Init, HistoryInv, PublicationRemembered, ReceiptMeansApplied
<1>4. ASSUME NEW d \in Device PROVE IndexOk(d) /\ BaseOk(d) /\ RunOk(d)
  <2>1. IndexOk(d)
    BY DEF Init, IndexOk
  <2>2. HandledTo(d, 0)
    BY <1>2, <1>3, Lineages DEF LineageInv, HandledTo
  <2>3. BaseOk(d)
    BY <1>1, <2>2 DEF Init, BaseOk
  <2>4. run[d].phase = "idle" /\ run[d].step = "next"
    BY DEF Init, Idle
  <2>5. RunOk(d)
    BY <2>4 DEF RunOk, PhaseOk, TodoOk, CurOk, ResolveOk, ReplaceOk, MoveOk, Publishing, Receiving,
       Closing, ReceivePhase, ResolvePhase
  <2>6. QED BY <2>1, <2>3, <2>5
<1>5. QED BY <1>2, <1>3, <1>4 DEF ClientInv

LEMMA PublishKeeps == ASSUME ClientInv, NEW d \in Device, Publish(d) PROVE ClientInv'
BY RepublishKeeps, PrepareKeeps, CommitKeeps, RecordKeeps DEF Publish

LEMMA PullKeeps == ASSUME ClientInv, NEW d \in Device, Pull(d) PROVE ClientInv'
<1>1. CASE Receive(d) \/ Fetch(d) \/ Recheck(d)
  BY <1>1, ReceiveKeeps, FetchKeeps, RecheckKeeps
<1>2. CASE Replace(d) \/ Recycle(d) \/ Settle(d)
  BY <1>2, ReplaceKeeps, RecycleKeeps, SettleKeeps
<1>3. CASE Acknowledge(d) \/ Forget(d)
  BY <1>3, AcknowledgeKeeps, ForgetKeeps
<1>4. QED BY <1>1, <1>2, <1>3 DEF Pull

LEMMA ResolveStepKeeps == ASSUME ClientInv, NEW d \in Device, ResolveStep(d) PROVE ClientInv'
BY AskLineageKeeps, AcceptRemoteKeeps, RetireOutboxKeeps, DropOutboxKeeps DEF ResolveStep

LEMMA NextKeeps == ClientInv /\ [Next]_vars => ClientInv'
<1> SUFFICES ASSUME ClientInv, [Next]_vars PROVE ClientInv'
  OBVIOUS
<1>1. CASE UNCHANGED vars
  <2>1. /\ TypeOK /\ HistoryInv /\ Quiet
        /\ UNCHANGED <<run, work, recycled, edits, faults, verdict>>
    BY <1>1 DEF ClientInv, Quiet, Calm, vars, serverVars, indexVars, folderVars, bounds
  <2>2. TypeOK'
    BY <2>1, QuietType DEF TypeOK
  <2>3. Grows
    BY <2>1, Numbers DEF Grows, Quiet, Calm
  <2>4. HistoryInv'
    <3>1. Ids' = Ids /\ \A v \in Base : PathOf(v)' = PathOf(v) /\ Lineage(v)' = Lineage(v)
      BY <2>1, CalmFacts DEF Quiet
    <3>2. QED BY <2>1, <3>1, Numbers DEF HistoryInv, ParentOk, PathOf, Quiet, Calm
  <2>5. \A e \in Device : Apart(e)
    BY <2>1 DEF Apart, Still, Ids, Quiet, Calm, indexVars
  <2>6. \A e \in Device : IndexOk(e)' /\ BaseOk(e)' /\ RunOk(e)'
    BY <2>1, <2>2, <2>3, <2>4, <2>5, ApartKeeps DEF ClientInv
  <2>7. PublicationRemembered' /\ ReceiptMeansApplied'
    BY <2>1 DEF ClientInv, PublicationRemembered, ReceiptMeansApplied, ContentOf, Quiet, Calm, indexVars
  <2>8. QED BY <2>2, <2>4, <2>6, <2>7 DEF ClientInv
<1>2. ASSUME NEW d \in Device, NEW m \in {"RUN", "PUSH", "PULL"}, Start(d, m) PROVE ClientInv'
  BY <1>2, StartKeeps
<1>3. ASSUME NEW d \in Device, NextPhase(d) \/ Stop(d) PROVE ClientInv'
  BY <1>3, NextPhaseKeeps, StopKeeps
<1>4. ASSUME NEW d \in Device, Publish(d) \/ Pull(d) \/ ResolveStep(d) PROVE ClientInv'
  BY <1>4, PublishKeeps, PullKeeps, ResolveStepKeeps
<1>5. ASSUME NEW d \in Device, NEW p \in Path, ScanFile(d, p) \/ PushDeletion(d, p) PROVE ClientInv'
  BY <1>5, ScanFileKeeps, PushDeletionKeeps
<1>6. ASSUME NEW d \in Device, NEW p \in Path, NEW m \in {"KEEP", "USE"}, Resolve(d, p, m)
      PROVE  ClientInv'
  BY <1>6, ResolveKeeps
<1>7. ASSUME NEW d \in Device, NEW p \in Path, NEW c \in Local, Edit(d, p, c) PROVE ClientInv'
  BY <1>7, EditKeeps
<1>8. QED BY <1>1, <1>2, <1>3, <1>4, <1>5, <1>6, <1>7 DEF Next

LEMMA ClientAlways == Spec => []ClientInv
BY InitHolds, NextKeeps, PTL DEF Spec

-----------------------------------------------------------------------------
(* Theorems. *)

\* Every table, copy, receipt and run of a device, and every number of the
\* server, is of its kind, whatever interrupts the procedures of sync_client.c.
THEOREM ClientTypeCorrect == Spec => []TypeOK
BY ClientAlways, PTL DEF ClientInv

\* The author of a version that was prepared or published has it in its outbox
\* or its history: the outbox row is written before the server hears of the
\* version, and a resolution copies the row to the versions before it goes
\* (publish_mode 165-255, resolve 716-717).
THEOREM Remembered == Spec => []PublicationRemembered
BY ClientAlways, PTL DEF ClientInv

\* Whoever has a receipt for a version has its content in the cache and the
\* version in its history, or in its outbox when it is the author: the receipt
\* is sent after the index is settled (receive_one 442-445, acknowledge 322-338).
THEOREM ReceiptsMeanApplied == Spec => []ReceiptMeansApplied
BY ClientAlways, PTL DEF ClientInv

LEMMA HistoryHolds == ClientInv => BaseOnHistory
<1> SUFFICES ASSUME ClientInv, NEW d \in Device, NEW p \in Path, files[d][p] # 0
             PROVE  files[d][p] \in Lineage(heads[p])
  BY DEF BaseOnHistory
<1>1. TypeOK /\ HistoryInv /\ IndexOk(d)
  BY DEF ClientInv
<1>2. files[d][p] \in published /\ PathOf(files[d][p]) = p
  BY <1>1 DEF IndexOk
<1>3. PICK h \in Base : h = heads[p]
  BY <1>1 DEF TypeOK
<1>4. QED BY <1>1, <1>2, <1>3 DEF HistoryInv

\* A device is based on a version that the head of the path descends from: a
\* commit extends the history only at its head, and what a device records was
\* published (head_save 144-164).
THEOREM BasesOnHistory == Spec => []BaseOnHistory
BY ClientAlways, HistoryHolds, PTL

\* Working files change by an edit, by the replacement and by the recycle bin.
LEMMA WhoWrites ==
    ASSUME [Next]_vars
    PROVE  \/ work' = work
           \/ \E d \in Device, p \in Path, c \in Local : Edit(d, p, c)
           \/ \E d \in Device : Replace(d) \/ Recycle(d)
<1>1. CASE UNCHANGED vars
  BY <1>1 DEF vars, folderVars
<1>2. ASSUME NEW d \in Device, \E m \in {"RUN", "PUSH", "PULL"} : Start(d, m) PROVE work' = work
  BY <1>2 DEF Start, folderVars
<1>3. ASSUME NEW d \in Device, NextPhase(d) \/ Stop(d) PROVE work' = work
  BY <1>3 DEF NextPhase, Stop, folderVars
<1>4. ASSUME NEW d \in Device, Publish(d) PROVE work' = work
  BY <1>4 DEF Publish, Republish, Prepare, Commit, Record, Fail, folderVars
<1>5. ASSUME NEW d \in Device, Pull(d) PROVE work' = work \/ Replace(d) \/ Recycle(d)
  BY <1>5 DEF Pull, Receive, Fetch, Recheck, Settle, Acknowledge, Forget, Fail, folderVars
<1>6. ASSUME NEW d \in Device, ResolveStep(d) PROVE work' = work
  BY <1>6 DEF ResolveStep, AskLineage, AcceptRemote, RetireOutbox, DropOutbox, Fail, folderVars
<1>7. ASSUME NEW d \in Device, NEW p \in Path, ScanFile(d, p) \/ PushDeletion(d, p) PROVE work' = work
  BY <1>7 DEF ScanFile, PushDeletion, Skip, NewVersion, Fail, folderVars
<1>8. ASSUME NEW d \in Device, NEW p \in Path, NEW m \in {"KEEP", "USE"}, Resolve(d, p, m)
      PROVE  work' = work
  BY <1>8 DEF Resolve
<1>9. QED BY <1>1, <1>2, <1>3, <1>4, <1>5, <1>6, <1>7, <1>8 DEF Next

\* Bases change when a publication is recorded and when a version is settled.
LEMMA WhoRebases ==
    ASSUME [Next]_vars
    PROVE  files' = files \/ \E d \in Device : Record(d) \/ Settle(d)
<1>1. CASE UNCHANGED vars
  BY <1>1 DEF vars, indexVars
<1>2. ASSUME NEW d \in Device, \E m \in {"RUN", "PUSH", "PULL"} : Start(d, m) PROVE files' = files
  BY <1>2 DEF Start, indexVars
<1>3. ASSUME NEW d \in Device, NextPhase(d) \/ Stop(d) PROVE files' = files
  BY <1>3 DEF NextPhase, Stop, indexVars
<1>4. ASSUME NEW d \in Device, Publish(d) PROVE files' = files \/ Record(d)
  BY <1>4 DEF Publish, Republish, Prepare, Commit, Fail, indexVars
<1>5. ASSUME NEW d \in Device, Pull(d) PROVE files' = files \/ Settle(d)
  BY <1>5 DEF Pull, Receive, Fetch, Recheck, Replace, Recycle, Acknowledge, Forget, Fail, indexVars
<1>6. ASSUME NEW d \in Device, ResolveStep(d) PROVE files' = files
  BY <1>6 DEF ResolveStep, AskLineage, AcceptRemote, RetireOutbox, DropOutbox, Fail, indexVars
<1>7. ASSUME NEW d \in Device, NEW p \in Path, ScanFile(d, p) \/ PushDeletion(d, p) PROVE files' = files
  BY <1>7 DEF ScanFile, PushDeletion, Skip, NewVersion, Fail, indexVars
<1>8. ASSUME NEW d \in Device, NEW p \in Path, NEW m \in {"KEEP", "USE"}, Resolve(d, p, m)
      PROVE  files' = files
  BY <1>8 DEF Resolve, indexVars
<1>9. ASSUME NEW d \in Device, NEW p \in Path, NEW c \in Local, Edit(d, p, c) PROVE files' = files
  BY <1>9 DEF Edit, indexVars
<1>10. QED BY <1>1, <1>2, <1>3, <1>4, <1>5, <1>6, <1>7, <1>8, <1>9 DEF Next

LEMMA KeptByReplace ==
    ASSUME ClientInv, NEW d \in Device, NEW p \in Path, NEW e \in Device, Replace(e) \/ Recycle(e),
           work'[d][p] # work[d][p], work[d][p] # NoFile,
           run[d].step = "recycle" \/ work[d][p] = run[d].actual
    PROVE  Kept(d, p, work[d][p]) \/ <<p, work[d][p]>> \in recycled'[d]
<1>0. TypeOK /\ ReplaceOk(e) /\ run[e].step \in {"replace", "recycle"}
  BY DEF ClientInv, RunOk, Replace, Recycle, At
<1>1. PICK v : v = run[e].cur
  OBVIOUS
<1>2. v \in Ids /\ PathOf(v) \in Path
  BY <1>0, <1>1, ReceiveFacts DEF Receiving
<1>3. PICK q \in Path : q = PathOf(v)
  BY <1>2
<1>4. CASE Replace(e)
  <2>1. work' = [work EXCEPT ![e][q] = ContentOf(v)] /\ run[e].step = "replace"
    BY <1>1, <1>3, <1>4 DEF Replace, At
  <2>2. d = e /\ p = q
    BY <1>0, <2>1 DEF TypeOK
  <2>3. PICK c \in Content : c = work[d][p]
    BY <1>0 DEF TypeOK, Local
  <2>4. Kept(e, q, c)
    BY <1>0, <1>1, <1>2, <1>3, <2>1, <2>2, <2>3 DEF ReplaceOk
  <2>5. QED BY <2>2, <2>3, <2>4
<1>5. CASE Recycle(e)
  <2>1. work'[d][p] # work[d][p] => work' # work
    OBVIOUS
  <2>2. /\ work' = [work EXCEPT ![e][q] = NoFile]
        /\ recycled' = [recycled EXCEPT ![e] = @ \union {<<q, work[e][q]>>}]
    BY <1>1, <1>3, <1>5, <2>1 DEF Recycle, Fail, folderVars
  <2>3. d = e /\ p = q
    BY <1>0, <2>2 DEF TypeOK
  <2>4. QED BY <1>0, <2>2, <2>3 DEF TypeOK
<1>6. QED BY <1>4, <1>5

\* Whatever a run removes, and whatever it writes over that the last hash saw,
\* stays restorable: the accepted content of a resolution has a copy under
\* recovery/, the content of the base is in the cache and its version in the
\* history, and a received deletion moves the file to the recycle bin
\* (receive_one 368-433, resolve 686-693).
THEOREM ContentKept == Spec => ReplacedContentKept
<1>1. ASSUME ClientInv, [Next]_vars, NEW d \in Device, NEW p \in Path,
             work'[d][p] # work[d][p], edits' = edits, work[d][p] # NoFile,
             run[d].step = "recycle" \/ work[d][p] = run[d].actual
      PROVE  Kept(d, p, work[d][p]) \/ <<p, work[d][p]>> \in recycled'[d]
  <2>1. \A e \in Device, q \in Path, c \in Local : ~Edit(e, q, c)
    <3>1. edits \in Nat
      BY <1>1, ClientAssumption DEF ClientInv, TypeOK
    <3>2. QED BY <1>1, <3>1 DEF Edit
  <2>2. PICK e \in Device : Replace(e) \/ Recycle(e)
    BY <1>1, <2>1, WhoWrites
  <2>3. QED BY <1>1, <2>2, KeptByReplace
<1>2. ClientInv /\ [Next]_vars =>
        [\A d \in Device, p \in Path :
            (/\ work'[d][p] # work[d][p] /\ edits' = edits /\ work[d][p] # NoFile
             /\ run[d].step = "recycle" \/ work[d][p] = run[d].actual)
            => Kept(d, p, work[d][p]) \/ <<p, work[d][p]>> \in recycled'[d]]_vars
  BY <1>1
<1>3. QED BY <1>2, ClientAlways, PTL DEF Spec, ReplacedContentKept

LEMMA RecordAdvances ==
    ASSUME ClientInv, NEW d \in Device, NEW p \in Path, NEW e \in Device, Record(e),
           run[d].phase # "outbox", files'[d][p] # files[d][p]
    PROVE  files[d][p] = 0 \/ files[d][p] \in Lineage(files'[d][p])
<1>0. TypeOK /\ HistoryInv /\ run[e].step = "record"
  BY DEF ClientInv, Record, At
<1>1. PICK v : v = run[e].cur
  OBVIOUS
<1>2. /\ v \in Ids /\ PathOf(v) \in Path /\ v \in Base
      /\ run[e].phase # "outbox" => manifest[v].parent = BaseOf(e, v)
  BY <1>0, <1>1, PublishFacts DEF Publishing
<1>3. PICK q \in Path : q = PathOf(v)
  BY <1>2
<1>4. files' = [files EXCEPT ![e][q] = v]
  BY <1>1, <1>3 DEF Record
<1>5. d = e /\ p = q /\ files'[d][p] = v
  BY <1>0, <1>4 DEF TypeOK
<1>6. PICK f \in Base : f = files[d][p]
  BY <1>0 DEF TypeOK
<1>7. manifest[v].parent = f
  BY <1>2, <1>3, <1>5, <1>6 DEF BaseOf
<1>8. f = 0 \/ f \in Lineage(v)
  <2>1. Lineage(v) = {v} \union Lineage(f)
    BY <1>0, <1>2, <1>7, Lineages, Numbers DEF LineageInv
  <2>2. f # 0 => f \in Lineage(f)
    <3>1. ASSUME f # 0 PROVE f \in Lineage(f)
      <4>1. f \in Ids
        BY <1>0, <1>2, <1>7, <3>1, Numbers DEF HistoryInv, ParentOk
      <4>2. PICK u \in Nat : u = manifest[f].parent
        BY <1>0, <4>1, ManifestFacts, Numbers
      <4>3. QED BY <1>0, <4>1, <4>2, Lineages DEF LineageInv
    <3>2. QED BY <3>1
  <2>3. QED BY <2>1, <2>2
<1>9. QED BY <1>5, <1>6, <1>8

LEMMA SettleAdvances ==
    ASSUME ClientInv, NEW d \in Device, NEW p \in Path, NEW e \in Device, Settle(e),
           files'[d][p] # files[d][p]
    PROVE  files[d][p] = 0 \/ files[d][p] \in Lineage(files'[d][p])
<1>0. /\ TypeOK /\ HistoryInv /\ IndexOk(e) /\ BaseOk(e) /\ RunOk(e) /\ run[e].step = "settle"
  BY DEF ClientInv, Settle, At
<1>1. PICK v : v = run[e].cur
  OBVIOUS
<1>2. /\ v \in Ids /\ v \in Base /\ v \in Version /\ v \in run[e].todo /\ PathOf(v) \in Path
      /\ run[e].phase \in ReceivePhase /\ inbox[e][v] \in {"DOWNLOADING", "READY"}
  BY <1>0, <1>1, ReceiveFacts DEF Receiving
<1>3. PICK q \in Path : q = PathOf(v)
  BY <1>2
<1>4. files' = [files EXCEPT ![e][q] = v]
  <2>1. files' # files
    OBVIOUS
  <2>2. QED BY <1>1, <1>3, <2>1 DEF Settle, Fail, indexVars
<1>5. d = e /\ p = q /\ files'[d][p] = v
  BY <1>0, <1>4 DEF TypeOK
<1>6. PICK f \in Base : f = files[d][p]
  BY <1>0 DEF TypeOK
<1>7. SUFFICES ASSUME f # 0 PROVE f \in Lineage(v)
  BY <1>5, <1>6
<1>8. f \in Ids /\ HandledTo(e, f)
  BY <1>0, <1>5, <1>6, <1>7, Numbers DEF IndexOk, BaseOk
<1>9. \A u \in Ids : u \in Lineage(u)
  <2>1. ASSUME NEW u \in Ids PROVE u \in Lineage(u)
    <3>1. PICK w \in Nat : w = manifest[u].parent
      BY <1>0, ManifestFacts, Numbers
    <3>2. QED BY <1>0, <3>1, Lineages DEF LineageInv
  <2>2. QED BY <2>1
<1>10. CASE run[e].phase \in {"inbox", "pending"}
  <2>1. manifest[v].parent = f
    BY <1>0, <1>1, <1>2, <1>3, <1>5, <1>6, <1>10 DEF RunOk, MoveOk, BaseOf, Receiving
  <2>2. Lineage(v) = {v} \union Lineage(f)
    BY <1>0, <1>2, <2>1, Lineages, Numbers DEF LineageInv
  <2>3. QED BY <1>8, <1>9, <2>2
<1>11. CASE run[e].phase \in {"lineage", "choice"}
  <2>1. PICK h \in Ids : h = run[e].remote
    BY <1>0, <1>11, Numbers DEF RunOk, ResolveOk, ResolvePhase
  <2>2. PathOf(h) = q
    BY <1>0, <1>2, <1>3, <1>11, <2>1 DEF RunOk, ResolveOk, ResolvePhase
  <2>3. f \in Lineage(h)
    BY <1>0, <1>5, <1>6, <1>7, <1>11, <2>1, <2>2 DEF RunOk, MoveOk
  <2>4. CASE run[e].phase = "choice"
    <3>1. v = h
      BY <1>0, <1>2, <2>1, <2>4 DEF RunOk, ResolveOk
    <3>2. QED BY <2>3, <3>1
  <2>5. CASE run[e].phase = "lineage"
    <3>1. v \in Lineage(h) /\ ~ (<<v, e>> \in receipts)
      BY <1>0, <1>2, <2>1, <2>5 DEF RunOk, MoveOk
    <3>2. ~Handled(e, v)
      BY <1>2, <3>1 DEF Handled
    <3>3. v \notin Lineage(f)
      BY <1>8, <3>2 DEF HandledTo
    <3>4. QED BY <1>0, <2>1, <2>3, <3>1, <3>3, Lineages DEF LineageInv
  <2>6. QED BY <1>11, <2>4, <2>5
<1>12. QED BY <1>2, <1>10, <1>11 DEF ReceivePhase

\* Outside the retry of an outbox row a base only moves forward along the
\* history: a received version is the child of the base, a version made anew
\* has it for a parent, and the versions of a resolution, which receive_one
\* does not compare with the base, all lie on the lineage of the inspected one
\* and above the base (receive_one 359-364, resolve 701-714).
THEOREM Advances == Spec => ReceiveAdvances
<1>1. ASSUME ClientInv, [Next]_vars, NEW d \in Device, NEW p \in Path, run[d].phase # "outbox"
      PROVE  Forward(d, p)
  <2>1. SUFFICES ASSUME files'[d][p] # files[d][p]
                 PROVE  files[d][p] = 0 \/ files[d][p] \in Lineage(files'[d][p])
    BY DEF Forward
  <2>2. PICK e \in Device : Record(e) \/ Settle(e)
    BY <1>1, <2>1, WhoRebases
  <2>3. QED BY <1>1, <2>1, <2>2, RecordAdvances, SettleAdvances
<1>2. ClientInv /\ [Next]_vars =>
        [\A d \in Device, p \in Path : run[d].phase # "outbox" => Forward(d, p)]_vars
  BY <1>1
<1>3. QED BY <1>2, ClientAlways, PTL DEF Spec, ReceiveAdvances
-----------------------------------------------------------------------------
(* What a run that reports success rests on. *)

ScanPhase == {"scan", "deletions"}

\* The history of the device has the head of the path, or is about to have it.
HeadKnown(d, p) ==
    \/ heads[p] = 0 \/ heads[p] \in versions[d]
    \/ run[d].step = "record" /\ run[d].cur = heads[p]

\* The file is its base's, or the content of the version being published.
InHand(d, p) == run[d].step \in Publishing /\ \E v \in Ids : run[d].cur = v /\ PathOf(v) = p
Matched(d, p) == Same(d, p) \/ InHand(d, p)

\* A resolution is about a version that the server has.
ChosenKnown(d) == run[d].mode \in {"KEEP", "USE"} => run[d].remote \in published

\* What no disturbance spoils.
CourseOk(d) ==
    LET r == run[d] IN
    /\ \A v \in versions[d], p \in Path : PathOf(v) = p => files[d][p] # 0
    /\ r.phase = "outbox" => outbox[d] \subseteq r.todo
    /\ r.mode = "RUN" /\ r.phase \in {"inbox", "pending"} => outbox[d] = {}
    /\ r.phase \in ScanPhase => r.mode \in {"RUN", "PUSH", "KEEP"}
    /\ r.mode = "KEEP" => /\ r.step \notin {"apply", "replace", "recycle"}
                          /\ r.step = "fetch" => r.already
    /\ r.mode = "KEEP" /\ r.phase \in ScanPhase =>
          r.remote \in published /\ \A p \in r.paths : PathOf(r.remote) = p
    /\ (r.phase = "choice" /\ r.todo = {}) \/ r.phase = "drop" => r.remote \in versions[d]
    /\ verdict[d] = "done" => r.phase = "idle" /\ ChosenKnown(d)

\* No version of another device is missing, as far as the run has come.
HeadsOk(d) ==
    run[d].mode = "PUSH" \/ (run[d].mode = "RUN" /\ run[d].phase \in ScanPhase) =>
        \A p \in Path : HeadKnown(d, p)

PendingOk(d) ==
    run[d].phase = "pending" =>
        \A v \in published : v \in run[d].todo \union versions[d] \/ manifest[v].origin = d

\* What the run has looked at is published, or being published.
ScanOk(d) ==
    LET r == run[d] IN
    r.phase \in ScanPhase =>
      /\ \A v \in Ids, p \in Path :
            r.step \in Publishing /\ r.cur = v /\ PathOf(v) = p => work[d][p] = ContentOf(v)
      /\ r.mode # "KEEP" => \A p \in Path :
            \/ Matched(d, p)
            \/ r.phase = "scan" /\ p \in r.paths
            \/ work[d][p] = NoFile /\ (r.phase = "scan" \/ p \in r.paths)
      /\ r.mode = "KEEP" => \A h \in Ids, p \in Path : r.remote = h /\ PathOf(h) = p =>
            /\ HeadKnown(d, p)
            /\ p \notin r.paths => Matched(d, p)
            /\ p \in r.paths => work[d][p] = r.accepted /\ (r.accepted = NoFile <=> r.phase = "deletions")

\* The accepted version is the head; the file is the accepted one, or, when
\* the server's version is used, follows the base to it.
AimOk(d) ==
    LET r == run[d] IN
    r.phase \in ResolvePhase => \A h \in Ids, p \in Path : r.remote = h /\ PathOf(h) = p =>
      /\ heads[p] = h
      /\ r.mode = "KEEP" => work[d][p] = r.accepted
      /\ r.mode = "USE" /\ r.step \notin Receiving /\ files[d][p] = h => work[d][p] = ContentOf(h)

\* The file of the version in hand, when the server's version is used.
ItemOk(d) ==
    LET r == run[d] IN
    r.mode = "USE" => \A v \in Ids, p \in Path : r.cur = v /\ PathOf(v) = p =>
      /\ r.step = "fetch" => work[d][p] = r.actual /\ (r.already => r.actual = ContentOf(v))
      /\ r.step = "recycle" => ContentOf(v) = NoFile
      /\ r.step = "settle" => work[d][p] = ContentOf(v)

OnCourse(d) == HeadsOk(d) /\ PendingOk(d) /\ ScanOk(d) /\ AimOk(d) /\ ItemOk(d)

SuccessOk(d) ==
    /\ CourseOk(d)
    /\ verdict[d] = "running" => OnCourse(d)
    /\ verdict[d] = "done" => Done(d)

SuccessInv == \A d \in Device : SuccessOk(d)

\* The device takes no part in the step; what it concluded is still true, or
\* forgotten.
Aside(e) ==
    /\ run'[e] = run[e] /\ files'[e] = files[e]
    /\ outbox'[e] = outbox[e] /\ versions'[e] = versions[e]
    /\ \/ verdict'[e] \notin {"running", "done"}
       \/ verdict'[e] = verdict[e] /\ work'[e] = work[e] /\ UNCHANGED <<heads, published>>

\* The steps of a device's own run.
Works(d) ==
    \/ \E m \in {"RUN", "PUSH", "PULL"} : Start(d, m)
    \/ NextPhase(d) \/ Stop(d) \/ Publish(d) \/ Pull(d) \/ ResolveStep(d)
    \/ \E p \in Path : ScanFile(d, p) \/ PushDeletion(d, p)
    \/ \E p \in Path, m \in {"KEEP", "USE"} : Resolve(d, p, m)

LEMMA HeadFacts ==
    ASSUME TypeOK, HistoryInv, NEW d \in Device, IndexOk(d), NEW p \in Path
    PROVE  /\ heads[p] \in Base /\ files[d][p] \in Base
           /\ heads[p] # 0 => heads[p] \in published /\ heads[p] \in Ids /\ PathOf(heads[p]) = p
           /\ files[d][p] # 0 => files[d][p] \in Lineage(heads[p])
           /\ files[d][p] # 0 => files[d][p] \in Ids /\ files[d][p] \in versions[d]
           /\ heads[p] = 0 => files[d][p] = 0
<1>1. /\ heads[p] \in Base /\ files[d][p] \in Base /\ Lineage(0) = {}
      /\ heads[p] # 0 => heads[p] \in published /\ heads[p] \in Ids /\ PathOf(heads[p]) = p
  <2>1. heads[p] \in Base /\ files[d][p] \in Base
    BY DEF TypeOK
  <2>2. Lineage(0) = {}
    BY Lineages DEF LineageInv
  <2>3. heads[p] # 0 => heads[p] \in published /\ PathOf(heads[p]) = p
    BY DEF HistoryInv
  <2>4. QED BY <2>1, <2>2, <2>3, Numbers
<1>2. /\ files[d][p] # 0 => files[d][p] \in published /\ files[d][p] \in Ids
      /\ files[d][p] # 0 => PathOf(files[d][p]) = p /\ files[d][p] \in versions[d]
  BY Numbers DEF IndexOk
<1>3. files[d][p] # 0 => files[d][p] \in Lineage(heads[p])
  BY <1>1, <1>2 DEF HistoryInv
<1>4. QED BY <1>1, <1>2, <1>3

\* A device that has the head of a path in its history is based on it, or was
\* taken back.
LEMMA HeadOrBack ==
    ASSUME TypeOK, HistoryInv, NEW d \in Device, IndexOk(d), CourseOk(d), NEW p \in Path,
           heads[p] = 0 \/ heads[p] \in versions[d]
    PROVE  files[d][p] = heads[p] \/ TakenBack(d, p)
<1>1. CASE heads[p] = 0
  BY <1>1, HeadFacts
<1>2. CASE heads[p] # 0
  <2>1. heads[p] \in versions[d] /\ heads[p] \in published /\ PathOf(heads[p]) = p
    BY <1>2, HeadFacts
  <2>2. files[d][p] # 0
    BY <2>1 DEF CourseOk
  <2>3. QED BY <2>1, <2>2, HeadFacts DEF TakenBack
<1>3. QED BY <1>1, <1>2

LEMMA AsideDone ==
    ASSUME ClientInv, ClientInv', Grows, NEW e \in Device, Aside(e), Done(e), ChosenKnown(e),
           work'[e] = work[e], UNCHANGED <<heads, published>>
    PROVE  Done(e)'
<1>0. TypeOK /\ HistoryInv /\ IndexOk(e) /\ TypeOK' /\ HistoryInv'
  BY DEF ClientInv
<1>1. /\ \A v \in Base : v \in Ids \union {0} => Lineage(v)' = Lineage(v)
      /\ \A v \in Ids : PathOf(v)' = PathOf(v) /\ ContentOf(v)' = ContentOf(v)
      /\ ContentOf(0)' = ContentOf(0) /\ \A v \in Ids : manifest'[v] = manifest[v]
      /\ Ids \subseteq Base /\ versions[e] \subseteq Ids
  BY <1>0, GrowFacts, Numbers DEF Grows, IndexOk
<1>2. ASSUME NEW p \in Path PROVE TakenBack(e, p)' = TakenBack(e, p)
  BY <1>1 DEF TakenBack, Aside
<1>3. ASSUME NEW p \in Path PROVE Synced(e, p)' = Synced(e, p)
  <2>1. PICK h : h = heads[p]
    OBVIOUS
  <2>2. ContentOf(h)' = ContentOf(h) /\ heads'[p] = h
    BY <1>0, <1>1, <2>1, HeadFacts
  <2>3. QED BY <2>1, <2>2 DEF Synced, Aside, ContentOf
<1>4. ASSUME NEW p \in Path, files[e][p] = heads[p] \/ manifest[heads[p]].origin = e
      PROVE  files'[e][p] = heads'[p] \/ manifest'[heads'[p]].origin = e
  BY <1>0, <1>1, <1>4, HeadFacts DEF Aside
<1>5. CASE run[e].mode \in {"KEEP", "USE"}
  <2>1. PICK h \in Ids : h = run[e].remote
    BY <1>0, <1>5, Numbers DEF ChosenKnown
  <2>2. PICK p \in Path : p = PathOf(h)
    BY <1>0, <2>1, ManifestFacts
  <2>3. PathOf(h)' = p /\ run'[e].remote = h /\ run'[e].mode = run[e].mode
    BY <1>1, <2>1, <2>2 DEF Aside
  <2>4. Synced(e, p) \/ TakenBack(e, p)
    BY <1>5, <2>1, <2>2 DEF Done
  <2>5. Synced(e, p)' \/ TakenBack(e, p)'
    BY <1>2, <1>3, <2>4
  <2>6. QED BY <1>5, <2>3, <2>5 DEF Done, PathOf
<1>6. CASE run[e].mode \notin {"KEEP", "USE"}
  BY <1>2, <1>3, <1>4, <1>6 DEF Done, Aside
<1>7. QED BY <1>5, <1>6

LEMMA AsideKeeps ==
    ASSUME ClientInv, ClientInv', Grows, NEW e \in Device, Aside(e), SuccessOk(e)
    PROVE  SuccessOk(e)'
<1>0. TypeOK /\ HistoryInv /\ IndexOk(e) /\ RunOk(e) /\ TypeOK' /\ HistoryInv' /\ CourseOk(e)
  BY DEF ClientInv, SuccessOk
<1>1. /\ \A v \in Ids : PathOf(v)' = PathOf(v) /\ ContentOf(v)' = ContentOf(v)
      /\ ContentOf(0)' = ContentOf(0) /\ \A v \in Ids : manifest'[v] = manifest[v]
      /\ versions[e] \subseteq Ids /\ published \subseteq Ids /\ published \subseteq published'
      /\ Ids \subseteq Ids'
  BY <1>0, GrowFacts, Numbers DEF Grows, IndexOk
<1>2. CourseOk(e)'
  <2>1. \A v \in versions'[e], p \in Path : PathOf(v)' = p => files'[e][p] # 0
    BY <1>0, <1>1 DEF CourseOk, Aside
  <2>2. run[e].mode = "KEEP" /\ run[e].phase \in ScanPhase =>
          run[e].remote \in published' /\ \A p \in run[e].paths : PathOf(run[e].remote)' = p
    <3>1. PICK h : h = run[e].remote
      OBVIOUS
    <3>2. run[e].mode = "KEEP" /\ run[e].phase \in ScanPhase =>
            h \in published /\ \A p \in run[e].paths : PathOf(h) = p
      BY <1>0, <3>1 DEF CourseOk
    <3>3. run[e].mode = "KEEP" /\ run[e].phase \in ScanPhase =>
            h \in published' /\ \A p \in run[e].paths : PathOf(h)' = p
      BY <1>1, <3>2
    <3>4. QED BY <3>1, <3>3 DEF PathOf, Aside
  <2>3. verdict'[e] = "done" => verdict[e] = "done"
    BY DEF Aside
  <2>4. /\ run[e].phase = "outbox" => outbox'[e] \subseteq run[e].todo
        /\ run[e].mode = "RUN" /\ run[e].phase \in {"inbox", "pending"} => outbox'[e] = {}
        /\ run[e].phase \in ScanPhase => run[e].mode \in {"RUN", "PUSH", "KEEP"}
        /\ run[e].mode = "KEEP" => /\ run[e].step \notin {"apply", "replace", "recycle"}
                                   /\ run[e].step = "fetch" => run[e].already
        /\ (run[e].phase = "choice" /\ run[e].todo = {}) \/ run[e].phase = "drop" =>
              run[e].remote \in versions'[e]
        /\ verdict'[e] = "done" => run[e].phase = "idle"
    BY <1>0, <2>3 DEF CourseOk, Aside
  <2>5. verdict'[e] = "done" => ChosenKnown(e)'
    BY <1>0, <1>1, <2>3 DEF CourseOk, ChosenKnown, Aside
  <2>6. QED BY <2>1, <2>2, <2>4, <2>5 DEF CourseOk, Aside, PathOf
<1>3. ASSUME verdict'[e] = "done" PROVE Done(e)'
  BY <1>3, AsideDone DEF Aside, SuccessOk, CourseOk
<1>4. ASSUME verdict'[e] = "running" PROVE OnCourse(e)'
  <2> DEFINE r == run[e]
  <2>0. /\ OnCourse(e) /\ work'[e] = work[e] /\ heads' = heads /\ published' = published
        /\ run'[e] = r /\ files'[e] = files[e] /\ versions'[e] = versions[e]
    BY <1>4 DEF Aside, SuccessOk
  <2>1. ASSUME NEW v \in Ids', r.cur = v, r.step # "next" PROVE v \in Ids
    BY <1>0, <2>1 DEF RunOk, CurOk
  <2>2. \A p \in Path : HeadKnown(e, p)' = HeadKnown(e, p)
    BY <2>0 DEF HeadKnown
  <2>3. ASSUME NEW p \in Path PROVE Same(e, p)' = Same(e, p)
    <3>1. PICK f : f = files[e][p]
      OBVIOUS
    <3>2. ContentOf(f)' = ContentOf(f)
      BY <1>0, <1>1, <3>1, HeadFacts
    <3>3. QED BY <2>0, <3>1, <3>2 DEF Same, ContentOf
  <2>4. ASSUME NEW p \in Path, Matched(e, p) PROVE Matched(e, p)'
    BY <1>1, <2>0, <2>3, <2>4 DEF Matched, InHand
  <2>5. HeadsOk(e)'
    BY <2>0, <2>2 DEF OnCourse, HeadsOk
  <2>6. PendingOk(e)'
    BY <1>1, <2>0 DEF OnCourse, PendingOk
  <2>7. ScanOk(e)'
    <3>1. ASSUME r.phase \in ScanPhase PROVE ScanOk(e)'
      <4>1. \A v \in Ids', p \in Path :
              r.step \in Publishing /\ r.cur = v /\ PathOf(v)' = p => work[e][p] = ContentOf(v)'
        BY <1>1, <2>0, <2>1, <3>1 DEF OnCourse, ScanOk, Publishing
      <4>2. r.mode # "KEEP" => \A p \in Path :
              \/ Matched(e, p)'
              \/ r.phase = "scan" /\ p \in r.paths
              \/ work[e][p] = NoFile /\ (r.phase = "scan" \/ p \in r.paths)
        BY <2>0, <2>4, <3>1 DEF OnCourse, ScanOk
      <4>3. ASSUME r.mode = "KEEP", NEW h \in Ids', NEW p \in Path, r.remote = h, PathOf(h)' = p
            PROVE  /\ HeadKnown(e, p)'
                   /\ p \notin r.paths => Matched(e, p)'
                   /\ p \in r.paths =>
                        work[e][p] = r.accepted /\ (r.accepted = NoFile <=> r.phase = "deletions")
        <5>1. h \in Ids /\ PathOf(h) = p
          BY <1>0, <1>1, <3>1, <4>3 DEF CourseOk
        <5>2. QED BY <2>0, <2>2, <2>4, <3>1, <4>3, <5>1 DEF OnCourse, ScanOk
      <4>4. QED BY <2>0, <4>1, <4>2, <4>3 DEF ScanOk
    <3>2. QED BY <2>0, <3>1 DEF ScanOk
  <2>8. AimOk(e)'
    <3>1. ASSUME r.phase \in ResolvePhase, NEW h \in Ids', NEW p \in Path, r.remote = h, PathOf(h)' = p
          PROVE  h \in Ids /\ PathOf(h) = p /\ ContentOf(h)' = ContentOf(h)
      BY <1>0, <1>1, <3>1 DEF RunOk, ResolveOk
    <3>2. QED BY <2>0, <3>1 DEF OnCourse, AimOk
  <2>9. ItemOk(e)'
    BY <1>1, <2>0, <2>1 DEF OnCourse, ItemOk
  <2>10. QED BY <2>5, <2>6, <2>7, <2>8, <2>9 DEF OnCourse
<1>5. QED BY <1>2, <1>3, <1>4 DEF SuccessOk

\* A step of one device leaves the others aside, and the user's edits every run.
LEMMA WhoWorks ==
    ASSUME ClientInv, ClientInv', [Next]_vars, NEW e \in Device
    PROVE  Grows /\ (Aside(e) \/ Works(e))
<1>0. /\ TypeOK /\ run \in [Device -> Run] /\ work \in [Device -> [Path -> Local]]
      /\ Len(manifest) \in Nat
  BY Numbers DEF ClientInv, TypeOK
<1> DEFINE Plain == manifest' = manifest /\ published \subseteq published' /\ receipts \subseteq receipts'
<1>1. Plain => Grows
  BY <1>0 DEF Grows
<1>2. CASE UNCHANGED vars
  BY <1>1, <1>2 DEF vars, serverVars, folderVars, indexVars, Aside
<1>3. ASSUME NEW d \in Device, NEW m \in {"RUN", "PUSH", "PULL"}, Start(d, m)
      PROVE  Plain /\ (d # e => Aside(e))
  BY <1>0, <1>3 DEF Start, serverVars, folderVars, indexVars, Aside, TypeOK
<1>4. ASSUME NEW d \in Device, NEW how, End(d, how), d # e
      PROVE  run'[e] = run[e] /\ verdict'[e] = verdict[e]
  BY <1>0, <1>4 DEF End, TypeOK
<1>5. ASSUME NEW d \in Device, NextPhase(d) \/ Stop(d) PROVE Plain /\ (d # e => Aside(e))
  <2>1. Plain /\ UNCHANGED <<heads, published, files, outbox, versions, work>>
    BY <1>5 DEF NextPhase, Stop, serverVars, folderVars, indexVars
  <2>2. d # e => run'[e] = run[e] /\ verdict'[e] = verdict[e]
    BY <1>0, <1>4, <1>5 DEF NextPhase, Stop, Enter, TypeOK
  <2>3. QED BY <2>1, <2>2 DEF Aside
<1>6. ASSUME NEW d \in Device, NEW how, Fail(d, how) PROVE Plain /\ (d # e => Aside(e))
  BY <1>4, <1>6 DEF Fail, serverVars, folderVars, indexVars, Aside
<1>7. ASSUME NEW d \in Device, Publish(d) PROVE Plain /\ (d # e => Aside(e))
  <2>1. CASE Republish(d)
    BY <1>0, <2>1 DEF Republish, serverVars, folderVars, indexVars, Aside
  <2>2. CASE Prepare(d)
    BY <1>0, <1>6, <2>2 DEF Prepare, Goto, folderVars, indexVars, Aside
  <2>3. CASE Commit(d)
    BY <1>0, <1>6, <2>3 DEF Commit, Goto, Disturb, serverVars, folderVars, indexVars, Aside, TypeOK
  <2>4. CASE Record(d)
    BY <1>0, <2>4 DEF Record, Continue, serverVars, folderVars, Aside, TypeOK
  <2>5. QED BY <1>7, <2>1, <2>2, <2>3, <2>4 DEF Publish
<1>8. ASSUME NEW d \in Device, Pull(d) PROVE Plain /\ (d # e => Aside(e))
  <2>1. CASE Receive(d)
    BY <1>0, <1>6, <2>1 DEF Receive, serverVars, folderVars, indexVars, Aside
  <2>2. CASE Fetch(d)
    BY <1>0, <2>2 DEF Fetch, Goto, serverVars, folderVars, Aside
  <2>3. CASE Recheck(d)
    BY <1>0, <1>6, <2>3 DEF Recheck, Goto, serverVars, folderVars, indexVars, Aside
  <2>4. CASE Replace(d)
    BY <1>0, <2>4 DEF Replace, Goto, serverVars, indexVars, Aside
  <2>5. CASE Recycle(d)
    BY <1>0, <1>6, <2>5 DEF Recycle, Goto, serverVars, indexVars, Aside
  <2>6. CASE Settle(d)
    BY <1>0, <1>6, <2>6 DEF Settle, serverVars, folderVars, Aside, TypeOK
  <2>7. CASE Acknowledge(d)
    BY <1>0, <1>6, <2>7 DEF Acknowledge, Goto, folderVars, indexVars, Aside
  <2>8. CASE Forget(d)
    BY <1>0, <2>8 DEF Forget, Continue, serverVars, folderVars, Aside
  <2>9. QED BY <1>8, <2>1, <2>2, <2>3, <2>4, <2>5, <2>6, <2>7, <2>8 DEF Pull
<1>9. ASSUME NEW d \in Device, ResolveStep(d) PROVE Plain /\ (d # e => Aside(e))
  <2>1. CASE AskLineage(d)
    BY <1>0, <1>6, <2>1 DEF AskLineage, Enter, serverVars, folderVars, indexVars, Aside
  <2>2. CASE AcceptRemote(d)
    BY <1>0, <2>2 DEF AcceptRemote, Enter, serverVars, folderVars, indexVars, Aside
  <2>3. CASE RetireOutbox(d)
    BY <1>0, <2>3 DEF RetireOutbox, Enter, serverVars, folderVars, Aside, TypeOK
  <2>4. CASE DropOutbox(d)
    <3>1. d # e => run'[e] = run[e] /\ verdict'[e] = verdict[e]
      BY <1>0, <1>4, <2>4 DEF DropOutbox, Enter
    <3>2. QED BY <1>0, <2>4, <3>1 DEF DropOutbox, serverVars, folderVars, Aside, TypeOK
  <2>5. QED BY <1>9, <2>1, <2>2, <2>3, <2>4 DEF ResolveStep
<1>10. ASSUME NEW d \in Device, NEW p \in Path, ScanFile(d, p) \/ PushDeletion(d, p)
       PROVE  Grows /\ (d # e => Aside(e))
  <2>1. CASE Skip(d, p)
    BY <1>0, <1>1, <2>1 DEF Skip, serverVars, folderVars, indexVars, Aside
  <2>2. ASSUME NEW c \in Local, NewVersion(d, p, c) PROVE Grows /\ (d # e => Aside(e))
    <3>1. CASE Fail(d, "none")
      BY <1>1, <1>6, <3>1
    <3>2. CASE ~Fail(d, "none")
      <4>1. /\ \E rec : manifest' = Append(manifest, rec)
            /\ UNCHANGED <<serverVars, folderVars, files, versions, verdict>>
            /\ d # e => outbox'[e] = outbox[e] /\ run'[e] = run[e]
        BY <1>0, <2>2, <3>2 DEF NewVersion, StoreRow, TypeOK
      <4>2. Grows
        BY <1>0, <4>1 DEF Grows, serverVars, Ids, TypeOK
      <4>3. QED BY <4>1, <4>2 DEF Aside, serverVars, folderVars
    <3>3. QED BY <3>1, <3>2
  <2>3. work[d][p] \in Local /\ NoFile \in Local
    BY <1>0 DEF Local
  <2>4. QED BY <1>10, <2>1, <2>2, <2>3 DEF ScanFile, PushDeletion
<1>11. ASSUME NEW d \in Device, NEW p \in Path, NEW m \in {"KEEP", "USE"}, Resolve(d, p, m)
       PROVE  Plain /\ (d # e => Aside(e))
  BY <1>0, <1>11 DEF Resolve, serverVars, indexVars, Aside, TypeOK
<1>12. ASSUME NEW d \in Device, NEW p \in Path, NEW c \in Local, Edit(d, p, c) PROVE Plain /\ Aside(e)
  BY <1>0, <1>12 DEF Edit, Disturb, serverVars, indexVars, Aside, TypeOK
<1> HIDE DEF Plain
<1>13. QED BY <1>1, <1>2, <1>3, <1>5, <1>7, <1>8, <1>9, <1>10, <1>11, <1>12 DEF Next, Works

LEMMA EndSucceeds ==
    ASSUME ClientInv, NEW d \in Device, SuccessOk(d), NEW how, End(d, how),
           UNCHANGED <<manifest, files, versions>>, how \notin {"running", "done"}
    PROVE  SuccessOk(d)'
<1>1. TypeOK /\ CourseOk(d)
  BY DEF ClientInv, SuccessOk
<1>2. run'[d].phase = "idle" /\ run'[d].step = "next"
  BY <1>1, EndRun
<1>3. verdict'[d] \notin {"running", "done"}
  BY <1>1 DEF TypeOK, End
<1>4. CourseOk(d)'
  BY <1>1, <1>2, <1>3 DEF CourseOk, PathOf, ScanPhase
<1>5. QED BY <1>3, <1>4 DEF SuccessOk

LEMMA FailSucceeds ==
    ASSUME ClientInv, NEW d \in Device, SuccessOk(d), NEW how \in {"none", "refused", "conflict"},
           Fail(d, how)
    PROVE  SuccessOk(d)'
<1>1. End(d, how) /\ UNCHANGED <<manifest, files, versions>>
  BY DEF Fail, indexVars
<1>2. QED BY <1>1, EndSucceeds

LEMMA StopSucceeds == ASSUME ClientInv, NEW d \in Device, SuccessOk(d), Stop(d) PROVE SuccessOk(d)'
<1>1. End(d, "none") /\ UNCHANGED <<manifest, files, versions>>
  BY DEF Stop, indexVars
<1>2. QED BY <1>1, EndSucceeds

LEMMA EndDoneSucceeds ==
    ASSUME ClientInv, NEW d \in Device, SuccessOk(d), End(d, "done"),
           UNCHANGED <<manifest, heads, published, work, files, versions>>,
           ChosenKnown(d), verdict[d] = "running" => Done(d)
    PROVE  SuccessOk(d)'
<1>1. TypeOK /\ CourseOk(d)
  BY DEF ClientInv, SuccessOk
<1>2. run'[d].phase = "idle" /\ run'[d].step = "next"
  BY <1>1, EndRun
<1>3. verdict'[d] # "running" /\ (verdict'[d] = "done" => verdict[d] = "running")
  BY <1>1 DEF TypeOK, End
<1>4. verdict[d] = "running" => run'[d].mode = run[d].mode /\ run'[d].remote = run[d].remote
  BY <1>1 DEF TypeOK, End, Idle
<1>5. ASSUME NEW p PROVE TakenBack(d, p)' = TakenBack(d, p) /\ Synced(d, p)' = Synced(d, p)
  BY DEF TakenBack, Synced, ContentOf, Lineage
<1>6. verdict'[d] = "done" => Done(d)'
  BY <1>3, <1>4, <1>5 DEF Done, PathOf
<1>7. CourseOk(d)'
  <2>1. verdict'[d] = "done" => ChosenKnown(d)'
    BY <1>3, <1>4 DEF ChosenKnown
  <2>2. QED BY <1>1, <1>2, <2>1 DEF CourseOk, PathOf, ScanPhase
<1>8. QED BY <1>3, <1>6, <1>7 DEF SuccessOk

LEMMA StartSucceeds ==
    ASSUME ClientInv, NEW d \in Device, SuccessOk(d), NEW m \in {"RUN", "PUSH", "PULL"}, Start(d, m)
    PROVE  SuccessOk(d)'
<1>1. TypeOK /\ HistoryInv /\ IndexOk(d) /\ CourseOk(d)
  BY DEF ClientInv, SuccessOk
<1>2. UNCHANGED <<manifest, heads, published, work, files, outbox, versions>>
  BY DEF Start, serverVars, folderVars, indexVars
<1>3. /\ run'[d].step = "next" /\ run'[d].mode = m
      /\ run'[d].phase = IF m = "PULL" THEN "inbox" ELSE "outbox"
      /\ run'[d].todo = IF m = "PULL" THEN InboxRows(d) ELSE outbox[d]
  BY <1>1 DEF Start, TypeOK, Idle
<1>4. verdict'[d] = "running"
  BY <1>1 DEF Start, TypeOK
<1>5. CourseOk(d)'
  BY <1>1, <1>2, <1>3, <1>4 DEF CourseOk, PathOf, ScanPhase
<1>6. HeadsOk(d)'
  <2>1. ASSUME m = "PUSH", NEW p \in Path PROVE heads[p] = 0 \/ heads[p] \in versions[d]
    <3>1. heads[p] = 0 \/ heads[p] = files[d][p]
      BY <2>1 DEF Start, Classify
    <3>2. QED BY <1>1, <3>1, HeadFacts
  <2>2. QED BY <1>2, <1>3, <2>1 DEF HeadsOk, HeadKnown, ScanPhase
<1>7. OnCourse(d)'
  BY <1>3, <1>6 DEF OnCourse, PendingOk, ScanOk, AimOk, ItemOk, ScanPhase, ResolvePhase
<1>8. QED BY <1>4, <1>5, <1>7 DEF SuccessOk

\* What a run that has nothing left to do has made of the folder.
LEMMA ScanDone ==
    ASSUME TypeOK, HistoryInv, NEW d \in Device, IndexOk(d), PhaseOk(d), CourseOk(d), OnCourse(d),
           run[d].step = "next", run[d].paths = {}, run[d].phase \in ScanPhase,
           run[d].phase = "scan" => run[d].mode = "KEEP" \/ ~SyncDeletes,
           run[d].mode = "KEEP" => run[d].remote \in published
    PROVE  Done(d)
<1>1. ASSUME NEW p \in Path, HeadKnown(d, p) PROVE files[d][p] = heads[p] \/ TakenBack(d, p)
  BY <1>1, HeadOrBack DEF HeadKnown
<1>2. ASSUME NEW p \in Path, Matched(d, p), files[d][p] = heads[p] PROVE Synced(d, p)
  <2>1. Same(d, p)
    BY <1>2 DEF Matched, InHand, Publishing
  <2>2. QED BY <1>2, <2>1 DEF Same, Synced
<1>3. run[d].mode \in {"RUN", "PUSH", "KEEP"}
  BY DEF CourseOk
<1>4. CASE run[d].mode \in {"RUN", "PUSH"}
  <2>1. ASSUME NEW p \in Path, ~TakenBack(d, p)
        PROVE  Synced(d, p) \/ (~SyncDeletes /\ files[d][p] = heads[p] /\ work[d][p] = NoFile)
    <3>1. files[d][p] = heads[p]
      BY <1>1, <1>4, <2>1 DEF OnCourse, HeadsOk
    <3>2. Matched(d, p) \/ (work[d][p] = NoFile /\ run[d].phase = "scan")
      BY <1>4 DEF OnCourse, ScanOk
    <3>3. QED BY <1>2, <1>4, <3>1, <3>2
  <2>2. QED BY <1>4, <2>1 DEF Done
<1>5. CASE run[d].mode = "KEEP"
  <2>1. PICK h \in Ids : h = run[d].remote
    BY <1>5, Numbers
  <2>2. PICK p \in Path : p = PathOf(h)
    BY <2>1, ManifestFacts
  <2>3. HeadKnown(d, p) /\ Matched(d, p)
    BY <1>5, <2>1, <2>2 DEF OnCourse, ScanOk
  <2>4. Synced(d, p) \/ TakenBack(d, p)
    BY <1>1, <1>2, <2>3
  <2>5. QED BY <1>5, <2>1, <2>2, <2>4 DEF Done
<1>6. QED BY <1>3, <1>4, <1>5

LEMMA PullDone ==
    ASSUME TypeOK, HistoryInv, NEW d \in Device, IndexOk(d), CourseOk(d), OnCourse(d),
           run[d].phase = "pending", run[d].todo = {}, run[d].mode = "PULL"
    PROVE  Done(d)
<1>1. ASSUME NEW p \in Path, ~TakenBack(d, p)
      PROVE  files[d][p] = heads[p] \/ manifest[heads[p]].origin = d
  <2>1. CASE heads[p] = 0
    BY <2>1, HeadFacts
  <2>2. CASE heads[p] \in versions[d]
    BY <1>1, <2>2, HeadOrBack
  <2>3. QED BY <2>1, <2>2, HeadFacts DEF OnCourse, PendingOk
<1>2. QED BY <1>1 DEF Done

LEMMA NextPhaseSucceeds ==
    ASSUME ClientInv, NEW d \in Device, SuccessOk(d), NextPhase(d) PROVE SuccessOk(d)'
<1> DEFINE ph == run[d].phase
           m == run[d].mode
<1>1. /\ TypeOK /\ HistoryInv /\ IndexOk(d) /\ RunOk(d) /\ PhaseOk(d) /\ CourseOk(d)
      /\ verdict[d] = "running" => OnCourse(d)
      /\ verdict[d] = "done" => ph = "idle"
  BY DEF ClientInv, SuccessOk, RunOk, CourseOk
<1>2. /\ UNCHANGED <<manifest, heads, published, work, files, outbox, versions>>
      /\ run[d].step = "next" /\ run[d].todo = {} /\ run[d].paths = {} /\ ph # "idle"
  BY DEF NextPhase, serverVars, folderVars, indexVars, At, IsIdle
<1>3. /\ InboxRows(d) \in SUBSET Version /\ Pending(d) \in SUBSET Version
      /\ {} \in SUBSET Version /\ {} \in SUBSET Path /\ Path \in SUBSET Path
      /\ {p \in Path : files[d][p] # 0} \in SUBSET Path
      /\ {"inbox", "pending", "scan", "deletions"} \subseteq Phase
  BY <1>1, RowsArePublished DEF Phase
<1>4. \A p \in Path : Matched(d, p) => Same(d, p)
  BY <1>2 DEF Matched, InHand, Publishing
<1>5. \A p \in Path : HeadKnown(d, p) => heads[p] = 0 \/ heads[p] \in versions[d]
  BY <1>2 DEF HeadKnown
<1>6. \A p \in Path : Same(d, p)' = Same(d, p)
  BY <1>2 DEF Same, ContentOf
<1>7. CASE ph = "outbox" /\ m = "RUN" /\ Enter(d, "inbox", InboxRows(d), {}) /\ UNCHANGED verdict
  <2>1. run'[d].mode = "RUN" /\ run'[d].phase = "inbox" /\ run'[d].step = "next"
    BY <1>1, <1>2, <1>3, <1>7, EnterRun
  <2>2. outbox[d] = {}
    BY <1>1, <1>2, <1>7 DEF CourseOk
  <2>3. CourseOk(d)'
    BY <1>1, <1>2, <1>7, <2>1, <2>2 DEF CourseOk, PathOf, ScanPhase
  <2>4. OnCourse(d)'
    BY <2>1 DEF OnCourse, HeadsOk, PendingOk, ScanOk, AimOk, ItemOk, ScanPhase, ResolvePhase
  <2>5. QED BY <1>1, <1>2, <1>7, <2>3, <2>4 DEF SuccessOk
<1>8. CASE ph = "inbox" /\ Enter(d, "pending", Pending(d), {}) /\ UNCHANGED verdict
  <2>1. /\ run'[d].mode = m /\ run'[d].phase = "pending" /\ run'[d].step = "next"
        /\ run'[d].todo = Pending(d) /\ m \in {"RUN", "PULL"}
    BY <1>1, <1>2, <1>3, <1>8, EnterRun DEF PhaseOk
  <2>2. CourseOk(d)'
    BY <1>1, <1>2, <1>8, <2>1 DEF CourseOk, PathOf, ScanPhase
  <2>3. PendingOk(d)'
    <3>1. ASSUME NEW v \in published
          PROVE  v \in Pending(d) \/ v \in versions[d] \/ manifest[v].origin = d
      <4>1. CASE <<v, d>> \in receipts
        BY <4>1 DEF ClientInv, ReceiptMeansApplied
      <4>2. QED BY <4>1 DEF Pending
    <3>2. QED BY <1>2, <2>1, <3>1 DEF PendingOk
  <2>4. OnCourse(d)'
    BY <2>1, <2>3 DEF OnCourse, HeadsOk, ScanOk, AimOk, ItemOk, ScanPhase, ResolvePhase
  <2>5. QED BY <1>1, <1>2, <1>8, <2>2, <2>4 DEF SuccessOk
<1>9. CASE /\ \/ ph = "outbox" /\ m = "PUSH"
              \/ ph = "pending" /\ m = "RUN"
           /\ Enter(d, "scan", {}, Path) /\ UNCHANGED verdict
  <2>1. /\ run'[d].mode = m /\ run'[d].phase = "scan" /\ run'[d].step = "next"
        /\ run'[d].paths = Path /\ m \in {"RUN", "PUSH"}
    BY <1>1, <1>2, <1>3, <1>9, EnterRun
  <2>2. CourseOk(d)'
    BY <1>1, <1>2, <1>9, <2>1 DEF CourseOk, PathOf, ScanPhase
  <2>3. ASSUME verdict[d] = "running", NEW p \in Path PROVE HeadKnown(d, p)'
    <3>1. CASE m = "PUSH"
      BY <1>1, <1>2, <1>5, <2>3, <3>1 DEF OnCourse, HeadsOk, HeadKnown
    <3>2. CASE ph = "pending"
      <4>1. \A v \in published : v \in versions[d] \/ manifest[v].origin = d
        BY <1>1, <1>2, <2>3, <3>2 DEF OnCourse, PendingOk
      <4>2. outbox[d] = {}
        BY <1>1, <1>9, <3>2 DEF CourseOk
      <4>3. \A v \in published : v \in versions[d]
        BY <4>1, <4>2 DEF ClientInv, PublicationRemembered
      <4>4. QED BY <1>1, <1>2, <4>3, HeadFacts DEF HeadKnown
    <3>3. QED BY <1>9, <3>1, <3>2
  <2>4. verdict[d] = "running" => OnCourse(d)'
    BY <2>1, <2>3 DEF OnCourse, HeadsOk, PendingOk, ScanOk, AimOk, ItemOk, ScanPhase, ResolvePhase, Publishing
  <2>5. QED BY <1>1, <1>2, <1>9, <2>2, <2>4 DEF SuccessOk
<1>10. CASE /\ ph = "scan" /\ m \in {"RUN", "PUSH"}
            /\ Enter(d, "deletions", {}, {p \in Path : files[d][p] # 0}) /\ UNCHANGED verdict
  <2>1. /\ run'[d].mode = m /\ run'[d].phase = "deletions" /\ run'[d].step = "next"
        /\ run'[d].paths = {p \in Path : files[d][p] # 0}
    BY <1>1, <1>2, <1>3, <1>10, EnterRun
  <2>2. CourseOk(d)'
    BY <1>1, <1>2, <1>10, <2>1 DEF CourseOk, PathOf, ScanPhase
  <2>3. ASSUME verdict[d] = "running", NEW p \in Path
        PROVE  HeadKnown(d, p)' /\ (Matched(d, p)' \/ (work[d][p] = NoFile /\ files[d][p] # 0))
    <3>1. HeadKnown(d, p)
      BY <1>1, <1>10, <2>3 DEF OnCourse, HeadsOk, ScanPhase
    <3>2. Same(d, p) \/ work[d][p] = NoFile
      BY <1>1, <1>2, <1>4, <1>10, <2>3 DEF OnCourse, ScanOk, ScanPhase
    <3>3. files[d][p] = 0 /\ work[d][p] = NoFile => Same(d, p)
      BY DEF Same, ContentOf
    <3>4. QED BY <1>2, <1>5, <1>6, <3>1, <3>2, <3>3 DEF HeadKnown, Matched
  <2>4. verdict[d] = "running" => OnCourse(d)'
    BY <1>2, <1>10, <2>1, <2>3 DEF OnCourse, HeadsOk, PendingOk, ScanOk, AimOk, ItemOk, ResolvePhase, Publishing
  <2>5. QED BY <1>1, <1>2, <1>10, <2>2, <2>4 DEF SuccessOk
<1>11. CASE /\ \/ ph = "pending" /\ m = "PULL"
               \/ ph = "scan" /\ (m = "KEEP" \/ ~SyncDeletes)
               \/ ph = "deletions"
            /\ End(d, "done")
  <2>1. ASSUME verdict[d] = "running" PROVE Done(d)
    <3>1. CASE ph = "pending" /\ m = "PULL"
      BY <1>1, <1>2, <2>1, <3>1, PullDone
    <3>2. CASE ph # "pending"
      <4>1. ph \in ScanPhase /\ (m = "KEEP" => run[d].remote \in published)
        BY <1>1, <1>11, <3>2 DEF CourseOk, ScanPhase
      <4>2. QED BY <1>1, <1>2, <1>11, <2>1, <3>2, <4>1, ScanDone
    <3>3. QED BY <1>11, <3>1, <3>2
  <2>2. ChosenKnown(d)
    BY <1>1, <1>11 DEF ChosenKnown, CourseOk, PhaseOk, ScanPhase
  <2>3. QED BY <1>2, <1>11, <2>1, <2>2, EndDoneSucceeds
<1>12. QED BY <1>7, <1>8, <1>9, <1>10, <1>11 DEF NextPhase

\* A step within the publication of a version.
LEMMA PublishingSucceeds ==
    ASSUME ClientInv, NEW d \in Device, SuccessOk(d), run[d].step \in {"prepare", "commit"},
           NEW s \in {"commit", "record"}, Goto(d, s),
           UNCHANGED <<manifest, work, files, outbox, versions>>, published \subseteq published',
           verdict'[d] = verdict[d],
           \A p \in Path : heads'[p] = heads[p] \/ (s = "record" /\ run[d].cur = heads'[p])
    PROVE  SuccessOk(d)'
<1>1. /\ TypeOK /\ RunOk(d) /\ CourseOk(d) /\ s \in Step /\ s \in Publishing
      /\ verdict[d] = "running" => OnCourse(d)
      /\ verdict[d] = "done" => run[d].phase = "idle"
      /\ run[d].phase \in {"outbox", "scan", "deletions"}
  BY DEF ClientInv, SuccessOk, RunOk, CourseOk, PhaseOk, Step, Publishing
<1>2. /\ SameAim(d) /\ run'[d].step = s /\ run'[d].todo = run[d].todo
      /\ run'[d].paths = run[d].paths /\ run'[d].cur = run[d].cur
  BY <1>1, GotoRun
<1>3. /\ \A v \in Ids : PathOf(v)' = PathOf(v) /\ ContentOf(v)' = ContentOf(v)
      /\ \A p \in Path : Same(d, p)' = Same(d, p)
      /\ Ids' = Ids
  BY DEF PathOf, ContentOf, Same, Ids
<1>4. \A p \in Path : Matched(d, p) => Matched(d, p)'
  BY <1>1, <1>2, <1>3 DEF Matched, InHand
<1>5. \A p \in Path : HeadKnown(d, p) => HeadKnown(d, p)'
  BY <1>2 DEF HeadKnown
<1>6. run[d].mode = "KEEP" /\ run[d].phase \in ScanPhase =>
        run[d].remote \in published' /\ \A p \in run[d].paths : PathOf(run[d].remote)' = p
  BY <1>1, <1>2 DEF CourseOk, SameAim, PathOf
<1>7. CourseOk(d)'
  BY <1>1, <1>2, <1>6 DEF CourseOk, SameAim, PathOf
<1>8. ASSUME verdict[d] = "running" PROVE OnCourse(d)'
  <2>1. OnCourse(d)
    BY <1>1, <1>8
  <2>2. HeadsOk(d)'
    BY <1>2, <1>5, <2>1 DEF OnCourse, HeadsOk, SameAim
  <2>3. ScanOk(d)'
    <3>1. CASE run[d].phase \in ScanPhase
      <4>1. \A v \in Ids, p \in Path : run[d].cur = v /\ PathOf(v) = p => work[d][p] = ContentOf(v)
        BY <2>1, <3>1 DEF OnCourse, ScanOk, Publishing
      <4>2. run[d].mode # "KEEP" => \A p \in Path :
              \/ Matched(d, p)'
              \/ run[d].phase = "scan" /\ p \in run[d].paths
              \/ work[d][p] = NoFile /\ (run[d].phase = "scan" \/ p \in run[d].paths)
        BY <1>4, <2>1, <3>1 DEF OnCourse, ScanOk
      <4>3. run[d].mode = "KEEP" => \A h \in Ids, p \in Path : run[d].remote = h /\ PathOf(h) = p =>
              /\ HeadKnown(d, p)'
              /\ p \notin run[d].paths => Matched(d, p)'
              /\ p \in run[d].paths => /\ work[d][p] = run[d].accepted
                                       /\ run[d].accepted = NoFile <=> run[d].phase = "deletions"
        BY <1>4, <1>5, <2>1, <3>1 DEF OnCourse, ScanOk
      <4>4. QED BY <1>2, <1>3, <4>1, <4>2, <4>3 DEF ScanOk, SameAim
    <3>2. QED BY <1>2, <3>1 DEF ScanOk, SameAim
  <2>4. PendingOk(d)' /\ AimOk(d)'
    BY <1>1, <1>2 DEF PendingOk, AimOk, SameAim, ResolvePhase
  <2>5. ItemOk(d)'
    BY <1>1, <1>2 DEF ItemOk, Publishing
  <2>6. QED BY <2>2, <2>3, <2>4, <2>5 DEF OnCourse
<1>9. QED BY <1>1, <1>2, <1>7, <1>8 DEF SuccessOk, SameAim

LEMMA RepublishSucceeds ==
    ASSUME ClientInv, NEW d \in Device, SuccessOk(d), Republish(d) PROVE SuccessOk(d)'
<1>1. /\ TypeOK /\ RunOk(d) /\ CourseOk(d) /\ run[d].phase = "outbox" /\ run[d].step = "next"
      /\ run[d].mode \in {"RUN", "PUSH"}
      /\ UNCHANGED <<manifest, heads, published, work, files, outbox, versions, verdict>>
      /\ run[d].todo # {} /\ run[d].todo \subseteq Version
  BY RunFacts DEF ClientInv, SuccessOk, RunOk, PhaseOk, Republish, At, serverVars, folderVars, indexVars
<1>2. PICK v : v = Oldest(run[d].todo)
  OBVIOUS
<1>3. v \in Base
  BY <1>1, <1>2, OldestFacts, Numbers
<1>4. run' = [run EXCEPT ![d].step = "prepare", ![d].cur = v]
  BY <1>2 DEF Republish
<1>5. SameAim(d) /\ run'[d].step = "prepare" /\ run'[d].todo = run[d].todo
  BY <1>1, <1>3, <1>4, TakeRun DEF Step
<1>6. CourseOk(d)'
  BY <1>1, <1>5 DEF CourseOk, SameAim, PathOf, ScanPhase
<1>7. ASSUME verdict[d] = "running" PROVE OnCourse(d)'
  <2>1. HeadsOk(d)'
    BY <1>1, <1>5, <1>7 DEF SuccessOk, OnCourse, HeadsOk, HeadKnown, SameAim, ScanPhase
  <2>2. QED BY <1>1, <1>5, <2>1 DEF OnCourse, PendingOk, ScanOk, AimOk, ItemOk, SameAim, ScanPhase, ResolvePhase
<1>8. QED BY <1>1, <1>5, <1>6, <1>7 DEF SuccessOk, SameAim, CourseOk

LEMMA PrepareSucceeds ==
    ASSUME ClientInv, NEW d \in Device, SuccessOk(d), Prepare(d) PROVE SuccessOk(d)'
<1>1. CASE Fail(d, "refused")
  BY <1>1, FailSucceeds
<1>2. CASE ~Fail(d, "refused")
  <2>1. /\ run[d].step = "prepare" /\ Goto(d, "commit")
        /\ UNCHANGED <<manifest, heads, published, work, files, outbox, versions, verdict>>
    BY <1>2 DEF Prepare, At, folderVars, indexVars
  <2>2. QED BY <2>1, PublishingSucceeds
<1>3. QED BY <1>1, <1>2

LEMMA CommitSucceeds ==
    ASSUME ClientInv, NEW d \in Device, SuccessOk(d), Commit(d) PROVE SuccessOk(d)'
<1>0. TypeOK /\ run[d].step = "commit"
  BY DEF ClientInv, Commit, At
<1>1. PICK v : v = run[d].cur
  OBVIOUS
<1>2. CASE Fail(d, "refused")
  BY <1>2, FailSucceeds
<1>3. CASE v \in published
  <2>1. /\ Goto(d, "record")
        /\ UNCHANGED <<manifest, heads, published, work, files, outbox, versions, verdict>>
    BY <1>1, <1>3 DEF Commit, serverVars, folderVars, indexVars
  <2>2. QED BY <1>0, <2>1, PublishingSucceeds
<1>4. CASE v \notin published /\ ~Fail(d, "refused")
  <2>1. /\ Goto(d, "record") /\ published' = published \union {v}
        /\ heads' = [heads EXCEPT ![PathOf(v)] = v] /\ Disturb(Device \ {d})
        /\ UNCHANGED <<manifest, work, files, outbox, versions>>
    BY <1>1, <1>4 DEF Commit, folderVars, indexVars
  <2>2. verdict'[d] = verdict[d]
    BY <2>1 DEF Disturb
  <2>3. \A p \in Path : heads'[p] = heads[p] \/ run[d].cur = heads'[p]
    BY <1>0, <1>1, <2>1 DEF TypeOK
  <2>4. published \subseteq published'
    BY <2>1
  <2> HIDE DEF Goto
  <2>5. QED BY <1>0, <2>1, <2>2, <2>3, <2>4, PublishingSucceeds
<1>5. QED BY <1>2, <1>3, <1>4

LEMMA RecordSucceeds ==
    ASSUME ClientInv, NEW d \in Device, SuccessOk(d), Record(d) PROVE SuccessOk(d)'
<1>0. /\ TypeOK /\ RunOk(d) /\ CourseOk(d) /\ IndexOk(d) /\ run[d].step = "record" /\ run[d].step \in Publishing
      /\ verdict[d] = "running" => OnCourse(d)
      /\ verdict[d] = "done" => run[d].phase = "idle"
  BY DEF ClientInv, SuccessOk, CourseOk, Record, At, Publishing
<1>1. PICK v \in Ids : v = run[d].cur
  BY <1>0, PublishFacts
<1>2. PICK q \in Path : q = PathOf(v)
  BY <1>0, <1>1, ManifestFacts
<1>3. /\ v # 0 /\ versions[d] \subseteq Ids /\ run[d].phase \in {"outbox", "scan", "deletions"}
      /\ run[d].phase = "outbox" => run[d].mode \in {"RUN", "PUSH"}
      /\ files \in [Device -> [Path -> Base]]
  BY <1>0, <1>1, PublishFacts, ManifestFacts DEF IndexOk, TypeOK
<1>4. /\ files'[d] = [files[d] EXCEPT ![q] = v] /\ versions'[d] = versions[d] \union {v}
      /\ outbox'[d] = outbox[d] \ {v}
      /\ UNCHANGED <<manifest, heads, published, work, verdict>>
  BY <1>0, <1>1, <1>2 DEF Record, TypeOK, serverVars, folderVars
<1>5. /\ SameAim(d) /\ run'[d].step = "next" /\ run'[d].todo = run[d].todo \ {v}
      /\ run'[d].paths = run[d].paths
  BY <1>0, <1>1, ContinueRun DEF Record
<1>6. /\ files'[d][q] = v /\ \A p \in Path : p # q => files'[d][p] = files[d][p]
      /\ Ids' = Ids /\ \A u \in Ids : PathOf(u)' = PathOf(u) /\ ContentOf(u)' = ContentOf(u)
  BY <1>3, <1>4 DEF Ids, PathOf, ContentOf
<1>7. CourseOk(d)'
  <2>1. \A u \in versions'[d], p \in Path : PathOf(u)' = p => files'[d][p] # 0
    BY <1>0, <1>2, <1>3, <1>4, <1>6 DEF CourseOk
  <2>2. /\ run[d].phase = "outbox" => outbox'[d] \subseteq run'[d].todo
        /\ run[d].phase \in ScanPhase => run[d].mode \in {"RUN", "PUSH", "KEEP"}
    BY <1>0, <1>4, <1>5 DEF CourseOk
  <2>3. run'[d].mode = "KEEP" /\ run'[d].phase \in ScanPhase =>
          run'[d].remote \in published' /\ \A p \in run'[d].paths : PathOf(run[d].remote)' = p
    BY <1>0, <1>4, <1>5 DEF CourseOk, SameAim, PathOf
  <2>4. QED BY <1>0, <1>3, <1>4, <1>5, <2>1, <2>2, <2>3 DEF CourseOk, SameAim, PathOf
<1>8. ASSUME verdict[d] = "running" PROVE OnCourse(d)'
  <2>1. OnCourse(d)
    BY <1>0, <1>8
  <2>2. \A p \in Path : HeadKnown(d, p) => HeadKnown(d, p)'
    BY <1>1, <1>4 DEF HeadKnown
  <2>3. HeadsOk(d)'
    BY <1>5, <2>1, <2>2 DEF OnCourse, HeadsOk, SameAim
  <2>4. ScanOk(d)'
    <3>1. SUFFICES ASSUME run[d].phase \in ScanPhase PROVE ScanOk(d)'
      BY <1>5 DEF ScanOk, SameAim
    <3>2. work[d][q] = ContentOf(v)
      BY <1>0, <1>1, <1>2, <2>1, <3>1 DEF OnCourse, ScanOk
    <3>3. Same(d, q)'
      BY <1>4, <1>6, <3>2 DEF Same, ContentOf
    <3>4. \A p \in Path : p # q /\ Matched(d, p) => Same(d, p)'
      BY <1>1, <1>2, <1>4, <1>6 DEF Matched, InHand, Same, ContentOf
    <3>5. \A p \in Path : Matched(d, p) => Matched(d, p)'
      BY <3>3, <3>4 DEF Matched
    <3>6. run[d].mode # "KEEP" => \A p \in Path :
            \/ Matched(d, p)'
            \/ run[d].phase = "scan" /\ p \in run[d].paths
            \/ work[d][p] = NoFile /\ (run[d].phase = "scan" \/ p \in run[d].paths)
      BY <2>1, <3>1, <3>5 DEF OnCourse, ScanOk
    <3>7. run[d].mode = "KEEP" => \A h \in Ids, p \in Path : run[d].remote = h /\ PathOf(h) = p =>
            /\ HeadKnown(d, p)'
            /\ p \notin run[d].paths => Matched(d, p)'
            /\ p \in run[d].paths => /\ work[d][p] = run[d].accepted
                                     /\ run[d].accepted = NoFile <=> run[d].phase = "deletions"
      BY <2>1, <2>2, <3>1, <3>5 DEF OnCourse, ScanOk
    <3>8. QED BY <1>4, <1>5, <1>6, <3>6, <3>7 DEF ScanOk, SameAim, Publishing
  <2>5. PendingOk(d)' /\ AimOk(d)' /\ ItemOk(d)'
    BY <1>3, <1>5 DEF PendingOk, AimOk, ItemOk, SameAim, ResolvePhase
  <2>6. QED BY <2>3, <2>4, <2>5 DEF OnCourse
<1>9. QED BY <1>0, <1>3, <1>4, <1>5, <1>7, <1>8 DEF SuccessOk, SameAim

\* A path that needs no publication.
LEMMA SkipSucceeds ==
    ASSUME ClientInv, NEW d \in Device, SuccessOk(d), NEW p \in Path, Skip(d, p), p \in run[d].paths,
           run[d].step = "next", run[d].phase \in ScanPhase,
           verdict[d] = "running" => Same(d, p) \/ (work[d][p] = NoFile /\ run[d].phase = "scan")
    PROVE  SuccessOk(d)'
<1> DEFINE r == [run[d] EXCEPT !.paths = @ \ {p}]
<1>1. /\ TypeOK /\ RunOk(d) /\ CourseOk(d)
      /\ verdict[d] = "running" => OnCourse(d)
      /\ verdict[d] = "done" => run[d].phase = "idle"
      /\ UNCHANGED <<manifest, heads, published, work, files, outbox, versions, verdict>>
      /\ run[d] \in Run /\ run' = [run EXCEPT ![d] = r]
  BY RunFacts DEF ClientInv, SuccessOk, CourseOk, Skip, serverVars, folderVars, indexVars
<1>2. /\ r \in Run /\ r.step = "next" /\ r.phase = run[d].phase /\ r.mode = run[d].mode
      /\ r.remote = run[d].remote /\ r.accepted = run[d].accepted /\ r.todo = run[d].todo
      /\ r.cur = run[d].cur /\ r.paths = run[d].paths \ {p}
  BY <1>1 DEF Run
<1> HIDE DEF r
<1>3. run'[d] = r
  BY <1>1, <1>2, TurnedTo
<1>4. CourseOk(d)'
  BY <1>1, <1>2, <1>3 DEF CourseOk, PathOf, ScanPhase
<1>5. \A x \in Path : (Matched(d, x) => Matched(d, x)') /\ (HeadKnown(d, x) => HeadKnown(d, x)')
  BY <1>1, <1>2, <1>3 DEF Matched, InHand, Publishing, Same, ContentOf, HeadKnown
<1>6. ASSUME verdict[d] = "running" PROVE OnCourse(d)'
  <2>1. OnCourse(d)
    BY <1>1, <1>6
  <2>2. HeadsOk(d)'
    BY <1>2, <1>3, <1>5, <2>1 DEF OnCourse, HeadsOk
  <2>3. Same(d, p) => Matched(d, p)'
    BY <1>5 DEF Matched
  <2>4. r.mode # "KEEP" => \A x \in Path :
          \/ Matched(d, x)'
          \/ r.phase = "scan" /\ x \in r.paths
          \/ work[d][x] = NoFile /\ (r.phase = "scan" \/ x \in r.paths)
    <3>1. ASSUME r.mode # "KEEP", NEW x \in Path
          PROVE  \/ Matched(d, x)'
                 \/ r.phase = "scan" /\ x \in r.paths
                 \/ work[d][x] = NoFile /\ (r.phase = "scan" \/ x \in r.paths)
      <4>1. CASE x = p
        BY <1>2, <1>6, <2>3, <4>1
      <4>2. CASE x # p
        BY <1>2, <1>5, <2>1, <3>1, <4>2 DEF OnCourse, ScanOk
      <4>3. QED BY <4>1, <4>2
    <3>2. QED BY <3>1
  <2>5. ASSUME r.mode = "KEEP", NEW h \in Ids, NEW x \in Path, r.remote = h, PathOf(h) = x
        PROVE  HeadKnown(d, x)' /\ x \notin r.paths /\ Matched(d, x)'
    <3>1. x = p
      BY <1>1, <1>2, <2>5 DEF CourseOk
    <3>2. /\ HeadKnown(d, x) /\ work[d][x] = run[d].accepted
          /\ run[d].accepted = NoFile <=> run[d].phase = "deletions"
      BY <1>2, <2>1, <2>5, <3>1 DEF OnCourse, ScanOk
    <3>3. Same(d, p)
      BY <1>6, <3>1, <3>2
    <3>4. QED BY <1>2, <1>5, <2>3, <3>1, <3>2, <3>3
  <2>6. ScanOk(d)'
    BY <1>1, <1>2, <1>3, <2>4, <2>5 DEF ScanOk, Publishing, Ids, PathOf
  <2>7. PendingOk(d)' /\ AimOk(d)' /\ ItemOk(d)'
    BY <1>2, <1>3 DEF PendingOk, AimOk, ItemOk, ScanPhase, ResolvePhase
  <2>8. QED BY <2>2, <2>6, <2>7 DEF OnCourse
<1>7. QED BY <1>1, <1>2, <1>3, <1>4, <1>6 DEF SuccessOk, ScanPhase

LEMMA NewVersionSucceeds ==
    ASSUME ClientInv, ClientInv', NEW d \in Device, SuccessOk(d), NEW p \in Path, NEW c \in Local,
           NewVersion(d, p, c), p \in run[d].paths, run[d].step = "next", run[d].phase \in ScanPhase,
           verdict[d] = "running" => work[d][p] = c
    PROVE  SuccessOk(d)'
<1> DEFINE n == Len(manifest) + 1
           m == [path |-> p, origin |-> d, parent |-> files[d][p], content |-> c]
           r == [run[d] EXCEPT !.step = "prepare", !.cur = n, !.paths = @ \ {p}]
<1>0. /\ TypeOK /\ HistoryInv /\ RunOk(d) /\ CourseOk(d) /\ IndexOk(d)
      /\ verdict[d] = "running" => OnCourse(d)
      /\ verdict[d] = "done" => run[d].phase = "idle"
      /\ run[d] \in Run /\ files[d][p] \in Base
  BY RunFacts DEF ClientInv, SuccessOk, CourseOk, TypeOK
<1>1. CASE Fail(d, "none")
  BY <1>1, FailSucceeds
<1>2. CASE ~Fail(d, "none")
  <2>1. /\ Len(manifest) < MaxVersions /\ manifest' = Append(manifest, m)
        /\ run' = [run EXCEPT ![d] = r]
        /\ UNCHANGED <<heads, published, work, files, versions, verdict>>
    BY <1>2 DEF NewVersion, serverVars, folderVars
  <2>2. m \in Manifest /\ m.path = p /\ m.content = c
    BY <1>0 DEF Manifest
  <2>3. /\ n \in Base /\ n \notin Ids /\ Ids' = Ids \union {n} /\ manifest'[n] = m
        /\ \A u \in Ids : manifest'[u] = manifest[u]
    BY <1>0, <2>1, <2>2, Appended
  <2>4. n # 0
    BY <1>0, Numbers
  <2> HIDE DEF m
  <2>5. PICK v : v = n
    OBVIOUS
  <2> HIDE DEF n
  <2>6. /\ r \in Run /\ r.step = "prepare" /\ r.phase = run[d].phase /\ r.mode = run[d].mode
        /\ r.remote = run[d].remote /\ r.accepted = run[d].accepted /\ r.todo = run[d].todo
        /\ r.cur = v /\ r.paths = run[d].paths \ {p}
    BY <1>0, <2>3, <2>5 DEF Run
  <2> HIDE DEF r
  <2>7. run'[d] = r
    BY <1>0, <2>1, <2>6, TurnedTo
  <2>8. /\ \A u \in Ids : PathOf(u)' = PathOf(u) /\ ContentOf(u)' = ContentOf(u)
        /\ PathOf(v)' = p /\ ContentOf(v)' = c /\ ContentOf(0)' = ContentOf(0)
        /\ v \in Ids' /\ v \notin Ids /\ Ids' = Ids \union {v} /\ versions[d] \subseteq Ids
        /\ published \subseteq Ids
    BY <1>0, <2>2, <2>3, <2>4, <2>5, Numbers DEF PathOf, ContentOf, IndexOk
  <2>9. ASSUME NEW x \in Path PROVE Same(d, x)' = Same(d, x)
    <3>1. PICK f : f = files[d][x]
      OBVIOUS
    <3>2. ContentOf(f)' = ContentOf(f)
      BY <1>0, <2>8, <3>1, HeadFacts
    <3>3. QED BY <2>1, <3>1, <3>2 DEF Same, ContentOf
  <2>10. ASSUME NEW x \in Path
         PROVE  /\ Matched(d, x) => Matched(d, x)'
                /\ HeadKnown(d, x) => HeadKnown(d, x)'
    BY <2>1, <2>9 DEF Matched, InHand, Publishing, HeadKnown
  <2>11. Matched(d, p)'
    BY <2>6, <2>7, <2>8 DEF Matched, InHand, Publishing
  <2>12. ASSUME NEW h, r.mode = "KEEP", r.remote = h
         PROVE  h \in Ids /\ h \in published /\ \A x \in run[d].paths : PathOf(h) = x
    BY <1>0, <2>6, <2>8, <2>12 DEF CourseOk
  <2>13. CourseOk(d)'
    <3>1. \A u \in versions[d], x \in Path : PathOf(u)' = x => files[d][x] # 0
      BY <1>0, <2>8 DEF CourseOk
    <3>2. r.mode = "KEEP" => r.remote \in published /\ \A x \in r.paths : PathOf(run[d].remote)' = x
      <4>1. PICK h : h = r.remote
        OBVIOUS
      <4>2. r.mode = "KEEP" => h \in published /\ \A x \in r.paths : PathOf(h)' = x
        BY <2>6, <2>8, <2>12, <4>1
      <4>3. QED BY <2>7, <4>1, <4>2 DEF PathOf
    <3>3. /\ UNCHANGED <<published, files, versions, verdict>>
          /\ r.phase \in ScanPhase /\ r.mode \in {"RUN", "PUSH", "KEEP"} /\ verdict[d] # "done"
      BY <1>0, <2>1, <2>6 DEF CourseOk, ScanPhase
    <3>4. QED BY <2>6, <2>7, <3>1, <3>2, <3>3 DEF CourseOk, PathOf, ScanPhase
  <2>14. ASSUME verdict[d] = "running" PROVE OnCourse(d)'
    <3>1. OnCourse(d)
      BY <1>0, <2>14
    <3>2. HeadsOk(d)'
      BY <2>6, <2>7, <2>10, <3>1 DEF OnCourse, HeadsOk
    <3>3. \A u \in Ids', x \in Path : r.cur = u /\ PathOf(u)' = x => work[d][x] = ContentOf(u)'
      BY <2>6, <2>8, <2>14
    <3>4. r.mode # "KEEP" => \A x \in Path :
            \/ Matched(d, x)'
            \/ r.phase = "scan" /\ x \in r.paths
            \/ work[d][x] = NoFile /\ (r.phase = "scan" \/ x \in r.paths)
      BY <2>6, <2>10, <2>11, <3>1 DEF OnCourse, ScanOk
    <3>5. ASSUME r.mode = "KEEP", NEW h \in Ids', NEW x \in Path, r.remote = h, PathOf(h)' = x
          PROVE  HeadKnown(d, x)' /\ x \notin r.paths /\ Matched(d, x)'
      <4>1. h \in Ids /\ PathOf(h) = x /\ x = p
        BY <2>8, <2>12, <3>5
      <4>2. HeadKnown(d, x)
        BY <2>6, <3>1, <3>5, <4>1 DEF OnCourse, ScanOk
      <4>3. QED BY <2>6, <2>10, <2>11, <4>1, <4>2
    <3>6. ScanOk(d)'
      BY <2>1, <2>6, <2>7, <3>3, <3>4, <3>5 DEF ScanOk
    <3>7. PendingOk(d)' /\ AimOk(d)' /\ ItemOk(d)'
      BY <2>6, <2>7 DEF PendingOk, AimOk, ItemOk, ScanPhase, ResolvePhase
    <3>8. QED BY <3>2, <3>6, <3>7 DEF OnCourse
  <2>15. QED BY <1>0, <2>1, <2>13, <2>14 DEF SuccessOk, ScanPhase
<1>3. QED BY <1>1, <1>2

LEMMA ScanFileSucceeds ==
    ASSUME ClientInv, ClientInv', NEW d \in Device, SuccessOk(d), NEW p \in Path, ScanFile(d, p)
    PROVE  SuccessOk(d)'
<1>1. /\ run[d].step = "next" /\ run[d].phase \in ScanPhase /\ run[d].phase = "scan"
      /\ p \in run[d].paths /\ work[d][p] \in Local
  BY DEF ClientInv, TypeOK, ScanFile, At, ScanPhase
<1>2. CASE work[d][p] = NoFile \/ Same(d, p)
  BY <1>1, <1>2, SkipSucceeds DEF ScanFile
<1>3. CASE ~(work[d][p] = NoFile \/ Same(d, p))
  BY <1>1, <1>3, NewVersionSucceeds DEF ScanFile
<1>4. QED BY <1>2, <1>3

LEMMA PushDeletionSucceeds ==
    ASSUME ClientInv, ClientInv', NEW d \in Device, SuccessOk(d), NEW p \in Path, PushDeletion(d, p)
    PROVE  SuccessOk(d)'
<1>1. /\ run[d].step = "next" /\ run[d].phase \in ScanPhase /\ run[d].phase = "deletions"
      /\ p \in run[d].paths /\ NoFile \in Local /\ CourseOk(d) /\ TypeOK
  BY DEF ClientInv, SuccessOk, PushDeletion, At, ScanPhase, Local
<1>2. ASSUME run[d].mode = "KEEP", verdict[d] = "running" PROVE work[d][p] = NoFile
  <2>1. PICK h \in Ids : h = run[d].remote
    BY <1>1, <1>2, Numbers DEF CourseOk
  <2>2. PathOf(h) = p
    BY <1>1, <1>2, <2>1 DEF CourseOk
  <2>3. QED BY <1>1, <1>2, <2>1, <2>2 DEF SuccessOk, OnCourse, ScanOk
<1>3. CASE (run[d].mode = "KEEP" \/ work[d][p] = NoFile) /\ ContentOf(files[d][p]) # NoFile
  <2>1. NewVersion(d, p, NoFile)
    BY <1>3 DEF PushDeletion
  <2>2. QED BY <1>1, <1>2, <1>3, <2>1, NewVersionSucceeds
<1>4. CASE ~((run[d].mode = "KEEP" \/ work[d][p] = NoFile) /\ ContentOf(files[d][p]) # NoFile)
  <2>1. Skip(d, p)
    BY <1>4 DEF PushDeletion
  <2>2. ASSUME verdict[d] = "running" PROVE Same(d, p)
    <3>1. CASE work[d][p] = NoFile
      BY <1>4, <3>1 DEF Same
    <3>2. CASE work[d][p] # NoFile
      <4>1. run[d].mode # "KEEP"
        BY <1>2, <2>2, <3>2
      <4>2. Matched(d, p)
        BY <1>1, <2>2, <3>2, <4>1 DEF SuccessOk, OnCourse, ScanOk
      <4>3. QED BY <1>1, <4>2 DEF Matched, InHand, Publishing
    <3>3. QED BY <3>1, <3>2
  <2>3. QED BY <1>1, <2>1, <2>2, SkipSucceeds
<1>5. QED BY <1>3, <1>4

\* A step within the reception of a version, up to its settlement.
LEMMA ReceivingSucceeds ==
    ASSUME ClientInv, NEW d \in Device, SuccessOk(d), run[d].phase \in ReceivePhase,
           SameAim(d), run'[d].todo = run[d].todo,
           UNCHANGED <<manifest, heads, published, files, outbox, versions, verdict>>,
           run[d].mode = "KEEP" => /\ work'[d] = work[d]
                                   /\ run'[d].step \notin {"apply", "replace", "recycle"}
                                   /\ run'[d].step = "fetch" => run'[d].already,
           run'[d].step \notin Receiving => run[d].step \notin Receiving /\ work'[d] = work[d],
           verdict[d] = "running" => ItemOk(d)'
    PROVE  SuccessOk(d)'
<1>1. /\ TypeOK /\ PhaseOk(d) /\ CourseOk(d)
      /\ verdict[d] = "running" => OnCourse(d)
      /\ verdict[d] # "done" /\ run[d].phase \notin ScanPhase /\ run[d].mode # "PUSH"
      /\ run[d].phase \in ResolvePhase => run[d].phase # "drop"
  BY DEF ClientInv, RunOk, PhaseOk, SuccessOk, CourseOk, ReceivePhase, ResolvePhase, ScanPhase
<1>2. CourseOk(d)'
  BY <1>1 DEF CourseOk, SameAim, PathOf
<1>3. ASSUME verdict[d] = "running" PROVE OnCourse(d)'
  <2>1. OnCourse(d) /\ ItemOk(d)'
    BY <1>1, <1>3
  <2>2. HeadsOk(d)' /\ ScanOk(d)'
    BY <1>1 DEF HeadsOk, ScanOk, SameAim
  <2>3. PendingOk(d)'
    BY <2>1 DEF OnCourse, PendingOk, SameAim
  <2>4. AimOk(d)'
    BY <2>1 DEF OnCourse, AimOk, SameAim, Ids, PathOf, ContentOf
  <2>5. QED BY <2>1, <2>2, <2>3, <2>4 DEF OnCourse
<1>4. QED BY <1>1, <1>2, <1>3 DEF SuccessOk

LEMMA ReceiveSucceeds ==
    ASSUME ClientInv, NEW d \in Device, SuccessOk(d), Receive(d) PROVE SuccessOk(d)'
<1>0. /\ TypeOK /\ RunOk(d) /\ run[d].step = "next" /\ run[d].todo # {}
      /\ run[d].phase \in ReceivePhase /\ run[d].todo \subseteq Version
      /\ run[d].todo \subseteq published
  BY RunFacts DEF ClientInv, RunOk, TodoOk, Receive, At, ReceivePhase
<1>1. PICK v : v = Oldest(run[d].todo)
  OBVIOUS
<1>2. v \in Ids /\ v \in Base
  BY <1>0, <1>1, OldestFacts, Numbers
<1>3. PICK q \in Path : q = PathOf(v)
  BY <1>0, <1>2, ManifestFacts
<1>4. CASE inbox[d][v] = "APPLIED"
  <2>1. /\ run' = [run EXCEPT ![d].step = "ack", ![d].cur = v]
        /\ UNCHANGED <<manifest, heads, published, work, files, outbox, versions, verdict>>
    BY <1>1, <1>4 DEF Receive, serverVars, folderVars, indexVars
  <2>2. SameAim(d) /\ run'[d].step = "ack" /\ run'[d].todo = run[d].todo
    BY <1>0, <1>2, <2>1, TakeRun DEF Step
  <2>3. ItemOk(d)'
    BY <2>2 DEF ItemOk
  <2>4. QED BY <1>0, <2>1, <2>2, <2>3, ReceivingSucceeds DEF Receiving
<1>5. CASE inbox[d][v] # "APPLIED" /\ (~MayReceive(d, v) \/ ~MayDelete(d, v))
  <2>1. Fail(d, "conflict") \/ Fail(d, "none")
    BY <1>1, <1>5 DEF Receive
  <2>2. QED BY <2>1, FailSucceeds
<1>6. CASE inbox[d][v] # "APPLIED" /\ MayReceive(d, v) /\ MayDelete(d, v)
  <2> DEFINE b == run[d].mode = "KEEP" \/ InPlace(d, v) \/ Adopted(d, v)
             r == [run[d] EXCEPT !.step = "fetch", !.cur = v, !.actual = work[d][q], !.already = b]
  <2>1. /\ run' = [run EXCEPT ![d] = r]
        /\ UNCHANGED <<manifest, heads, published, work, files, outbox, versions, verdict>>
    BY <1>1, <1>3, <1>6 DEF Receive, serverVars, folderVars
  <2>2. work[d][q] \in Local /\ run[d] \in Run
    BY <1>0, RunFacts DEF TypeOK
  <2>3. b \in BOOLEAN /\ (run[d].mode = "KEEP" => b)
        /\ (run[d].mode = "USE" /\ b => work[d][q] = ContentOf(v))
    BY <1>3 DEF InPlace, Adopted
  <2> HIDE DEF b
  <2>4. /\ r \in Run /\ r.step = "fetch" /\ r.cur = v /\ r.actual = work[d][q] /\ r.already = b
        /\ r.mode = run[d].mode /\ r.phase = run[d].phase /\ r.todo = run[d].todo
        /\ r.remote = run[d].remote /\ r.accepted = run[d].accepted
    BY <1>2, <2>2, <2>3 DEF Run
  <2> HIDE DEF r
  <2>5. run'[d] = r
    BY <1>0, <2>1, <2>4, TurnedTo
  <2>6. ItemOk(d)'
    BY <1>3, <2>1, <2>3, <2>4, <2>5 DEF ItemOk, PathOf, ContentOf
  <2>7. SameAim(d) /\ r.step \in Receiving /\ run'[d].todo = run[d].todo
    BY <2>4, <2>5 DEF SameAim, Receiving
  <2>8. QED BY <1>0, <2>1, <2>3, <2>4, <2>5, <2>6, <2>7, ReceivingSucceeds
<1>7. QED BY <1>4, <1>5, <1>6

LEMMA FetchSucceeds ==
    ASSUME ClientInv, NEW d \in Device, SuccessOk(d), Fetch(d) PROVE SuccessOk(d)'
<1>0. TypeOK /\ CourseOk(d) /\ run[d].step = "fetch"
  BY DEF ClientInv, SuccessOk, Fetch, At
<1>1. PICK v \in Ids : v = run[d].cur
  BY <1>0, ReceiveFacts DEF Receiving
<1>2. PICK s : s = IF run[d].already THEN "settle"
                   ELSE IF ContentOf(v) # NoFile THEN "apply"
                   ELSE IF run[d].actual # NoFile THEN "recycle"
                   ELSE "settle"
  OBVIOUS
<1>3. /\ Goto(d, s) /\ s \in Step /\ s \in Receiving /\ run[d].phase \in ReceivePhase
      /\ UNCHANGED <<manifest, heads, published, work, files, outbox, versions, verdict>>
  BY <1>0, <1>1, <1>2, ReceiveFacts DEF Fetch, Step, Receiving, serverVars, folderVars
<1>4. /\ SameAim(d) /\ SameItem(d) /\ run'[d].step = s /\ run'[d].todo = run[d].todo
      /\ run'[d].cur = run[d].cur
  BY <1>0, <1>3, GotoRun
<1>5. run[d].mode = "KEEP" => s = "settle"
  BY <1>0, <1>2 DEF CourseOk
<1>6. ASSUME verdict[d] = "running" PROVE ItemOk(d)'
  <2>1. ASSUME run[d].mode = "USE", NEW q \in Path, PathOf(v) = q
        PROVE  /\ s = "recycle" => ContentOf(v) = NoFile
               /\ s = "settle" => work[d][q] = ContentOf(v)
    <3>1. work[d][q] = run[d].actual /\ (run[d].already => run[d].actual = ContentOf(v))
      BY <1>0, <1>1, <1>6, <2>1 DEF SuccessOk, OnCourse, ItemOk
    <3>2. QED BY <1>2, <3>1
  <2>2. s # "fetch"
    BY <1>2
  <2>3. QED BY <1>1, <1>3, <1>4, <2>1, <2>2 DEF ItemOk, SameAim, PathOf, ContentOf
<1>7. QED BY <1>3, <1>4, <1>5, <1>6, ReceivingSucceeds

LEMMA RecheckSucceeds ==
    ASSUME ClientInv, NEW d \in Device, SuccessOk(d), Recheck(d) PROVE SuccessOk(d)'
<1>0. TypeOK /\ CourseOk(d) /\ run[d].step = "apply" /\ run[d].phase \in ReceivePhase
  BY ReceiveFacts DEF ClientInv, SuccessOk, Recheck, At, Receiving
<1>1. CASE Fail(d, "none")
  BY <1>1, FailSucceeds
<1>2. CASE ~Fail(d, "none")
  <2>1. /\ Goto(d, "replace")
        /\ UNCHANGED <<manifest, heads, published, work, files, outbox, versions, verdict>>
    BY <1>2 DEF Recheck, serverVars, folderVars, indexVars
  <2>2. SameAim(d) /\ run'[d].step = "replace" /\ run'[d].todo = run[d].todo
    BY <1>0, <2>1, GotoRun DEF Step
  <2>3. run[d].mode # "KEEP" /\ ItemOk(d)'
    BY <1>0, <2>2 DEF CourseOk, ItemOk
  <2>4. QED BY <1>0, <2>1, <2>2, <2>3, ReceivingSucceeds DEF Receiving
<1>3. QED BY <1>1, <1>2

\* The working file has become what the version holds.
LEMMA WrittenSucceeds ==
    ASSUME ClientInv, NEW d \in Device, SuccessOk(d), run[d].step \in {"replace", "recycle"},
           Goto(d, "settle"), UNCHANGED <<manifest, heads, published, files, outbox, versions, verdict>>,
           NEW v \in Ids, v = run[d].cur, NEW q \in Path, q = PathOf(v),
           run[d].mode = "USE" /\ verdict[d] = "running" => work'[d][q] = ContentOf(v)
    PROVE  SuccessOk(d)'
<1>0. TypeOK /\ CourseOk(d) /\ run[d].phase \in ReceivePhase
  BY ReceiveFacts DEF ClientInv, SuccessOk, Receiving
<1>1. /\ SameAim(d) /\ run'[d].step = "settle" /\ run'[d].todo = run[d].todo
      /\ run'[d].cur = run[d].cur
  BY <1>0, GotoRun DEF Step
<1>2. run[d].mode # "KEEP"
  BY <1>0 DEF CourseOk
<1>3. verdict[d] = "running" => ItemOk(d)'
  BY <1>1 DEF ItemOk, SameAim, PathOf, ContentOf
<1>4. QED BY <1>0, <1>1, <1>2, <1>3, ReceivingSucceeds DEF Receiving

LEMMA ReplaceSucceeds ==
    ASSUME ClientInv, NEW d \in Device, SuccessOk(d), Replace(d) PROVE SuccessOk(d)'
<1>0. TypeOK /\ run[d].step = "replace"
  BY DEF ClientInv, Replace, At
<1>1. PICK v \in Ids : v = run[d].cur
  BY <1>0, ReceiveFacts DEF Receiving
<1>2. PICK q \in Path : q = PathOf(v)
  BY <1>0, <1>1, ManifestFacts
<1>3. /\ Goto(d, "settle") /\ work' = [work EXCEPT ![d][q] = ContentOf(v)]
      /\ UNCHANGED <<manifest, heads, published, files, outbox, versions, verdict>>
  BY <1>1, <1>2 DEF Replace, serverVars, indexVars
<1>4. work'[d][q] = ContentOf(v)
  BY <1>0, <1>3 DEF TypeOK
<1>5. QED BY <1>0, <1>1, <1>2, <1>3, <1>4, WrittenSucceeds

LEMMA RecycleSucceeds ==
    ASSUME ClientInv, NEW d \in Device, SuccessOk(d), Recycle(d) PROVE SuccessOk(d)'
<1>0. TypeOK /\ run[d].step = "recycle"
  BY DEF ClientInv, Recycle, At
<1>1. PICK v \in Ids : v = run[d].cur
  BY <1>0, ReceiveFacts DEF Receiving
<1>2. PICK q \in Path : q = PathOf(v)
  BY <1>0, <1>1, ManifestFacts
<1>3. CASE Fail(d, "none")
  BY <1>3, FailSucceeds
<1>4. CASE ~Fail(d, "none")
  <2>1. /\ Goto(d, "settle") /\ work' = [work EXCEPT ![d][q] = NoFile]
        /\ UNCHANGED <<manifest, heads, published, files, outbox, versions, verdict>>
    BY <1>1, <1>2, <1>4 DEF Recycle, serverVars, indexVars
  <2>2. work'[d][q] = NoFile
    BY <1>0, <2>1 DEF TypeOK
  <2>3. run[d].mode = "USE" /\ verdict[d] = "running" => ContentOf(v) = NoFile
    BY <1>0, <1>1, <1>2 DEF SuccessOk, OnCourse, ItemOk
  <2>4. QED BY <1>0, <1>1, <1>2, <2>1, <2>2, <2>3, WrittenSucceeds
<1>5. QED BY <1>3, <1>4

LEMMA AcknowledgeSucceeds ==
    ASSUME ClientInv, NEW d \in Device, SuccessOk(d), Acknowledge(d) PROVE SuccessOk(d)'
<1>0. TypeOK /\ run[d].step = "ack" /\ run[d].phase \in ReceivePhase
  BY ReceiveFacts DEF ClientInv, Acknowledge, At, Closing
<1>1. CASE Fail(d, "none")
  BY <1>1, FailSucceeds
<1>2. CASE ~Fail(d, "none")
  <2>1. /\ Goto(d, "forget")
        /\ UNCHANGED <<manifest, heads, published, work, files, outbox, versions, verdict>>
    BY <1>2 DEF Acknowledge, folderVars, indexVars
  <2>2. SameAim(d) /\ run'[d].step = "forget" /\ run'[d].todo = run[d].todo
    BY <1>0, <2>1, GotoRun DEF Step
  <2>3. ItemOk(d)'
    BY <2>2 DEF ItemOk
  <2>4. QED BY <1>0, <2>1, <2>2, <2>3, ReceivingSucceeds DEF Receiving
<1>3. QED BY <1>1, <1>2

LEMMA SettleSucceeds ==
    ASSUME ClientInv, NEW d \in Device, SuccessOk(d), Settle(d) PROVE SuccessOk(d)'
<1>0. /\ TypeOK /\ RunOk(d) /\ CourseOk(d) /\ IndexOk(d) /\ run[d].step = "settle"
      /\ run[d].step \in Receiving /\ run[d] \in Run
      /\ verdict[d] = "running" => OnCourse(d)
      /\ verdict[d] = "done" => run[d].phase = "idle"
  BY RunFacts DEF ClientInv, SuccessOk, CourseOk, Settle, At, Receiving
<1>1. PICK v \in Ids : v = run[d].cur
  BY <1>0, ReceiveFacts
<1>2. PICK q \in Path : q = PathOf(v)
  BY <1>0, <1>1, ManifestFacts
<1>3. /\ v # 0 /\ versions[d] \subseteq Ids /\ files \in [Device -> [Path -> Base]]
      /\ v \in run[d].todo /\ run[d].phase \in ReceivePhase /\ ContentOf(v) \in Local
      /\ run[d].phase \in {"inbox", "pending"} => run[d].mode \in {"RUN", "PULL"}
      /\ run[d].phase \in ResolvePhase => run[d].mode \in {"KEEP", "USE"}
  BY <1>0, <1>1, ReceiveFacts, ManifestFacts DEF RunOk, PhaseOk, IndexOk, TypeOK
<1>4. CASE Fail(d, "conflict")
  BY <1>4, FailSucceeds
<1>5. CASE ~Fail(d, "conflict")
  <2> DEFINE a == IF run[d].mode = "USE" THEN ContentOf(v) ELSE run[d].accepted
             r == [run[d] EXCEPT !.step = "ack", !.accepted = a]
  <2>1. /\ files'[d] = [files[d] EXCEPT ![q] = v] /\ versions'[d] = versions[d] \union {v}
        /\ UNCHANGED <<manifest, heads, published, work, outbox, verdict>>
        /\ run' = [run EXCEPT ![d] = r]
    BY <1>0, <1>1, <1>2, <1>5 DEF Settle, TypeOK, serverVars, folderVars
  <2>2. a \in Local /\ (run[d].mode = "KEEP" => a = run[d].accepted)
    BY <1>0, <1>3, RunFacts
  <2> HIDE DEF a
  <2>3. /\ r \in Run /\ r.step = "ack" /\ r.accepted = a /\ r.phase = run[d].phase
        /\ r.mode = run[d].mode /\ r.remote = run[d].remote /\ r.todo = run[d].todo
    BY <1>0, <2>2 DEF Run
  <2> HIDE DEF r
  <2>4. run'[d] = r
    BY <1>0, <2>1, <2>3, TurnedTo
  <2>5. /\ files'[d][q] = v /\ \A p \in Path : p # q => files'[d][p] = files[d][p]
        /\ Ids' = Ids /\ \A u \in Ids : PathOf(u)' = PathOf(u) /\ ContentOf(u)' = ContentOf(u)
    BY <1>3, <2>1 DEF Ids, PathOf, ContentOf
  <2>6. CourseOk(d)'
    <3>1. \A u \in versions'[d], p \in Path : PathOf(u)' = p => files'[d][p] # 0
      BY <1>0, <1>2, <1>3, <2>1, <2>5 DEF CourseOk
    <3>2. /\ r.mode = "RUN" /\ r.phase \in {"inbox", "pending"} => outbox'[d] = {}
          /\ r.phase \in ReceivePhase /\ r.todo # {} /\ verdict'[d] # "done"
      BY <1>0, <1>3, <2>1, <2>3 DEF CourseOk, ReceivePhase
    <3>3. QED BY <2>3, <2>4, <3>1, <3>2 DEF CourseOk, ReceivePhase, ScanPhase, PathOf
  <2>7. ASSUME verdict[d] = "running" PROVE OnCourse(d)'
    <3>1. OnCourse(d)
      BY <1>0, <2>7
    <3>2. HeadsOk(d)' /\ ScanOk(d)' /\ ItemOk(d)'
      BY <1>3, <2>3, <2>4 DEF HeadsOk, ScanOk, ItemOk, ReceivePhase, ResolvePhase, ScanPhase
    <3>3. PendingOk(d)'
      BY <2>1, <2>3, <2>4, <3>1 DEF OnCourse, PendingOk
    <3>4. ASSUME r.phase \in ResolvePhase, NEW h \in Ids, NEW p \in Path, r.remote = h, PathOf(h) = p
          PROVE  /\ heads[p] = h
                 /\ r.mode = "KEEP" => work[d][p] = a
                 /\ r.mode = "USE" /\ files'[d][p] = h => work[d][p] = ContentOf(h)
      <4>1. p = q
        BY <1>0, <1>2, <1>3, <2>3, <3>4 DEF RunOk, ResolveOk, ReceivePhase, ResolvePhase
      <4>2. heads[p] = h /\ (r.mode = "KEEP" => work[d][p] = a)
        BY <2>2, <2>3, <3>1, <3>4 DEF OnCourse, AimOk
      <4>3. r.mode = "USE" => work[d][q] = ContentOf(v)
        BY <1>0, <1>1, <1>2, <2>3, <3>1 DEF OnCourse, ItemOk
      <4>4. QED BY <2>5, <4>1, <4>2, <4>3
    <3>5. AimOk(d)'
      BY <2>1, <2>3, <2>4, <2>5, <3>4 DEF AimOk
    <3>6. QED BY <3>2, <3>3, <3>5 DEF OnCourse
  <2>8. QED BY <1>0, <1>3, <2>1, <2>6, <2>7 DEF SuccessOk, ReceivePhase
<1>6. QED BY <1>4, <1>5

LEMMA ForgetSucceeds ==
    ASSUME ClientInv, NEW d \in Device, SuccessOk(d), Forget(d) PROVE SuccessOk(d)'
<1>0. /\ TypeOK /\ RunOk(d) /\ CourseOk(d) /\ run[d].step = "forget" /\ run[d].step \in Closing
      /\ verdict[d] = "running" => OnCourse(d)
      /\ verdict[d] = "done" => run[d].phase = "idle"
  BY DEF ClientInv, SuccessOk, CourseOk, Forget, At, Closing
<1>1. PICK v \in Ids : v = run[d].cur
  BY <1>0, ReceiveFacts
<1>2. /\ v \in versions[d] /\ v \in run[d].todo /\ run[d].phase \in ReceivePhase
      /\ run[d].phase \in {"inbox", "pending"} => run[d].mode \in {"RUN", "PULL"}
      /\ run[d].phase = "choice" => v = run[d].remote
      /\ run[d].phase \in ResolvePhase => run[d].mode \in {"KEEP", "USE"}
  BY <1>0, <1>1, ReceiveFacts DEF RunOk, PhaseOk, ResolveOk
<1>3. /\ SameAim(d) /\ run'[d].step = "next" /\ run'[d].todo = run[d].todo \ {v}
      /\ UNCHANGED <<manifest, heads, published, work, files, outbox, versions, verdict>>
  BY <1>0, <1>1, ContinueRun DEF Forget, serverVars, folderVars
<1>4. CourseOk(d)'
  <2>1. run'[d].phase = "choice" => run'[d].remote \in versions'[d]
    BY <1>2, <1>3 DEF SameAim
  <2>2. QED BY <1>0, <1>2, <1>3, <2>1 DEF CourseOk, SameAim, PathOf, ReceivePhase, ScanPhase
<1>5. ASSUME verdict[d] = "running" PROVE OnCourse(d)'
  <2>1. OnCourse(d)
    BY <1>0, <1>5
  <2>2. HeadsOk(d)' /\ ScanOk(d)' /\ ItemOk(d)'
    BY <1>2, <1>3 DEF HeadsOk, ScanOk, ItemOk, SameAim, ReceivePhase, ResolvePhase, ScanPhase
  <2>3. PendingOk(d)'
    BY <1>2, <1>3, <2>1 DEF OnCourse, PendingOk, SameAim
  <2>4. AimOk(d)'
    BY <1>0, <1>3, <2>1 DEF OnCourse, AimOk, SameAim, Ids, PathOf, ContentOf, Receiving
  <2>5. QED BY <2>2, <2>3, <2>4 DEF OnCourse
<1>6. QED BY <1>0, <1>2, <1>3, <1>4, <1>5 DEF SuccessOk, ReceivePhase

LEMMA ResolveSucceeds ==
    ASSUME ClientInv, NEW d \in Device, SuccessOk(d), NEW p \in Path, NEW m \in {"KEEP", "USE"},
           Resolve(d, p, m)
    PROVE  SuccessOk(d)'
<1>0. TypeOK /\ HistoryInv /\ IndexOk(d) /\ CourseOk(d)
  BY DEF ClientInv, SuccessOk
<1>1. UNCHANGED <<manifest, heads, published, work, files, outbox, versions>>
  BY DEF Resolve, serverVars, indexVars
<1>2. /\ run'[d].mode = m /\ run'[d].phase = "ask" /\ run'[d].step = "next"
      /\ run'[d].remote = heads[p] /\ run'[d].accepted = work[d][p] /\ verdict'[d] = "running"
  BY <1>0 DEF Resolve, TypeOK, Idle
<1>3. heads[p] # 0 /\ heads[p] # files[d][p]
  BY DEF Resolve, Classify
<1>4. PathOf(heads[p]) = p
  BY <1>0, <1>3, HeadFacts
<1>5. CourseOk(d)'
  BY <1>0, <1>1, <1>2 DEF CourseOk, PathOf, ScanPhase
<1>6. AimOk(d)'
  <2> SUFFICES ASSUME NEW h \in Ids', NEW q \in Path, run'[d].remote = h, PathOf(h)' = q
               PROVE  /\ heads'[q] = h
                      /\ run'[d].mode = "KEEP" => work'[d][q] = run'[d].accepted
                      /\ run'[d].mode # "USE" \/ files'[d][q] # h
    BY DEF AimOk
  <2>1. h = heads[p]
    BY <1>2
  <2>2. PathOf(h)' = PathOf(h)
    BY <1>1 DEF PathOf
  <2>3. q = p
    BY <1>4, <2>1, <2>2
  <2>4. QED BY <1>1, <1>2, <1>3, <2>1, <2>3
<1>7. OnCourse(d)'
  BY <1>2, <1>6 DEF OnCourse, HeadsOk, PendingOk, ScanOk, ItemOk, ScanPhase
<1>8. QED BY <1>2, <1>5, <1>7 DEF SuccessOk

\* The next stage of a resolution.
LEMMA StageSucceeds ==
    ASSUME ClientInv, NEW d \in Device, SuccessOk(d), run[d].phase \in ResolvePhase, run[d].step = "next",
           NEW ph \in {"lineage", "choice", "drop"}, NEW V \in SUBSET Version, NEW P \in SUBSET Path,
           Enter(d, ph, V, P),
           UNCHANGED <<manifest, heads, published, work, files, outbox, verdict>>,
           versions[d] \subseteq versions'[d],
           \A v \in versions'[d], p \in Path : PathOf(v) = p => files[d][p] # 0,
           (ph = "choice" /\ V = {}) \/ ph = "drop" => run[d].remote \in versions[d]
    PROVE  SuccessOk(d)'
<1>0. /\ TypeOK /\ CourseOk(d) /\ PhaseOk(d) /\ ph \in Phase /\ run[d].mode \in {"KEEP", "USE"}
      /\ verdict[d] = "running" => OnCourse(d)
      /\ verdict[d] # "done"
  BY DEF ClientInv, RunOk, PhaseOk, SuccessOk, CourseOk, ResolvePhase, Phase
<1>1. /\ run'[d].mode = run[d].mode /\ run'[d].phase = ph /\ run'[d].remote = run[d].remote
      /\ run'[d].accepted = run[d].accepted /\ run'[d].step = "next" /\ run'[d].todo = V
  BY <1>0, EnterRun
<1>2. CourseOk(d)'
  BY <1>0, <1>1 DEF CourseOk, PathOf, ScanPhase
<1>3. ASSUME verdict[d] = "running" PROVE OnCourse(d)'
  <2>1. OnCourse(d)
    BY <1>0, <1>3
  <2>2. HeadsOk(d)' /\ PendingOk(d)' /\ ScanOk(d)' /\ ItemOk(d)'
    BY <1>0, <1>1 DEF HeadsOk, PendingOk, ScanOk, ItemOk, ScanPhase
  <2>3. AimOk(d)'
    BY <1>1, <2>1 DEF OnCourse, AimOk, Ids, PathOf, ContentOf, Receiving
  <2>4. QED BY <2>2, <2>3 DEF OnCourse
<1>4. QED BY <1>0, <1>2, <1>3 DEF SuccessOk

LEMMA AskLineageSucceeds ==
    ASSUME ClientInv, NEW d \in Device, SuccessOk(d), AskLineage(d) PROVE SuccessOk(d)'
<1> DEFINE V == {v \in Pending(d) : PathOf(v) \in run[d].paths}
<1>0. /\ TypeOK /\ CourseOk(d) /\ run[d].step = "next" /\ run[d].phase \in ResolvePhase
      /\ V \in SUBSET Version /\ run[d].paths \in SUBSET Path
  BY RunFacts, RowsArePublished DEF ClientInv, SuccessOk, AskLineage, At, ResolvePhase
<1>1. CASE Fail(d, "conflict")
  BY <1>1, FailSucceeds
<1>2. CASE ~Fail(d, "conflict")
  <2>1. /\ Enter(d, "lineage", V, run[d].paths)
        /\ UNCHANGED <<manifest, heads, published, work, files, outbox, versions, verdict>>
    BY <1>2 DEF AskLineage, serverVars, folderVars, indexVars
  <2> HIDE DEF V
  <2>2. \A v \in versions'[d], p \in Path : PathOf(v) = p => files[d][p] # 0
    BY <1>0, <2>1 DEF CourseOk
  <2>3. QED BY <1>0, <2>1, <2>2, StageSucceeds
<1>3. QED BY <1>1, <1>2

LEMMA AcceptRemoteSucceeds ==
    ASSUME ClientInv, NEW d \in Device, SuccessOk(d), AcceptRemote(d) PROVE SuccessOk(d)'
<1>0. /\ TypeOK /\ CourseOk(d) /\ run[d].step = "next" /\ run[d].phase \in ResolvePhase
      /\ run[d].paths \in SUBSET Path /\ ResolveOk(d)
  BY RunFacts DEF ClientInv, RunOk, SuccessOk, AcceptRemote, At, ResolvePhase
<1>1. {run[d].remote} \in SUBSET Version
  BY <1>0, Numbers DEF ResolveOk
<1>2. /\ Enter(d, "choice", {run[d].remote}, run[d].paths)
      /\ UNCHANGED <<manifest, heads, published, work, files, outbox, versions, verdict>>
  BY DEF AcceptRemote, serverVars, folderVars, indexVars
<1>3. \A v \in versions'[d], p \in Path : PathOf(v) = p => files[d][p] # 0
  BY <1>0, <1>2 DEF CourseOk
<1>4. QED BY <1>0, <1>1, <1>2, <1>3, StageSucceeds

LEMMA RetireOutboxSucceeds ==
    ASSUME ClientInv, NEW d \in Device, SuccessOk(d), RetireOutbox(d) PROVE SuccessOk(d)'
<1>0. /\ TypeOK /\ CourseOk(d) /\ run[d].step = "next" /\ run[d].phase \in ResolvePhase
      /\ run[d].phase = "choice" /\ run[d].todo = {} /\ run[d].paths \in SUBSET Path /\ ResolveOk(d)
      /\ {} \in SUBSET Version
  BY RunFacts DEF ClientInv, RunOk, SuccessOk, RetireOutbox, At, ResolvePhase
<1>1. /\ Enter(d, "drop", {}, run[d].paths) /\ versions'[d] = versions[d] \union RowsOfPath(d)
      /\ UNCHANGED <<manifest, heads, published, work, files, outbox, verdict>>
  BY <1>0 DEF RetireOutbox, TypeOK, serverVars, folderVars
<1>2. PICK h \in Ids : h = run[d].remote
  BY <1>0, Numbers DEF ResolveOk
<1>3. PICK q \in Path : q = PathOf(h)
  BY <1>0, <1>2, ManifestFacts
<1>4. h \in versions[d] /\ run[d].paths = {q} /\ files[d][q] # 0
  BY <1>0, <1>2, <1>3 DEF CourseOk, ResolveOk
<1>5. \A v \in versions'[d], p \in Path : PathOf(v) = p => files[d][p] # 0
  BY <1>0, <1>1, <1>4 DEF CourseOk, RowsOfPath
<1>6. QED BY <1>0, <1>1, <1>2, <1>4, <1>5, StageSucceeds

LEMMA DropOutboxSucceeds ==
    ASSUME ClientInv, NEW d \in Device, SuccessOk(d), DropOutbox(d) PROVE SuccessOk(d)'
<1>0. /\ TypeOK /\ HistoryInv /\ IndexOk(d) /\ CourseOk(d) /\ run[d].step = "next"
      /\ run[d].phase = "drop" /\ run[d].phase \in ResolvePhase /\ run[d].mode \in {"KEEP", "USE"}
      /\ run[d].paths \in SUBSET Path /\ ResolveOk(d) /\ {} \in SUBSET Version
      /\ verdict[d] = "running" => OnCourse(d)
      /\ verdict[d] # "done"
  BY RunFacts DEF ClientInv, RunOk, PhaseOk, SuccessOk, CourseOk, DropOutbox, At, ResolvePhase
<1>1. UNCHANGED <<manifest, heads, published, work, files, versions>>
  BY DEF DropOutbox, serverVars, folderVars
<1>2. PICK h \in Ids : h = run[d].remote
  BY <1>0, Numbers DEF ResolveOk
<1>3. PICK q \in Path : q = PathOf(h)
  BY <1>0, <1>2, ManifestFacts
<1>4. h \in versions[d] /\ h \in published /\ run[d].paths = {q}
  BY <1>0, <1>2, <1>3 DEF CourseOk, ResolveOk
<1>5. verdict[d] = "running" =>
        /\ heads[q] = h
        /\ run[d].mode = "KEEP" => work[d][q] = run[d].accepted
        /\ run[d].mode = "USE" /\ files[d][q] = h => work[d][q] = ContentOf(h)
  BY <1>0, <1>2, <1>3 DEF OnCourse, AimOk, Receiving
<1>6. CASE run[d].mode = "KEEP"
  <2>1. PICK ph : ph = IF run[d].accepted = NoFile THEN "deletions" ELSE "scan"
    OBVIOUS
  <2>2. Enter(d, ph, {}, run[d].paths) /\ verdict' = verdict /\ ph \in Phase
    BY <1>6, <2>1 DEF DropOutbox, Phase
  <2>3. /\ run'[d].mode = "KEEP" /\ run'[d].phase = ph /\ run'[d].remote = h
        /\ run'[d].accepted = run[d].accepted /\ run'[d].step = "next" /\ run'[d].paths = {q}
    BY <1>0, <1>2, <1>4, <1>6, <2>2, EnterRun
  <2>4. ph \in ScanPhase /\ (ph = "deletions" <=> run[d].accepted = NoFile)
    BY <2>1 DEF ScanPhase
  <2>5. CourseOk(d)'
    BY <1>0, <1>1, <1>3, <1>4, <2>2, <2>3, <2>4 DEF CourseOk, ScanPhase, PathOf
  <2>6. ASSUME verdict[d] = "running" PROVE OnCourse(d)'
    <3>1. HeadKnown(d, q)'
      BY <1>1, <1>4, <1>5, <2>6 DEF HeadKnown
    <3>2. ScanOk(d)'
      BY <1>1, <1>3, <1>5, <1>6, <2>3, <2>4, <2>6, <3>1 DEF ScanOk, Publishing, PathOf
    <3>3. HeadsOk(d)' /\ PendingOk(d)' /\ AimOk(d)' /\ ItemOk(d)'
      BY <2>3, <2>4 DEF HeadsOk, PendingOk, AimOk, ItemOk, ScanPhase, ResolvePhase
    <3>4. QED BY <3>2, <3>3 DEF OnCourse
  <2>7. QED BY <1>0, <2>2, <2>5, <2>6 DEF SuccessOk
<1>7. CASE run[d].mode = "USE"
  <2>1. End(d, "done")
    BY <1>7 DEF DropOutbox
  <2>2. ASSUME verdict[d] = "running" PROVE Done(d)
    <3>1. files[d][q] = heads[q] \/ TakenBack(d, q)
      BY <1>0, <1>4, <1>5, <2>2, HeadOrBack
    <3>2. files[d][q] = heads[q] => Synced(d, q)
      BY <1>5, <1>7, <2>2 DEF Synced
    <3>3. QED BY <1>2, <1>3, <1>7, <3>1, <3>2 DEF Done
  <2>3. ChosenKnown(d)
    BY <1>2, <1>4 DEF ChosenKnown
  <2>4. QED BY <1>1, <2>1, <2>2, <2>3, EndDoneSucceeds
<1>8. QED BY <1>0, <1>6, <1>7

LEMMA WorkSucceeds ==
    ASSUME ClientInv, ClientInv', NEW d \in Device, SuccessOk(d), Works(d) PROVE SuccessOk(d)'
<1>1. CASE \E m \in {"RUN", "PUSH", "PULL"} : Start(d, m)
  BY <1>1, StartSucceeds
<1>2. CASE NextPhase(d) \/ Stop(d)
  BY <1>2, NextPhaseSucceeds, StopSucceeds
<1>3. CASE Publish(d)
  BY <1>3, RepublishSucceeds, PrepareSucceeds, CommitSucceeds, RecordSucceeds DEF Publish
<1>4. CASE Pull(d)
  BY <1>4, ReceiveSucceeds, FetchSucceeds, RecheckSucceeds, ReplaceSucceeds, RecycleSucceeds,
     SettleSucceeds, AcknowledgeSucceeds, ForgetSucceeds DEF Pull
<1>5. CASE ResolveStep(d)
  BY <1>5, AskLineageSucceeds, AcceptRemoteSucceeds, RetireOutboxSucceeds, DropOutboxSucceeds DEF ResolveStep
<1>6. CASE \E p \in Path : ScanFile(d, p) \/ PushDeletion(d, p)
  BY <1>6, ScanFileSucceeds, PushDeletionSucceeds
<1>7. CASE \E p \in Path, m \in {"KEEP", "USE"} : Resolve(d, p, m)
  BY <1>7, ResolveSucceeds
<1>8. QED BY <1>1, <1>2, <1>3, <1>4, <1>5, <1>6, <1>7 DEF Works

LEMMA SuccessStep == ClientInv /\ ClientInv' /\ SuccessInv /\ [Next]_vars => SuccessInv'
<1> SUFFICES ASSUME ClientInv, ClientInv', SuccessInv, [Next]_vars, NEW d \in Device
             PROVE  SuccessOk(d)'
  BY DEF SuccessInv
<1>1. SuccessOk(d) /\ Grows /\ (Aside(d) \/ Works(d))
  BY WhoWorks DEF SuccessInv
<1>2. QED BY <1>1, AsideKeeps, WorkSucceeds

LEMMA SuccessStart == Init => SuccessInv
<1> SUFFICES ASSUME Init, NEW d \in Device PROVE SuccessOk(d)
  BY DEF SuccessInv
<1>1. /\ versions[d] = {} /\ verdict[d] = "none" /\ run[d] = Idle
  BY DEF Init
<1>2. run[d].phase = "idle" /\ run[d].mode = "none"
  BY <1>1 DEF Idle
<1>3. CourseOk(d)
  BY <1>1, <1>2 DEF CourseOk, ScanPhase
<1>4. QED BY <1>1, <1>3 DEF SuccessOk

\* A run that nobody disturbed and that reports success leaves every file at
\* the server's version, or the one file of a resolution, unless the retry of
\* an outbox row took its base back: a publication starts without missing
\* versions, a run publishes its outbox, receives what it has no receipt for and
\* compares every file with its base by hash, and a resolution ends on the
\* version it inspected (sy_sync 723-759, push_file 478-530, resolve 676-722).
THEOREM SuccessIsSynced == Spec => []SuccessMeansSynced
<1>1. SuccessInv => SuccessMeansSynced
  BY DEF SuccessInv, SuccessOk, SuccessMeansSynced
<1>2. QED BY <1>1, ClientAlways, SuccessStart, SuccessStep, PTL DEF Spec

=============================================================================
