--------------------------- MODULE BatchTasksProofs ---------------------------
(***************************************************************************)
(* Theorems about saved batch tasks, for any subtasks, any saved           *)
(* collection, any limits and any number of commands and faults.           *)
(***************************************************************************)
EXTENDS BatchTasks, SequenceFacts, FiniteSetTheorems, TLAPS

-----------------------------------------------------------------------------
(* Sequences *)

LEMMA RemoveSeq ==
    ASSUME NEW S, NEW q \in Seq(S), NEW i \in 1 .. Len(q)
    PROVE  /\ Remove(q, i) \in Seq(S)
           /\ Len(Remove(q, i)) = Len(q) - 1
           /\ \A k \in 1 .. Len(q) - 1 : Remove(q, i)[k] = IF k < i THEN q[k] ELSE q[k + 1]
<1> DEFINE r == SubSeq(q, 1, i - 1) \o SubSeq(q, i + 1, Len(q))
<1>1. /\ r \in Seq(S) /\ Len(r) = Len(q) - 1
      /\ \A k \in 1 .. Len(q) - 1 : r[k] = IF k < i THEN q[k] ELSE q[k + 1]
  BY WithoutElement
<1>2. Remove(q, i) = r
  BY DEF Remove
<1> HIDE DEF r
<1>3. QED BY <1>1, <1>2

\* Where the element at k of a moved sequence comes from.
Origin(k, i, j) ==
    IF k = j THEN i
    ELSE IF k < j THEN (IF k < i THEN k ELSE k + 1)
    ELSE (IF k - 1 < i THEN k - 1 ELSE k)

LEMMA MovedSeq ==
    ASSUME NEW S, NEW q \in Seq(S), NEW i \in 1 .. Len(q), NEW j \in 1 .. Len(q)
    PROVE  /\ Moved(q, i, j) \in Seq(S)
           /\ Len(Moved(q, i, j)) = Len(q)
           /\ \A k \in 1 .. Len(q) : /\ Origin(k, i, j) \in 1 .. Len(q)
                                     /\ Moved(q, i, j)[k] = q[Origin(k, i, j)]
<1> DEFINE r == Remove(q, i)
           a == SubSeq(r, 1, j - 1)
           b == SubSeq(r, j, Len(r))
<1>1. /\ r \in Seq(S) /\ Len(r) = Len(q) - 1
      /\ \A k \in 1 .. Len(q) - 1 : r[k] = IF k < i THEN q[k] ELSE q[k + 1]
  BY RemoveSeq
<1> HIDE DEF r
<1>2. /\ a \in Seq(S) /\ Len(a) = j - 1 /\ \A k \in 1 .. j - 1 : a[k] = r[k]
  BY <1>1
<1>3. /\ b \in Seq(S) /\ Len(b) = Len(q) - j /\ \A k \in 1 .. Len(q) - j : b[k] = r[k + j - 1]
  BY <1>1
<1>4. Moved(q, i, j) = (a \o <<q[i]>>) \o b
  BY DEF Moved, r
<1> HIDE DEF a, b
<1>5. /\ a \o <<q[i]>> \in Seq(S) /\ Len(a \o <<q[i]>>) = j
      /\ \A k \in 1 .. j : (a \o <<q[i]>>)[k] = IF k = j THEN q[i] ELSE a[k]
  BY <1>2
<1> DEFINE c == a \o <<q[i]>>
<1> HIDE DEF c
<1>6. /\ c \o b \in Seq(S) /\ Len(c \o b) = Len(q)
      /\ \A k \in 1 .. Len(q) : (c \o b)[k] = IF k <= j THEN c[k] ELSE b[k - j]
  <2>1. c \in Seq(S) /\ Len(c) = j
    BY <1>5 DEF c
  <2>2. QED BY <1>3, <2>1
<1>7. ASSUME NEW k \in 1 .. Len(q)
      PROVE  Origin(k, i, j) \in 1 .. Len(q) /\ (c \o b)[k] = q[Origin(k, i, j)]
  <2>1. CASE k = j
    BY <2>1, <1>5, <1>6 DEF c, Origin
  <2>2. CASE k < j
    <3>1. (c \o b)[k] = r[k]
      BY <2>2, <1>2, <1>5, <1>6 DEF c
    <3>2. QED BY <3>1, <2>2, <1>1 DEF Origin
  <2>3. CASE k > j
    <3>1. (c \o b)[k] = b[k - j]
      BY <2>3, <1>6
    <3>2. b[k - j] = r[k - 1]
      <4>1. k - j \in 1 .. Len(q) - j
        BY <2>3
      <4>2. (k - j) + j - 1 = k - 1
        OBVIOUS
      <4>3. QED BY <4>1, <4>2, <1>3
    <3>3. r[k - 1] = IF k - 1 < i THEN q[k - 1] ELSE q[k]
      <4>1. k - 1 \in 1 .. Len(q) - 1 /\ (k - 1) + 1 = k
        BY <2>3
      <4>2. QED BY <4>1, <1>1
    <3>4. CASE k - 1 < i
      BY <3>1, <3>2, <3>3, <3>4, <2>3 DEF Origin
    <3>5. CASE ~ (k - 1 < i)
      BY <3>1, <3>2, <3>3, <3>5, <2>3 DEF Origin
    <3>6. QED BY <3>4, <3>5
  <2>4. k = j \/ k < j \/ k > j
    OBVIOUS
  <2>5. QED BY <2>1, <2>2, <2>3, <2>4
<1>8. Moved(q, i, j) = c \o b
  BY <1>4 DEF c
<1>9. QED BY <1>6, <1>7, <1>8


-----------------------------------------------------------------------------
(* The messages that are left *)

\* The sequence new has, beside resumptions, only messages of old, in order.
Fewer(new, old) ==
    \E g \in [DOMAIN new -> Nat] :
        /\ \A k \in DOMAIN new : new[k].type # "RESUME" => g[k] \in DOMAIN old /\ new[k] = old[g[k]]
        /\ \A j, k \in DOMAIN new :
              j < k /\ new[j].type # "RESUME" /\ new[k].type # "RESUME" => g[j] < g[k]

\* q is what is kept of the first n messages of box.
Picked(q, box, n) ==
    /\ q \in Seq(Message)
    /\ \E g \in [1 .. Len(q) -> 1 .. n] :
          /\ \A k \in 1 .. Len(q) : q[k] = box[g[k]]
          /\ \A j, k \in 1 .. Len(q) : j < k => g[j] < g[k]

LEMMA PickedNext ==
    ASSUME NEW box \in Seq(Message), NEW n \in 1 .. Len(box), NEW q, Picked(q, box, n - 1)
    PROVE  Picked(q, box, n) /\ Picked(Append(q, box[n]), box, n)
<1>1. PICK g \in [1 .. Len(q) -> 1 .. n - 1] :
          /\ \A k \in 1 .. Len(q) : q[k] = box[g[k]]
          /\ \A j, k \in 1 .. Len(q) : j < k => g[j] < g[k]
  BY DEF Picked
<1>2. q \in Seq(Message) /\ box[n] \in Message
  BY DEF Picked
<1>3. Picked(q, box, n)
  <2>1. g \in [1 .. Len(q) -> 1 .. n]
    OBVIOUS
  <2>2. QED BY <1>1, <1>2, <2>1 DEF Picked
<1>4. Picked(Append(q, box[n]), box, n)
  <2> DEFINE p == Append(q, box[n])
             h == [k \in 1 .. Len(p) |-> IF k <= Len(q) THEN g[k] ELSE n]
  <2>1. /\ p \in Seq(Message) /\ Len(p) = Len(q) + 1 /\ Len(q) \in Nat
        /\ \A k \in 1 .. Len(q) : p[k] = q[k]
        /\ p[Len(q) + 1] = box[n]
    BY <1>2
  <2> HIDE DEF p
  <2>2. h \in [1 .. Len(p) -> 1 .. n]
    BY <2>1
  <2>3. \A k \in 1 .. Len(p) : p[k] = box[h[k]]
    BY <2>1, <1>1
  <2>4. \A j, k \in 1 .. Len(p) : j < k => h[j] < h[k]
    BY <2>1, <1>1, SMTT(20)
  <2> HIDE DEF h
  <2>5. QED BY <2>1, <2>2, <2>3, <2>4 DEF Picked, p
<1>5. QED BY <1>3, <1>4

\* The definition by recursion of what is kept has a solution.
LEMMA KeptDefined ==
    ASSUME NEW box \in Seq(Message)
    PROVE  \E f : f = [n \in 0 .. Len(box) |->
                         IF n = 0 THEN <<>>
                         ELSE IF box[n].type = "RESUME" THEN f[n - 1]
                         ELSE Append(f[n - 1], box[n])]
<1> DEFINE Body(f, n) == IF n = 0 THEN <<>>
                         ELSE IF box[n].type = "RESUME" THEN f[n - 1]
                         ELSE Append(f[n - 1], box[n])
           Solved(m) == \E f : f = [n \in 0 .. m |-> Body(f, n)]
           T == {m \in 0 .. Len(box) : ~ Solved(m)}
<1> HIDE DEF Solved
<1>1. SUFFICES ASSUME T # {} PROVE FALSE
  <2>1. Len(box) \in 0 .. Len(box)
    OBVIOUS
  <2>2. Solved(Len(box))
    BY <1>1, <2>1
  <2>3. QED BY <2>2 DEF Solved
<1>2. PICK m \in T : \A y \in T : m <= y
  <2>1. T \subseteq Nat
    OBVIOUS
  <2> HIDE DEF T
  <2>2. QED BY <1>1, <2>1, LeastNat
<1>3. m # 0
  <2> DEFINE f == [n \in 0 .. 0 |-> <<>>]
  <2>1. f = [n \in 0 .. 0 |-> Body(f, n)]
    OBVIOUS
  <2> HIDE DEF f, Body
  <2>2. Solved(0)
    BY <2>1 DEF Solved
  <2>3. QED BY <2>2
<1>4. m \in 1 .. Len(box) /\ m - 1 \in 0 .. Len(box) /\ Solved(m - 1)
  BY <1>2, <1>3
<1>5. PICK f : f = [n \in 0 .. m - 1 |-> Body(f, n)]
  BY <1>4 DEF Solved
<1> DEFINE h == [n \in 0 .. m |-> IF n < m THEN f[n] ELSE Body(f, m)]
<1>6. ASSUME NEW n \in 0 .. m PROVE h[n] = Body(h, n)
  <2>1. CASE n < m
    <3>1. n \in 0 .. m - 1
      BY <2>1, <1>4
    <3>2. f[n] = Body(f, n)
      <4> HIDE DEF Body
      <4>1. QED BY <3>1, <1>5
    <3>3. h[n] = f[n]
      BY <2>1
    <3>4. n # 0 => h[n - 1] = f[n - 1]
      BY <2>1, <1>4
    <3>5. QED BY <3>2, <3>3, <3>4
  <2>2. CASE n = m
    <3>1. h[n] = Body(f, m) /\ h[m - 1] = f[m - 1]
      BY <2>2, <1>4
    <3>2. QED BY <3>1, <2>2, <1>4
  <2>3. QED BY <2>1, <2>2, <1>4
<1>7. h = [n \in 0 .. m |-> Body(h, n)]
  <2> HIDE DEF Body
  <2>1. h = [n \in 0 .. m |-> h[n]]
    OBVIOUS
  <2> HIDE DEF h
  <2>2. QED BY <2>1, <1>6
<1>8. Solved(m)
  <2> HIDE DEF Body, h
  <2>1. QED BY <1>7 DEF Solved
<1>9. QED BY <1>8, <1>2

LEMMA UndeliveredPicked ==
    ASSUME NEW box \in Seq(Message)
    PROVE  Picked(Undelivered(box), box, Len(box))
<1> DEFINE Body(f, n) == IF n = 0 THEN <<>>
                         ELSE IF box[n].type = "RESUME" THEN f[n - 1]
                         ELSE Append(f[n - 1], box[n])
           kept == CHOOSE f : f = [n \in 0 .. Len(box) |-> Body(f, n)]
           T == {n \in 0 .. Len(box) : ~ Picked(kept[n], box, n)}
<1>1. Undelivered(box) = kept[Len(box)]
  BY SMTT(20) DEF Undelivered
<1>2. kept = [n \in 0 .. Len(box) |-> Body(kept, n)]
  BY KeptDefined
<1> HIDE DEF kept
<1>3. \A n \in 0 .. Len(box) : kept[n] = Body(kept, n)
  BY <1>2
<1>4. SUFFICES ASSUME T # {} PROVE FALSE
  BY <1>1
<1>5. PICK n \in T : \A y \in T : n <= y
  <2>1. T \subseteq Nat
    OBVIOUS
  <2> HIDE DEF T
  <2>2. QED BY <1>4, <2>1, LeastNat
<1>6. n # 0
  <2>1. Picked(<<>>, box, 0)
    <3> DEFINE g == [k \in 1 .. 0 |-> 0]
    <3>1. g \in [1 .. Len(<<>>) -> 1 .. 0] /\ <<>> \in Seq(Message)
      OBVIOUS
    <3>2. \A k \in 1 .. Len(<<>>) : FALSE
      OBVIOUS
    <3> HIDE DEF g
    <3>3. QED BY <3>1, <3>2 DEF Picked
  <2>2. kept[0] = <<>>
    BY <1>3
  <2>3. QED BY <2>1, <2>2, <1>5
<1>7. n \in 1 .. Len(box) /\ Picked(kept[n - 1], box, n - 1)
  BY <1>5, <1>6
<1>8. kept[n] \in {kept[n - 1], Append(kept[n - 1], box[n])}
  <2>1. kept[n] = Body(kept, n) /\ n # 0
    BY <1>3, <1>7
  <2>2. QED BY <2>1
<1>9. Picked(kept[n], box, n)
  <2>1. Picked(kept[n - 1], box, n) /\ Picked(Append(kept[n - 1], box[n]), box, n)
    BY <1>7, PickedNext
  <2>2. QED BY <2>1, <1>8
<1>10. QED BY <1>5, <1>9

LEMMA FewerSame == ASSUME NEW box \in Seq(Message) PROVE Fewer(box, box)
<1> DEFINE g == [k \in DOMAIN box |-> k]
<1>1. g \in [DOMAIN box -> Nat] /\ \A k \in DOMAIN box : g[k] = k
  OBVIOUS
<1> HIDE DEF g
<1>2. QED BY <1>1 DEF Fewer

LEMMA FewerNone == ASSUME NEW box PROVE Fewer(<<>>, box)
<1> DEFINE g == [k \in 1 .. 0 |-> 0]
<1>1. g \in [DOMAIN <<>> -> Nat] /\ \A k \in DOMAIN <<>> : FALSE
  OBVIOUS
<1> HIDE DEF g
<1>2. QED BY <1>1 DEF Fewer

LEMMA FewerResume ==
    ASSUME NEW box, NEW q \in Seq(Message), Fewer(q, box)
    PROVE  Append(q, Resume) \in Seq(Message) /\ Fewer(Append(q, Resume), box)
<1>1. PICK g \in [DOMAIN q -> Nat] :
        /\ \A k \in DOMAIN q : q[k].type # "RESUME" => g[k] \in DOMAIN box /\ q[k] = box[g[k]]
        /\ \A j, k \in DOMAIN q :
              j < k /\ q[j].type # "RESUME" /\ q[k].type # "RESUME" => g[j] < g[k]
  BY DEF Fewer
<1> DEFINE p == Append(q, Resume)
           h == [k \in DOMAIN p |-> IF k \in DOMAIN q THEN g[k] ELSE 0]
<1>2. Resume \in Message /\ Resume.type = "RESUME"
  BY BatchAssumption DEF Resume, Message
<1>3. /\ p \in Seq(Message) /\ DOMAIN p = 1 .. Len(q) + 1 /\ DOMAIN q = 1 .. Len(q) /\ Len(q) \in Nat
      /\ \A k \in DOMAIN q : p[k] = q[k]
      /\ p[Len(q) + 1].type = "RESUME"
  BY <1>2
<1> HIDE DEF p
<1>4. \A k \in DOMAIN p : p[k].type # "RESUME" => k \in DOMAIN q /\ p[k] = q[k]
  BY <1>3
<1>5. h \in [DOMAIN p -> Nat] /\ \A k \in DOMAIN q : h[k] = g[k]
  BY <1>3
<1> HIDE DEF h
<1>6. \A k \in DOMAIN p : p[k].type # "RESUME" => h[k] \in DOMAIN box /\ p[k] = box[h[k]]
  BY <1>1, <1>4, <1>5
<1>7. \A j, k \in DOMAIN p :
          j < k /\ p[j].type # "RESUME" /\ p[k].type # "RESUME" => h[j] < h[k]
  BY <1>1, <1>4, <1>5
<1>8. Fewer(p, box)
  BY <1>5, <1>6, <1>7 DEF Fewer
<1>9. QED BY <1>3, <1>8 DEF p

LEMMA FewerTail ==
    ASSUME NEW box \in Seq(Message), box # <<>>
    PROVE  Tail(box) \in Seq(Message) /\ Fewer(Tail(box), box)
<1> DEFINE p == Tail(box)
           g == [k \in DOMAIN p |-> k + 1]
<1>1. /\ p \in Seq(Message) /\ DOMAIN p = 1 .. Len(box) - 1 /\ Len(box) \in Nat
      /\ \A k \in 1 .. Len(box) - 1 : p[k] = box[k + 1]
  OBVIOUS
<1> HIDE DEF p
<1>2. g \in [DOMAIN p -> Nat] /\ \A k \in DOMAIN p : g[k] = k + 1
  BY <1>1
<1> HIDE DEF g
<1>3. \A k \in DOMAIN p : g[k] \in DOMAIN box /\ p[k] = box[g[k]]
  BY <1>1, <1>2
<1>4. \A j, k \in DOMAIN p : j < k => g[j] < g[k]
  BY <1>1, <1>2
<1>5. Fewer(p, box)
  BY <1>2, <1>3, <1>4 DEF Fewer
<1>6. QED BY <1>1, <1>5 DEF p

LEMMA FewerUndelivered ==
    ASSUME NEW box \in Seq(Message)
    PROVE  Undelivered(box) \in Seq(Message) /\ Fewer(Undelivered(box), box)
<1> DEFINE p == Undelivered(box)
<1>1. Picked(p, box, Len(box))
  BY UndeliveredPicked
<1> HIDE DEF p
<1>2. p \in Seq(Message)
  BY <1>1 DEF Picked
<1>3. PICK g \in [1 .. Len(p) -> 1 .. Len(box)] :
          /\ \A k \in 1 .. Len(p) : p[k] = box[g[k]]
          /\ \A j, k \in 1 .. Len(p) : j < k => g[j] < g[k]
  BY <1>1 DEF Picked
<1>4. DOMAIN p = 1 .. Len(p) /\ DOMAIN box = 1 .. Len(box)
  BY <1>2
<1>5. g \in [DOMAIN p -> Nat] /\ \A k \in DOMAIN p : g[k] \in DOMAIN box
  BY <1>4
<1>6. Fewer(p, box)
  BY <1>3, <1>4, <1>5 DEF Fewer
<1>7. QED BY <1>2, <1>6 DEF p

-----------------------------------------------------------------------------
(* The collection and the selection *)

Collection ==
    /\ tasks = <<>> \/ sel \in DOMAIN tasks
    /\ row <= Len(Rows)
    /\ Distinct(tasks)

\* What a successful save leaves of the collection and of the results.
SaveKeeps ==
    /\ SavedTasks \in Seq(Task) /\ Len(SavedTasks) = Len(tasks) /\ Distinct(SavedTasks)
    /\ \A t \in DOMAIN tasks : /\ SavedTasks[t].id = tasks[t].id
                               /\ Len(SavedTasks[t].rows) = Len(tasks[t].rows)
                               /\ t # sel => SavedTasks[t] = tasks[t]
    /\ SavedShown \in [Slot -> [is : Status, of : Step \union {0}]]
    /\ SavedDraft \in Step \union {0}
    /\ SavedInbox \in {inbox, Append(inbox, Resume)} /\ SavedFlag \in BOOLEAN
    /\ \A i \in 1 .. Len(Rows) :
          IF SavedTasks[sel].rows[i] = Rows[i] THEN SavedShown[i] = shown[i]
          ELSE ~StepRunning(i) /\ SavedShown[i] = Waiting
    /\ WholeRunning => SavedTasks = tasks /\ SavedShown = shown

LEMMA RowsType ==
    ASSUME TypeOK, Collection
    PROVE  /\ Rows \in Seq(Step) /\ Len(Rows) <= RowLimit /\ Len(Rows) \in Nat
           /\ tasks # <<>> => /\ sel \in DOMAIN tasks /\ tasks[sel] \in Task /\ Rows = tasks[sel].rows
                              /\ tasks[sel].id \in TaskId
<1>1. CASE tasks = <<>>
  BY <1>1, BatchAssumption DEF Rows
<1>2. CASE tasks # <<>>
  <2>1. sel \in DOMAIN tasks /\ tasks[sel] \in Task
    BY <1>2 DEF TypeOK, Collection
  <2>2. QED BY <1>2, <2>1 DEF Rows, Task
<1>3. QED BY <1>1, <1>2

LEMMA SavingKeeps == TypeOK /\ Collection /\ Saves => SaveKeeps
<1> SUFFICES ASSUME TypeOK, Collection, Saves PROVE SaveKeeps
  OBVIOUS
<1> USE BatchAssumption
<1>0. /\ Rows \in Seq(Step) /\ Len(Rows) <= RowLimit /\ Len(Rows) \in Nat
      /\ tasks # <<>> => /\ sel \in DOMAIN tasks /\ tasks[sel] \in Task /\ Rows = tasks[sel].rows
  BY RowsType
<1>1. /\ tasks \in Seq(Task) /\ draft \in Step \union {0} /\ row \in 0 .. RowLimit
      /\ shown \in [Slot -> [is : Status, of : Step \union {0}]] /\ saveFailed \in BOOLEAN
      /\ row <= Len(Rows) /\ Distinct(tasks)
  BY DEF TypeOK, Collection
<1>2. CASE SaveSkips
  <2>1. SavedTasks = tasks /\ SavedShown = shown /\ SavedDraft = draft /\ SavedInbox = inbox
    BY <1>2 DEF SavedTasks, SavedShown, SavedDraft, SavedInbox
  <2>2. \A i \in 1 .. Len(Rows) : SavedTasks[sel].rows[i] = Rows[i]
    <3>1. tasks = <<>> => Len(Rows) = 0
      BY DEF Rows
    <3>2. QED BY <3>1, <1>0, <2>1
  <2>3. QED BY <2>1, <2>2, <1>0, <1>1 DEF SaveKeeps, SavedFlag
<1>3. CASE ~SaveSkips
  <2>1. tasks # <<>> /\ ~WholeRunning /\ Acceptable
    BY <1>3 DEF SaveSkips, Saves
  <2>2. /\ NewRows \in Seq(Step) /\ Len(NewRows) = Len(Rows)
        /\ \A i \in 1 .. Len(Rows) : NewRows[i] # Rows[i] => i = row /\ Editing
    <3>1. CASE Editing
      <4>1. row \in 1 .. Len(Rows) /\ Rows[row] \in Step
        BY <3>1, <1>0 DEF Editing
      <4>2. draft \in Step
        BY <4>1, <2>1, <3>1, <1>1 DEF Acceptable
      <4>3. NewRows = [Rows EXCEPT ![row] = draft]
        BY <3>1 DEF NewRows
      <4>4. QED BY <4>1, <4>2, <4>3, <3>1, <1>0
    <3>2. CASE ~Editing
      BY <3>2, <1>0 DEF NewRows
    <3>3. QED BY <3>1, <3>2
  <2>3. SavedTasks = [tasks EXCEPT ![sel].rows = NewRows]
    BY <1>3 DEF SavedTasks
  <2>4. [tasks[sel] EXCEPT !.rows = NewRows] \in Task
    BY <2>1, <2>2, <1>0 DEF Task
  <2>5. /\ SavedTasks \in Seq(Task) /\ Len(SavedTasks) = Len(tasks)
        /\ \A t \in DOMAIN tasks : SavedTasks[t] = IF t = sel THEN [tasks[sel] EXCEPT !.rows = NewRows]
                                                   ELSE tasks[t]
    BY <2>1, <2>3, <2>4, <1>0, <1>1
  <2>6. SavedTasks[sel].rows = NewRows /\ SavedTasks[sel].id = tasks[sel].id
    BY <2>1, <2>5, <1>0 DEF Task
  <2>7. \A t \in DOMAIN tasks : /\ SavedTasks[t].id = tasks[t].id
                                /\ Len(SavedTasks[t].rows) = Len(tasks[t].rows)
                                /\ t # sel => SavedTasks[t] = tasks[t]
    BY <2>1, <2>2, <2>5, <2>6, <1>0
  <2>8. Distinct(SavedTasks)
    <3>1. DOMAIN SavedTasks = DOMAIN tasks
      BY <2>5, <1>1
    <3>2. QED BY <3>1, <2>7, <1>1 DEF Distinct
  <2>9. SavedShown = [i \in Slot |-> IF i <= Len(Rows) /\ NewRows[i] # Rows[i]
                                     THEN Waiting ELSE shown[i]]
    BY <1>3 DEF SavedShown
  <2>10. Waiting \in [is : Status, of : Step \union {0}]
    BY DEF Waiting, Status
  <2>11. SavedShown \in [Slot -> [is : Status, of : Step \union {0}]]
    BY <2>9, <2>10, <1>1
  <2>12. SavedDraft \in Step \union {0}
    BY <1>3, <2>2, <1>1, <1>0 DEF SavedDraft
  <2>13. SavedInbox \in {inbox, Append(inbox, Resume)} /\ SavedFlag \in BOOLEAN
    BY <1>1 DEF SavedInbox, SavedFlag
  <2>14. \A i \in 1 .. Len(Rows) :
          IF SavedTasks[sel].rows[i] = Rows[i] THEN SavedShown[i] = shown[i]
          ELSE ~StepRunning(i) /\ SavedShown[i] = Waiting
    <3> TAKE i \in 1 .. Len(Rows)
    <3>1. i \in Slot /\ i <= Len(Rows)
      BY <1>0 DEF Slot
    <3>2. CASE NewRows[i] = Rows[i]
      BY <3>1, <3>2, <2>6, <2>9
    <3>3. CASE NewRows[i] # Rows[i]
      <4>1. ~StepRunning(i)
        BY <3>3, <2>2 DEF Editing
      <4>2. QED BY <4>1, <3>1, <3>3, <2>6, <2>9
    <3>4. QED BY <3>2, <3>3
  <2>15. QED BY <2>1, <2>5, <2>7, <2>8, <2>11, <2>12, <2>13, <2>14 DEF SaveKeeps
<1>4. QED BY <1>2, <1>3

-----------------------------------------------------------------------------
(* Slots *)

RunRecord == [row : 0 .. RowLimit, whole : BOOLEAN, cancel : BOOLEAN, run : Nat]

\* What a slot and its thread hold once begin_task has started the task t, or
\* the row i of it.
StartedRun(i) == [row |-> i, whole |-> i = 0, cancel |-> FALSE, run |-> runs + 1]
StartedRows(t, i) == IF i = 0 THEN t.rows ELSE <<t.rows[i]>>
StartedThread(t, i) ==
    [id |-> t.id, rows |-> StartedRows(t, i),
     mode |-> IF i = 0 THEN t.mode ELSE "SEQUENTIAL",
     at |-> [j \in DOMAIN StartedRows(t, i) |-> "WAITING"],
     cancel |-> FALSE, run |-> runs + 1]

LEMMA FreeSlotIsFree ==
    ASSUME NEW A, \E s \in Slot : A[s] = Free
    PROVE  FreeSlot(A) \in Slot /\ A[FreeSlot(A)] = Free
<1> DEFINE T == {s \in Slot : A[s] = Free}
<1>1. T \subseteq Nat /\ T # {}
  BY BatchAssumption DEF Slot
<1>2. PICK s \in T : \A u \in T : s <= u
  <2> HIDE DEF T
  <2>1. QED BY <1>1, LeastNat
<1>3. A[s] = Free /\ \A u \in 1 .. s - 1 : A[u] # Free
  <2>1. SUFFICES ASSUME NEW u \in 1 .. s - 1, A[u] = Free PROVE FALSE
    OBVIOUS
  <2>2. u \in Slot /\ s \in Nat /\ u \in Nat /\ u < s
    BY BatchAssumption DEF Slot
  <2>3. QED BY <2>1, <2>2, <1>2
<1>4. \E x \in Slot : A[x] = Free /\ \A u \in 1 .. x - 1 : A[u] # Free
  BY <1>3
<1>5. QED BY <1>4 DEF FreeSlot

LEMMA BeginTypes ==
    ASSUME NEW t \in Task, NEW i \in 0 .. Len(t.rows), runs \in Nat
    PROVE  StartedRun(i) \in RunRecord /\ StartedThread(t, i) \in Thread
<1> USE BatchAssumption
<1>1. t \in [id : TaskId, rows : Seq(Step), mode : Mode] /\ Len(t.rows) <= RowLimit /\ Len(t.rows) \in Nat
  BY DEF Task
<1>2. StartedRun(i) \in RunRecord
  BY <1>1 DEF StartedRun, RunRecord
<1>3. StartedRows(t, i) \in Seq(Step) /\ Len(StartedRows(t, i)) <= RowLimit
  BY <1>1 DEF StartedRows
<1> DEFINE r == StartedRows(t, i)
           a == [j \in DOMAIN r |-> "WAITING"]
<1>4. a \in Seq(Done \union {"WAITING", "RUNNING"}) /\ Len(a) = Len(r)
  BY <1>3
<1>5. (IF i = 0 THEN t.mode ELSE "SEQUENTIAL") \in Mode
  BY <1>1 DEF Mode
<1>6. StartedThread(t, i).rows = r /\ StartedThread(t, i).at = a
  BY DEF StartedThread
<1>7. StartedThread(t, i) \in [id : TaskId, rows : Seq(Step), mode : Mode, cancel : BOOLEAN, run : Nat,
                               at : Seq(Done \union {"WAITING", "RUNNING"})]
  BY <1>1, <1>3, <1>4, <1>5 DEF StartedThread
<1>8. StartedThread(t, i) \in Thread
  BY <1>3, <1>4, <1>6, <1>7 DEF Thread
<1>9. QED BY <1>2, <1>8

\* begin_task in terms of the slot it takes.
BeginsIn(s, T, A, t, i) ==
    /\ active' = [A EXCEPT ![s] = StartedRun(i)]
    /\ worker' = [worker EXCEPT ![s] = StartedThread(t, i)]
    /\ runs' = runs + 1
    /\ outdated' = (outdated \/ \A j \in DOMAIN T : T[j].id # t.id \/ T[j].rows # t.rows)

LEMMA BeginBegins ==
    ASSUME NEW T, NEW A, NEW t, NEW i, Begin(T, A, t, i)
    PROVE  BeginsIn(FreeSlot(A), T, A, t, i)
  BY DEF Begin, BeginsIn, StartedRun, StartedRows, StartedThread

\* The two ways start_next_task ends.
Launched(T, A, Q) ==
    \E k \in 1 .. Len(Q), s \in Slot :
        /\ queue' = SubSeq(Q, k + 1, Len(Q)) /\ activeId' = Q[k].id
        /\ A[s] = Free /\ BeginsIn(s, T, A, Q[k], 0)
        /\ ~outdated' => /\ sel' \in DOMAIN T /\ T[sel'].id = Q[k].id
                         /\ T[sel'].rows = Q[k].rows
Exhausted(A) ==
    queue' = <<>> /\ activeId' = 0 /\ active' = A /\ UNCHANGED <<worker, history>>

LEMMA StartNextEnds ==
    ASSUME NEW T \in Seq(Task), Distinct(T), NEW A, Used(A) = {},
           NEW Q \in Seq(Task), NEW box, NEW win, StartNext(T, A, Q, box, win)
    PROVE  /\ inbox' \in {box, Append(box, Resume)} /\ cancelling' = FALSE
           /\ shown' = Blank /\ row' = 0 /\ draft' = 0
           /\ sel' = sel \/ sel' \in DOMAIN T
           /\ queue' \in Seq(Task) /\ Len(queue') <= Len(Q)
           /\ Launched(T, A, Q) \/ Exhausted(A)
<1> USE BatchAssumption
<1>1. PICK k \in 0 .. Len(Q) :
        /\ queue' = SubSeq(Q, k + 2, Len(Q))
        /\ IF k < Len(Q)
           THEN Begin(T, A, Q[k + 1], 0) /\ activeId' = Q[k + 1].id /\ Show(T, activeId')
           ELSE /\ active' = A /\ activeId' = 0
                /\ Show(T, Q[k].id)
                /\ UNCHANGED <<worker, history>>
  BY DEF StartNext
<1>2. inbox' \in {box, Append(box, Resume)} /\ cancelling' = FALSE
  BY DEF StartNext
<1>3. queue' \in Seq(Task) /\ Len(queue') <= Len(Q)
  <2>1. k + 2 \in Nat /\ Len(Q) \in Nat
    OBVIOUS
  <2>2. QED BY <1>1, <2>1
<1>4. \A id : id \in Ids(T) => Place(T, id) \in DOMAIN T /\ T[Place(T, id)].id = id
  BY DEF Ids, Place
<1>5. ASSUME NEW id, Show(T, id)
      PROVE  /\ shown' = Blank /\ row' = 0 /\ draft' = 0
             /\ sel' = sel \/ sel' \in DOMAIN T
             /\ id \in Ids(T) => sel' \in DOMAIN T /\ T[sel'].id = id
  BY <1>4, <1>5 DEF Show
<1>6. CASE k < Len(Q)
  <2>1. Begin(T, A, Q[k + 1], 0) /\ activeId' = Q[k + 1].id /\ Show(T, Q[k + 1].id)
    BY <1>1, <1>6
  <2>2. k + 1 \in 1 .. Len(Q) /\ queue' = SubSeq(Q, (k + 1) + 1, Len(Q))
    BY <1>1, <1>6
  <2>3. FreeSlot(A) \in Slot /\ A[FreeSlot(A)] = Free
    <3>1. 1 \in Slot /\ A[1] = Free
      BY DEF Used, Slot
    <3>2. QED BY <3>1, FreeSlotIsFree
  <2>4. BeginsIn(FreeSlot(A), T, A, Q[k + 1], 0)
    BY <2>1, BeginBegins
  <2>5. ~outdated' => /\ sel' \in DOMAIN T /\ T[sel'].id = Q[k + 1].id
                      /\ T[sel'].rows = Q[k + 1].rows
    <3>1. SUFFICES ASSUME ~outdated' PROVE /\ sel' \in DOMAIN T /\ T[sel'].id = Q[k + 1].id
                                           /\ T[sel'].rows = Q[k + 1].rows
      OBVIOUS
    <3>2. PICK j \in DOMAIN T : T[j].id = Q[k + 1].id /\ T[j].rows = Q[k + 1].rows
      BY <2>4, <3>1 DEF BeginsIn
    <3>3. Q[k + 1].id \in Ids(T)
      BY <3>2 DEF Ids
    <3>4. sel' \in DOMAIN T /\ T[sel'].id = Q[k + 1].id
      BY <3>3, <2>1, <1>5
    <3>5. sel' = j
      BY <3>2, <3>4 DEF Distinct
    <3>6. QED BY <3>2, <3>4, <3>5
  <2>6. Launched(T, A, Q)
    BY <2>1, <2>2, <2>3, <2>4, <2>5 DEF Launched
  <2>7. QED BY <2>1, <2>6, <1>2, <1>3, <1>5
<1>7. CASE ~ (k < Len(Q))
  <2>1. k = Len(Q) /\ Len(Q) \in Nat
    BY <1>7
  <2>2. queue' = <<>>
    BY <1>1, <2>1
  <2>3. Exhausted(A) /\ Show(T, Q[k].id)
    BY <1>1, <1>7, <2>2 DEF Exhausted
  <2>4. QED BY <2>3, <1>2, <1>3, <1>5
<1>8. QED BY <1>6, <1>7

-----------------------------------------------------------------------------
(* Every step keeps the types and the selection in the collection. *)

Base == TypeOK /\ Collection

\* The saved collection, with the selected task still selected.
LEMMA SavedSelection ==
    ASSUME Base, SaveKeeps, tasks' = SavedTasks, sel' = sel
    PROVE  /\ Len(Rows') = Len(Rows) /\ Rows' \in Seq(Step)
           /\ tasks # <<>> => /\ tasks' # <<>> /\ sel \in DOMAIN tasks' /\ Rows' = SavedTasks[sel].rows
                              /\ tasks'[sel].id = tasks[sel].id
           /\ tasks = <<>> => tasks' = <<>>
           /\ tasks' \in Seq(Task) /\ Len(tasks') = Len(tasks) /\ DOMAIN tasks' = DOMAIN tasks
           /\ Len(tasks') <= TaskLimit /\ Distinct(tasks')
           /\ tasks' = <<>> \/ sel' \in DOMAIN tasks'
<1>1. /\ Rows \in Seq(Step) /\ Len(Rows) \in Nat
      /\ tasks # <<>> => /\ sel \in DOMAIN tasks /\ tasks[sel] \in Task /\ Rows = tasks[sel].rows
  BY RowsType DEF Base
<1>2. /\ tasks' \in Seq(Task) /\ Len(tasks') = Len(tasks) /\ Distinct(tasks')
      /\ tasks \in Seq(Task) /\ Len(tasks) <= TaskLimit
      /\ \A t \in DOMAIN tasks : /\ tasks'[t].id = tasks[t].id
                                 /\ Len(tasks'[t].rows) = Len(tasks[t].rows)
  BY DEF SaveKeeps, Base, TypeOK
<1>3. DOMAIN tasks' = DOMAIN tasks /\ (tasks = <<>> <=> tasks' = <<>>)
  BY <1>2
<1>4. tasks = <<>> => Rows' = <<>> /\ Rows = <<>>
  BY <1>3 DEF Rows
<1>5. tasks # <<>> => Rows' = tasks'[sel].rows /\ tasks'[sel] \in Task
  BY <1>1, <1>2, <1>3 DEF Rows
<1>6. tasks # <<>> => Rows' \in Seq(Step)
  BY <1>5 DEF Task
<1>7. QED BY <1>1, <1>2, <1>3, <1>4, <1>5, <1>6

LEMMA SavedInboxType ==
    ASSUME Base, SaveKeeps
    PROVE  SavedInbox \in Seq(Message) /\ Fewer(SavedInbox, inbox)
<1>1. inbox \in Seq(Message)
  BY DEF Base, TypeOK
<1>2. Fewer(inbox, inbox)
  BY <1>1, FewerSame
<1>3. Append(inbox, Resume) \in Seq(Message) /\ Fewer(Append(inbox, Resume), inbox)
  BY <1>1, <1>2, FewerResume
<1>4. QED BY <1>1, <1>2, <1>3 DEF SaveKeeps

\* The variables that no save touches have their types.
LEMMA TypeFacts ==
    ASSUME Base
    PROVE  /\ tasks \in Seq(Task) /\ Len(tasks) <= TaskLimit
           /\ queue \in Seq(Task) /\ Len(queue) <= TaskLimit
           /\ sel \in 1 .. TaskLimit /\ row \in 0 .. RowLimit /\ draft \in Step \union {0}
           /\ shown \in [Slot -> [is : Status, of : Step \union {0}]]
           /\ active \in [Slot -> RunRecord]
           /\ activeId \in TaskId \union {0} /\ cancelling \in BOOLEAN
           /\ inbox \in Seq(Message) /\ worker \in [Slot -> Thread \union {Gone}]
           /\ screen \in {"open", "closed", "picker", "confirm", "leaving", "left"}
           /\ dialogTask \in TaskId \union {0} /\ saveFailed \in BOOLEAN /\ outdated \in BOOLEAN
           /\ acts \in Nat /\ faults \in Nat /\ lost \in Nat /\ runs \in Nat
           /\ Blank \in [Slot -> [is : Status, of : Step \union {0}]]
           /\ Waiting \in [is : Status, of : Step \union {0}]
           /\ TaskLimit \in Nat \ {0} /\ RowLimit \in Nat \ {0} /\ Step \subseteq Nat \ {0}
  BY BatchAssumption DEF Base, TypeOK, RunRecord, Blank, Waiting, Status

\* What a step of the window leaves well typed, the runs being untouched.
WindowTyped ==
    /\ tasks \in Seq(Task) /\ Len(tasks) <= TaskLimit
    /\ sel \in 1 .. TaskLimit /\ row \in 0 .. RowLimit /\ draft \in Step \union {0}
    /\ shown \in [Slot -> [is : Status, of : Step \union {0}]]
    /\ inbox \in Seq(Message) /\ saveFailed \in BOOLEAN

LEMMA WindowTypes ==
    ASSUME Base, WindowTyped',
           active' \in [Slot -> RunRecord],
           UNCHANGED <<queue, activeId, cancelling, worker, runs, outdated, lost>>,
           screen' \in {"open", "closed", "picker", "confirm", "leaving", "left"},
           dialogTask' \in TaskId \union {0}, acts' \in Nat, faults' \in Nat
    PROVE  TypeOK'
  BY DEF Base, TypeOK, WindowTyped, RunRecord

\* The steps that save and leave the runs alone.
LEMMA EditTypes ==
    ASSUME Base,
           SaveRefused \/ Save \/ (\E d \in Step \union {0} : Type(d))
           \/ (\E i \in Slot : SelectRow(i)) \/ AskFolder
    PROVE  Base'
<1>1. TypeOK /\ Collection /\ Rows \in Seq(Step) /\ Len(Rows) \in Nat
  BY RowsType DEF Base
<1>2. Saves => SaveKeeps
  BY <1>1, SavingKeeps
<1>3. CASE SaveRefused
  <2>0. /\ UNCHANGED <<tasks, sel, row, draft, shown, active, queue, activeId, cancelling, screen, inbox,
                        worker, runs, outdated, dialogTask, lost>>
        /\ acts' = acts + 1 /\ faults' \in {faults, faults + 1} /\ saveFailed' = TRUE
    BY <1>3 DEF SaveRefused, Kept, Command, uiVars, queueVars, history
  <2>9. WindowTyped'
    BY <2>0, TypeFacts DEF WindowTyped
  <2>1. TypeOK'
    BY <2>0, <2>9, TypeFacts, WindowTypes, SMTT(20)
  <2>2. Collection'
    BY <1>1, <1>3 DEF Collection, SaveRefused, uiVars, Rows
  <2>3. QED BY <2>1, <2>2 DEF Base
<1>4. CASE Save
  <2>1. SaveKeeps /\ tasks' = SavedTasks /\ sel' = sel
    BY <1>2, <1>4 DEF Save
  <2>0. /\ UNCHANGED <<row, active, queue, activeId, cancelling, screen, worker, faults, runs, outdated,
                        dialogTask, lost>>
        /\ acts' = acts + 1
        /\ shown' = SavedShown /\ draft' = SavedDraft /\ inbox' = SavedInbox /\ saveFailed' = SavedFlag
    BY <1>4 DEF Save, Kept, Command, queueVars, history
  <2>9. WindowTyped'
    BY <2>0, <2>1, SavedSelection, SavedInboxType, TypeFacts DEF WindowTyped, SaveKeeps
  <2>2. TypeOK'
    BY <2>0, <2>9, TypeFacts, WindowTypes
  <2>3. row' <= Len(Rows')
    BY <1>1, <1>4, <2>1, SavedSelection DEF Save, Collection
  <2>4. Collection'
    BY <2>1, <2>3, SavedSelection DEF Collection
  <2>5. QED BY <2>2, <2>4 DEF Base
<1>5. ASSUME NEW d \in Step \union {0}, Type(d) PROVE Base'
  <2>1. TypeOK'
    <3>1. /\ UNCHANGED <<tasks, sel, row, shown, active, queue, activeId, cancelling, screen, worker,
                          faults, runs, outdated, dialogTask, lost, inbox, saveFailed>>
          /\ acts' = acts + 1 /\ draft' = d
      BY <1>5 DEF Type, Kept, Command, queueVars, history
    <3>2. WindowTyped
      BY TypeFacts DEF WindowTyped
    <3>3. WindowTyped'
      BY <3>1, <3>2 DEF WindowTyped
    <3>4. QED BY <3>1, <3>3, TypeFacts, WindowTypes
  <2>2. Collection'
    BY <1>1, <1>5 DEF Collection, Type, Rows
  <2>3. QED BY <2>1, <2>2 DEF Base
<1>6. ASSUME NEW i \in Slot, SelectRow(i) PROVE Base'
  <2>1. i \in 1 .. Len(Rows) /\ sel' = sel /\ row' = i /\ tasks # <<>>
    BY <1>6 DEF SelectRow, Rows
  <2>2. /\ tasks' \in Seq(Task) /\ Len(tasks') <= TaskLimit /\ Distinct(tasks') /\ saveFailed' \in BOOLEAN
        /\ shown' \in [Slot -> [is : Status, of : Step \union {0}]] /\ inbox' \in Seq(Message)
        /\ sel \in DOMAIN tasks' /\ Len(Rows') = Len(Rows) /\ Rows' \in Seq(Step)
        /\ Rows' = tasks'[sel].rows
    <3>1. CASE row = 0
      <4>1. UNCHANGED <<tasks, shown, inbox, saveFailed, sel>>
        BY <1>6, <3>1 DEF SelectRow
      <4>2. Rows' = Rows /\ Rows = tasks[sel].rows /\ sel \in DOMAIN tasks
        BY <4>1, <2>1, <1>1 DEF Rows, Collection
      <4>3. QED BY <4>1, <4>2, <1>1, TypeFacts DEF TypeOK, Collection
    <3>2. CASE row # 0
      <4>1. SaveKeeps /\ tasks' = SavedTasks /\ shown' = SavedShown /\ inbox' = SavedInbox /\ saveFailed' = SavedFlag
        BY <1>2, <1>6, <3>2 DEF SelectRow
      <4>2. QED BY <4>1, <2>1, SavedSelection, SavedInboxType DEF SaveKeeps
    <3>3. QED BY <3>1, <3>2
  <2>3. draft' = Rows'[i] /\ draft' \in Step
    BY <2>1, <2>2, <1>6 DEF SelectRow
  <2>0. /\ UNCHANGED <<active, queue, activeId, cancelling, screen, worker, faults, runs, outdated,
                        dialogTask, lost>>
        /\ acts' = acts + 1
    BY <1>6 DEF SelectRow, Kept, Command, queueVars, history
  <2>4. TypeOK'
    <3>1. row' \in 0 .. RowLimit /\ sel' \in 1 .. TaskLimit
      BY <2>1, TypeFacts DEF Slot
    <3>2. WindowTyped'
      BY <2>2, <2>3, <3>1 DEF WindowTyped
    <3>3. QED BY <2>0, <3>2, TypeFacts, WindowTypes, SMTT(20)
  <2>5. Collection'
    BY <2>1, <2>2, <1>1 DEF Collection
  <2>6. QED BY <2>4, <2>5 DEF Base
<1>7. CASE AskFolder
  <2>1. SaveKeeps /\ tasks' = SavedTasks /\ sel' = sel /\ row' = row
    BY <1>2, <1>7 DEF AskFolder
  <2>2. dialogTask' \in TaskId
    BY <1>1, <1>7, RowsType DEF AskFolder
  <2>0. /\ UNCHANGED <<active, queue, activeId, cancelling, worker, faults, runs, outdated, lost>>
        /\ acts' = acts + 1 /\ screen' = "picker"
        /\ shown' = SavedShown /\ draft' = SavedDraft /\ inbox' = SavedInbox /\ saveFailed' = SavedFlag
    BY <1>7 DEF AskFolder, Command, queueVars, history
  <2>9. /\ tasks' \in Seq(Task) /\ Len(tasks') <= TaskLimit /\ inbox' \in Seq(Message)
        /\ shown' \in [Slot -> [is : Status, of : Step \union {0}]] /\ draft' \in Step \union {0}
        /\ saveFailed' \in BOOLEAN
    BY <2>0, <2>1, SavedSelection, SavedInboxType DEF SaveKeeps
  <2>3. TypeOK'
    <3>1. row' \in 0 .. RowLimit /\ sel' \in 1 .. TaskLimit
      BY <2>1, TypeFacts
    <3>2. WindowTyped'
      BY <2>9, <3>1 DEF WindowTyped
    <3>3. QED BY <2>0, <2>2, <3>2, TypeFacts, WindowTypes, SMTT(20)
  <2>4. Collection'
    BY <1>1, <2>1, SavedSelection DEF Collection
  <2>5. QED BY <2>3, <2>4 DEF Base
<1>8. QED BY <1>3, <1>4, <1>5, <1>6, <1>7

\* The steps that change the selection or the list of tasks.
LEMMA ListTypes ==
    ASSUME Base,
           (\E t \in 1 .. TaskLimit : SelectTask(t)) \/ NewTask \/ AskDelete \/ Open
           \/ (\E sure \in BOOLEAN : DeleteTask(sure))
    PROVE  Base'
<1> USE BatchAssumption
<1>1. TypeOK /\ Collection /\ Rows \in Seq(Step) /\ Len(Rows) \in Nat
  BY RowsType DEF Base
<1>2. Saves => SaveKeeps
  BY <1>1, SavingKeeps
<1>3. ASSUME NEW t \in 1 .. TaskLimit, SelectTask(t) PROVE Base'
  <2>1. /\ SaveKeeps /\ tasks' = SavedTasks /\ sel' = t /\ t \in DOMAIN tasks /\ row' = 0 /\ draft' = 0
        /\ shown' = Blank /\ inbox' = SavedInbox /\ saveFailed' = SavedFlag
    BY <1>2, <1>3 DEF SelectTask
  <2>2. /\ tasks' \in Seq(Task) /\ Len(tasks') <= TaskLimit /\ Distinct(tasks') /\ t \in DOMAIN tasks'
        /\ tasks'[t] \in Task
    BY <2>1, TypeFacts, SMTT(20) DEF SaveKeeps
  <2>3. TypeOK'
    <3>1. /\ UNCHANGED <<active, queue, activeId, cancelling, screen, worker, faults, runs, outdated,
                          dialogTask, lost>>
          /\ acts' = acts + 1
      BY <1>3 DEF SelectTask, Kept, Command, queueVars, history
    <3>2. inbox' \in Seq(Message) /\ saveFailed' \in BOOLEAN
      BY <2>1, SavedInboxType DEF SaveKeeps
    <3>3. WindowTyped'
      BY <2>1, <2>2, <3>2, TypeFacts DEF WindowTyped
    <3>4. QED BY <3>1, <3>3, TypeFacts, WindowTypes, SMTT(20)
  <2>4. 0 <= Len(Rows')
    BY <2>1, <2>2 DEF Rows, Task
  <2>5. Collection'
    BY <2>1, <2>2, <2>4 DEF Collection
  <2>6. QED BY <2>3, <2>5 DEF Base
<1>4. CASE NewTask
  <2>1. /\ SaveKeeps /\ Len(tasks) < TaskLimit /\ sel' = Len(tasks) + 1 /\ row' = 0 /\ draft' = 0
        /\ shown' = Blank /\ inbox' = SavedInbox /\ saveFailed' = SavedFlag
    BY <1>2, <1>4 DEF NewTask
  <2>2. PICK id \in TaskId :
           /\ id \notin Ids(tasks)
           /\ tasks' = Append(SavedTasks, [id |-> id, rows |-> <<>>, mode |-> "SEQUENTIAL"])
    BY <1>4 DEF NewTask
  <2> DEFINE new == [id |-> id, rows |-> <<>>, mode |-> "SEQUENTIAL"]
  <2>3. new \in Task /\ new.id = id /\ new.rows = <<>>
    BY DEF Task, Mode
  <2> HIDE DEF new
  <2>4. /\ SavedTasks \in Seq(Task) /\ Len(SavedTasks) = Len(tasks) /\ tasks \in Seq(Task)
        /\ Len(tasks) \in Nat
    BY <2>1, TypeFacts DEF SaveKeeps
  <2>5. /\ tasks' \in Seq(Task) /\ Len(tasks') = Len(tasks) + 1 /\ tasks'[Len(tasks) + 1] = new
        /\ \A j \in 1 .. Len(tasks) : tasks'[j] = SavedTasks[j]
    BY <2>2, <2>3, <2>4 DEF new
  <2>6. \A j \in 1 .. Len(tasks) : tasks'[j].id # id
    <3>1. \A j \in 1 .. Len(tasks) : SavedTasks[j].id = tasks[j].id
      BY <2>1, <2>4, SMTT(20) DEF SaveKeeps
    <3>2. \A j \in 1 .. Len(tasks) : tasks[j].id \in Ids(tasks)
      BY <2>4, SMTT(20) DEF Ids
    <3>3. \A j \in 1 .. Len(tasks) : tasks'[j] = SavedTasks[j]
      BY <2>5
    <3>4. QED BY <3>1, <3>2, <3>3, <2>2
  <2>7. Distinct(tasks')
    <3>1. \A i, j \in 1 .. Len(tasks) : SavedTasks[i].id = SavedTasks[j].id => i = j
      BY <2>1, <2>4, SMTT(20) DEF SaveKeeps, Distinct
    <3>2. DOMAIN tasks' = 1 .. Len(tasks) + 1
      BY <2>5
    <3>3. SUFFICES ASSUME NEW i \in 1 .. Len(tasks) + 1, NEW j \in 1 .. Len(tasks) + 1,
                          tasks'[i].id = tasks'[j].id
                   PROVE  i = j
      BY <3>2 DEF Distinct
    <3>4. tasks'[Len(tasks) + 1].id = id
      BY <2>3, <2>5
    <3>5. CASE i \in 1 .. Len(tasks) /\ j \in 1 .. Len(tasks)
      BY <3>1, <3>3, <3>5, <2>5
    <3>6. CASE i = Len(tasks) + 1 \/ j = Len(tasks) + 1
      <4>1. i # j => \/ i = Len(tasks) + 1 /\ j \in 1 .. Len(tasks)
                     \/ j = Len(tasks) + 1 /\ i \in 1 .. Len(tasks)
        BY <2>4, <3>6
      <4>2. ~(i = Len(tasks) + 1 /\ j \in 1 .. Len(tasks))
        BY <3>3, <3>4, <2>6
      <4>3. ~(j = Len(tasks) + 1 /\ i \in 1 .. Len(tasks))
        BY <3>3, <3>4, <2>6
      <4>4. QED BY <4>1, <4>2, <4>3
    <3>7. Len(tasks) \in Nat
      BY <2>4
    <3>8. QED BY <3>5, <3>6, <3>7
  <2>8. TypeOK'
    <3>1. /\ UNCHANGED <<active, queue, activeId, cancelling, screen, worker, faults, runs, outdated,
                          dialogTask, lost>>
          /\ acts' = acts + 1
      BY <1>4 DEF NewTask, Kept, Command, queueVars, history
    <3>2. sel' \in 1 .. TaskLimit /\ Len(tasks') <= TaskLimit
      BY <2>1, <2>4, <2>5, TypeFacts, SMTT(20)
    <3>3. WindowTyped'
      BY <2>1, <2>5, <3>2, SavedInboxType, TypeFacts, SMTT(20) DEF WindowTyped, SaveKeeps
    <3>4. QED BY <3>1, <3>3, TypeFacts, WindowTypes, SMTT(20)
  <2>9. Rows' = <<>>
    <3>1. tasks' # <<>>
      BY <2>4, <2>5
    <3>2. QED BY <3>1, <2>1, <2>3, <2>5 DEF Rows
  <2>10. sel' \in DOMAIN tasks'
    BY <2>1, <2>4, <2>5
  <2>11. Collection'
    BY <2>1, <2>7, <2>9, <2>10 DEF Collection
  <2>12. QED BY <2>8, <2>11 DEF Base
<1>5. CASE AskDelete \/ Open
  <2>1. UNCHANGED <<tasks, sel, shown>> /\ row' \in {0, row} /\ draft' \in {0, draft}
    BY <1>5 DEF AskDelete, Open, uiVars
  <2>2. TypeOK'
    <3>1. /\ UNCHANGED <<active, queue, activeId, cancelling, worker, faults, runs, outdated,
                          dialogTask, lost, inbox, saveFailed>>
          /\ acts' = acts + 1 /\ screen' \in {"open", "confirm"}
      BY <1>5 DEF AskDelete, Open, Kept, Command, queueVars, history
    <3>2. WindowTyped /\ 0 \in 0 .. RowLimit
      BY TypeFacts DEF WindowTyped
    <3>3. WindowTyped'
      BY <2>1, <3>1, <3>2 DEF WindowTyped
    <3>4. QED BY <3>1, <3>3, TypeFacts, WindowTypes, SMTT(20)
  <2>3. Rows' = Rows
    BY <2>1 DEF Rows
  <2>4. Collection'
    BY <1>1, <2>1, <2>3 DEF Collection
  <2>5. QED BY <2>2, <2>4 DEF Base
<1>6. ASSUME NEW sure \in BOOLEAN, DeleteTask(sure) PROVE Base'
  <2>1. CASE sure /\ tasks # <<>>
    <3>1. /\ tasks' = Remove(tasks, sel) /\ row' = 0 /\ draft' = 0 /\ shown' = Blank
          /\ sel' = IF sel > Len(tasks') THEN (IF tasks' = <<>> THEN 1 ELSE Len(tasks')) ELSE sel
          /\ outdated' = (outdated \/ Running)
      BY <1>6, <2>1 DEF DeleteTask
    <3>2. sel \in 1 .. Len(tasks) /\ tasks \in Seq(Task) /\ Len(tasks) <= TaskLimit
      BY <2>1, <1>1, TypeFacts, SMTT(20) DEF Collection
    <3>3. /\ tasks' \in Seq(Task) /\ Len(tasks') = Len(tasks) - 1
          /\ \A k \in 1 .. Len(tasks) - 1 : tasks'[k] = IF k < sel THEN tasks[k] ELSE tasks[k + 1]
      BY <3>1, <3>2, RemoveSeq
    <3>4. Distinct(tasks')
      <4>1. DOMAIN tasks' = 1 .. Len(tasks) - 1
        BY <3>3
      <4>2. \A i, j \in 1 .. Len(tasks) : tasks[i].id = tasks[j].id => i = j
        BY <1>1, <3>2 DEF Collection, Distinct
      <4>3. SUFFICES ASSUME NEW i \in 1 .. Len(tasks) - 1, NEW j \in 1 .. Len(tasks) - 1,
                            tasks'[i].id = tasks'[j].id
                     PROVE  i = j
        BY <4>1 DEF Distinct
      <4> DEFINE p == IF i < sel THEN i ELSE i + 1
                 q == IF j < sel THEN j ELSE j + 1
      <4>4. tasks'[i] = tasks[p] /\ tasks'[j] = tasks[q]
        BY <3>3
      <4>5. p \in 1 .. Len(tasks) /\ q \in 1 .. Len(tasks)
        BY <3>2
      <4>6. p = q
        BY <4>2, <4>3, <4>4, <4>5
      <4>7. QED BY <4>6, <3>2
    <3>5. sel' \in 1 .. TaskLimit /\ (tasks' = <<>> \/ sel' \in DOMAIN tasks')
      BY <3>1, <3>2, <3>3
    <3>6. TypeOK'
      <4>1. /\ UNCHANGED <<active, queue, activeId, cancelling, inbox, worker, acts, faults, lost, runs,
                            saveFailed, dialogTask>>
            /\ screen' = "open"
        BY <1>6 DEF DeleteTask, queueVars
      <4>2. row' \in 0 .. RowLimit /\ draft' \in Step \union {0}
        BY <3>1, BatchAssumption
      <4>3. shown' \in [Slot -> [is : Status, of : Step \union {0}]] /\ outdated' \in BOOLEAN
        BY <3>1, TypeFacts
      <4>4. tasks' \in Seq(Task) /\ Len(tasks') <= TaskLimit
        BY <3>2, <3>3
      <4>5. QED BY <1>1, <3>5, <4>1, <4>2, <4>3, <4>4 DEF TypeOK, RunRecord
    <3>7. 0 <= Len(Rows')
      <4>1. tasks' # <<>> => tasks'[sel'] \in Task
        BY <3>3, <3>5
      <4>2. QED BY <4>1 DEF Rows, Task
    <3>8. Collection'
      BY <3>1, <3>4, <3>5, <3>7 DEF Collection
    <3>9. QED BY <3>6, <3>8 DEF Base
  <2>2. CASE ~(sure /\ tasks # <<>>)
    <3>1. UNCHANGED <<uiVars, outdated>>
      BY <1>6, <2>2 DEF DeleteTask
    <3>2. TypeOK'
      BY <1>1, <1>6, <3>1, TypeFacts DEF TypeOK, RunRecord, DeleteTask, queueVars, uiVars
    <3>3. Collection'
      BY <1>1, <3>1 DEF Collection, Rows, uiVars
    <3>4. QED BY <3>2, <3>3 DEF Base
  <2>3. QED BY <2>1, <2>2
<1>7. QED BY <1>3, <1>4, <1>5, <1>6

\* Removing, moving and adding rows.
LEMMA RowTypes ==
    ASSUME Base,
           RemoveRow \/ (\E i, j \in Slot : MoveRow(i, j)) \/ (\E d \in Step \union {0} : AddRow(d))
    PROVE  Base'
<1>1. TypeOK /\ Collection /\ Rows \in Seq(Step) /\ Len(Rows) \in Nat /\ Len(Rows) <= RowLimit
  BY RowsType DEF Base
<1>2. Saves => SaveKeeps
  BY <1>1, SavingKeeps
\* The collection T with other rows r in the selected task.
<1>3. ASSUME NEW T \in Seq(Task), Len(T) = Len(tasks), Distinct(T), sel \in DOMAIN T,
             NEW r \in Seq(Step), Len(r) <= RowLimit,
             tasks' = [T EXCEPT ![sel].rows = r], sel' = sel
      PROVE  /\ tasks' \in Seq(Task) /\ Len(tasks') <= TaskLimit /\ Distinct(tasks')
             /\ tasks' # <<>> /\ sel' \in DOMAIN tasks' /\ Rows' = r
  <2>0. T[sel] \in Task
    BY <1>3
  <2>1. [T[sel] EXCEPT !.rows = r] \in Task /\ T[sel] \in Task
    BY <1>3, <2>0 DEF Task
  <2>2. /\ tasks' \in Seq(Task) /\ Len(tasks') = Len(T) /\ DOMAIN tasks' = DOMAIN T
        /\ \A t \in DOMAIN T : tasks'[t] = IF t = sel THEN [T[sel] EXCEPT !.rows = r] ELSE T[t]
    BY <1>3, <2>1
  <2>3. \A t \in DOMAIN T : tasks'[t].id = T[t].id
    BY <1>3, <2>1, <2>2 DEF Task
  <2>4. Distinct(tasks')
    BY <1>3, <2>2, <2>3 DEF Distinct
  <2>5. tasks' # <<>> /\ tasks'[sel].rows = r
    BY <1>3, <2>1, <2>2 DEF Task
  <2>6. QED BY <1>3, <2>2, <2>4, <2>5, TypeFacts DEF Rows
<1>4. ASSUME SaveKeeps, tasks # <<>>
      PROVE  /\ SavedTasks \in Seq(Task) /\ Len(SavedTasks) = Len(tasks) /\ Distinct(SavedTasks)
             /\ sel \in DOMAIN SavedTasks /\ SavedTasks[sel].rows \in Seq(Step)
             /\ Len(SavedTasks[sel].rows) = Len(Rows)
  <2>1. sel \in DOMAIN tasks /\ Rows = tasks[sel].rows
    BY <1>1, <1>4, RowsType
  <2>2. sel \in DOMAIN SavedTasks /\ SavedTasks[sel] \in Task
    BY <1>4, <2>1, TypeFacts DEF SaveKeeps
  <2>3. QED BY <1>4, <2>1, <2>2 DEF SaveKeeps, Task
<1>5. CASE RemoveRow
  <2>1. /\ SaveKeeps /\ row \in 1 .. Len(Rows) /\ tasks # <<>> /\ sel' = sel
        /\ tasks' = [SavedTasks EXCEPT ![sel].rows = Remove(@, row)]
        /\ row' = 0 /\ draft' = 0 /\ inbox' = SavedInbox /\ saveFailed' = SavedFlag
        /\ active' = [s \in Slot |-> RowShifted(s)]
        /\ shown' = [i \in Slot |->
                   IF i < row THEN SavedShown[i]
                   ELSE IF i < Len(Rows) THEN SavedShown[i + 1]
                   ELSE IF i = Len(Rows) THEN Waiting ELSE SavedShown[i]]
    BY <1>2, <1>5 DEF RemoveRow, StepAvailable, Rows
  <2> DEFINE r == Remove(SavedTasks[sel].rows, row)
  <2>2. r \in Seq(Step) /\ Len(r) = Len(Rows) - 1
    BY <1>4, <2>1, RemoveSeq
  <2>3. tasks' = [SavedTasks EXCEPT ![sel].rows = r]
    BY <2>1
  <2> HIDE DEF r
  <2>4. Len(r) <= RowLimit
    BY <2>2, <1>1, TypeFacts, SMTT(20)
  <2>5. /\ tasks' \in Seq(Task) /\ Len(tasks') <= TaskLimit /\ Distinct(tasks')
        /\ tasks' # <<>> /\ sel' \in DOMAIN tasks' /\ Rows' = r
    BY <1>3, <1>4, <2>1, <2>2, <2>3, <2>4
  <2>6. shown' \in [Slot -> [is : Status, of : Step \union {0}]]
    <3>1. SavedShown \in [Slot -> [is : Status, of : Step \union {0}]]
      BY <2>1 DEF SaveKeeps
    <3>2. \A i \in Slot : i < Len(Rows) => i + 1 \in Slot
      BY <1>1, BatchAssumption DEF Slot
    <3>3. Waiting \in [is : Status, of : Step \union {0}]
      BY TypeFacts
    <3>4. QED BY <2>1, <3>1, <3>2, <3>3
  <2>7. active' \in [Slot -> RunRecord]
    <3>1. \A s \in Slot : RowShifted(s) \in RunRecord
      <4> TAKE s \in Slot
      <4>1. active[s] \in RunRecord /\ row \in Nat \ {0}
        BY <2>1, TypeFacts
      <4>2. CASE active[s].row > row
        <5>1. active[s].row - 1 \in 0 .. RowLimit
          BY <4>1, <4>2, BatchAssumption DEF RunRecord
        <5>2. QED BY <4>1, <4>2, <5>1 DEF RowShifted, RunRecord
      <4>3. CASE ~ (active[s].row > row)
        BY <4>1, <4>3 DEF RowShifted
      <4>4. QED BY <4>2, <4>3
    <3>2. QED BY <2>1, <3>1
  <2>8. WindowTyped'
    <3>1. inbox' \in Seq(Message) /\ saveFailed' \in BOOLEAN
      BY <2>1, SavedInboxType DEF SaveKeeps
    <3>2. sel' \in 1 .. TaskLimit /\ row' \in 0 .. RowLimit /\ draft' \in Step \union {0}
      BY <2>1, TypeFacts
    <3>3. QED BY <2>5, <2>6, <3>1, <3>2 DEF WindowTyped
  <2>9. /\ UNCHANGED <<queue, activeId, cancelling, screen, worker, faults, runs, outdated, dialogTask, lost>>
        /\ acts' = acts + 1
    BY <1>5 DEF RemoveRow, Kept, Command, queueVars, history
  <2>10. TypeOK'
    BY <2>7, <2>8, <2>9, TypeFacts, WindowTypes, SMTT(20)
  <2>11. 0 <= Len(Rows')
    BY <2>2, <2>5
  <2>12. QED BY <2>1, <2>5, <2>10, <2>11 DEF Base, Collection
<1>6. ASSUME NEW i \in Slot, NEW j \in Slot, MoveRow(i, j) PROVE Base'
  <2>1. /\ SaveKeeps /\ i \in 1 .. Len(Rows) /\ j \in 1 .. Len(Rows) /\ tasks # <<>> /\ sel' = sel
        /\ tasks' = [SavedTasks EXCEPT ![sel].rows = Moved(@, i, j)]
        /\ row' = j /\ draft' = tasks'[sel].rows[j] /\ inbox' = SavedInbox /\ saveFailed' = SavedFlag
        /\ shown' = [k \in Slot |-> IF k <= Len(Rows) THEN Moved(SubSeq(SavedShown, 1, Len(Rows)), i, j)[k]
                                    ELSE SavedShown[k]]
    BY <1>2, <1>6 DEF MoveRow, Rows
  <2> DEFINE r == Moved(SavedTasks[sel].rows, i, j)
  <2>2. r \in Seq(Step) /\ Len(r) = Len(Rows)
    <3> DEFINE q == SavedTasks[sel].rows
    <3>1. q \in Seq(Step) /\ i \in 1 .. Len(q) /\ j \in 1 .. Len(q) /\ Len(q) = Len(Rows)
      BY <1>4, <2>1
    <3> HIDE DEF q
    <3>2. Moved(q, i, j) \in Seq(Step) /\ Len(Moved(q, i, j)) = Len(q)
      BY <3>1, MovedSeq
    <3>3. QED BY <3>1, <3>2 DEF q
  <2>3. tasks' = [SavedTasks EXCEPT ![sel].rows = r]
    BY <2>1
  <2> HIDE DEF r
  <2>4. Len(r) <= RowLimit
    BY <2>2, <1>1, TypeFacts
  <2>5. /\ tasks' \in Seq(Task) /\ Len(tasks') <= TaskLimit /\ Distinct(tasks')
        /\ tasks' # <<>> /\ sel' \in DOMAIN tasks' /\ Rows' = r
    BY <1>3, <1>4, <2>1, <2>2, <2>3, <2>4
  <2>6. shown' \in [Slot -> [is : Status, of : Step \union {0}]]
    <3> DEFINE S == [is : Status, of : Step \union {0}]
               q == SubSeq(SavedShown, 1, Len(Rows))
    <3>1. SavedShown \in [Slot -> S]
      BY <2>1 DEF SaveKeeps
    <3> HIDE DEF S
    <3>2. SavedShown \in Seq(S) /\ Len(SavedShown) = RowLimit
      <4>1. SavedShown \in [1 .. RowLimit -> S] /\ RowLimit \in Nat
        BY <3>1, TypeFacts DEF Slot
      <4> HIDE DEF SaveKeeps
      <4>2. QED BY <4>1
    <3>3. q \in Seq(S) /\ Len(q) = Len(Rows)
      BY <3>2, <1>1
    <3> HIDE DEF q
    <3>4. Moved(q, i, j) \in Seq(S) /\ Len(Moved(q, i, j)) = Len(Rows)
      BY <3>3, <2>1, MovedSeq
    <3>5. \A k \in Slot : k <= Len(Rows) => Moved(q, i, j)[k] \in S
      BY <3>4, <1>1 DEF Slot
    <3>6. shown' \in [Slot -> S]
      BY <2>1, <3>1, <3>5 DEF q
    <3>7. QED BY <3>6 DEF S
  <2>7. row' \in 0 .. RowLimit /\ draft' \in Step /\ row' <= Len(Rows')
    <3>1. Rows' = tasks'[sel].rows
      BY <2>1, <2>5 DEF Rows
    <3>2. r[j] \in Step
      BY <2>1, <2>2
    <3>3. draft' = r[j]
      BY <2>1, <2>5, <3>1
    <3>4. row' = j /\ j \in 1 .. Len(Rows) /\ Len(Rows') = Len(Rows)
      BY <2>1, <2>2, <2>5
    <3>5. row' \in 0 .. RowLimit /\ row' <= Len(Rows')
      BY <3>4, <1>1, TypeFacts, SMTT(20)
    <3>6. QED BY <3>2, <3>3, <3>5
  <2>8. WindowTyped'
    BY <2>1, <2>5, <2>6, <2>7, SavedInboxType, TypeFacts DEF WindowTyped, SaveKeeps
  <2>9. /\ UNCHANGED <<active, queue, activeId, cancelling, screen, worker, faults, runs, outdated,
                       dialogTask, lost>>
        /\ acts' = acts + 1
    BY <1>6 DEF MoveRow, Kept, Command, queueVars, history
  <2>10. TypeOK'
    BY <2>8, <2>9, TypeFacts, WindowTypes
  <2>11. QED BY <2>5, <2>7, <2>10 DEF Base, Collection
<1>7. ASSUME NEW d \in Step \union {0}, AddRow(d) PROVE Base'
  <2>0. /\ UNCHANGED <<sel, active, queue, activeId, cancelling, inbox, worker, acts, lost, runs, outdated,
                       saveFailed>>
        /\ screen' = "open" /\ dialogTask' = 0
    BY <1>7 DEF AddRow, queueVars, history
  <2>1. CASE SameTask /\ d \in Step /\ (\A i \in DOMAIN Rows : Rows[i] # d) /\ Len(Rows) < RowLimit
    <3>1. /\ shown' = [shown EXCEPT ![Len(Rows) + 1] = Waiting]
          /\ \/ /\ tasks' = [tasks EXCEPT ![sel].rows = Append(@, d)]
                /\ row' = Len(Rows) + 1 /\ draft' = d /\ UNCHANGED faults
             \/ /\ MayFail /\ faults' = faults + 1
                /\ draft' = (IF row = 0 THEN 0 ELSE Rows[row])
                /\ UNCHANGED <<tasks, row>>
      BY <1>7, <2>1 DEF AddRow
    <3>2. shown' \in [Slot -> [is : Status, of : Step \union {0}]]
      BY <3>1, TypeFacts
    <3>3. tasks # <<>> /\ sel \in DOMAIN tasks /\ Rows = tasks[sel].rows
      BY <2>1, <1>1, RowsType DEF SameTask
    <3>4. CASE /\ tasks' = [tasks EXCEPT ![sel].rows = Append(@, d)]
               /\ row' = Len(Rows) + 1 /\ draft' = d /\ UNCHANGED faults
      <4> DEFINE r == Append(Rows, d)
      <4>1. r \in Seq(Step) /\ Len(r) = Len(Rows) + 1 /\ Len(r) <= RowLimit
        BY <2>1, <1>1, TypeFacts
      <4>2. tasks' = [tasks EXCEPT ![sel].rows = r]
        BY <3>3, <3>4
      <4> HIDE DEF r
      <4>3. /\ tasks' \in Seq(Task) /\ Len(tasks') <= TaskLimit /\ Distinct(tasks')
            /\ tasks' # <<>> /\ sel' \in DOMAIN tasks' /\ Rows' = r
        BY <1>1, <1>3, <2>0, <3>3, <4>1, <4>2, TypeFacts DEF Collection
      <4>4. WindowTyped'
        BY <2>0, <2>1, <3>2, <3>4, <4>1, <4>3, TypeFacts DEF WindowTyped
      <4>5. TypeOK'
        BY <2>0, <3>4, <4>4, TypeFacts, WindowTypes
      <4>6. row' <= Len(Rows')
        BY <3>4, <4>1, <4>3
      <4>7. QED BY <4>3, <4>5, <4>6 DEF Base, Collection
    <3>5. CASE /\ MayFail /\ faults' = faults + 1
               /\ draft' = (IF row = 0 THEN 0 ELSE Rows[row])
               /\ UNCHANGED <<tasks, row>>
      <4>1. draft' \in Step \union {0}
        BY <3>5, <1>1, TypeFacts, SMTT(20) DEF Collection
      <4>2. WindowTyped'
        BY <2>0, <3>2, <3>5, <4>1, TypeFacts DEF WindowTyped
      <4>3. TypeOK'
        BY <2>0, <3>5, <4>2, TypeFacts, WindowTypes
      <4>4. Collection'
        BY <1>1, <2>0, <3>5 DEF Collection, Rows
      <4>5. QED BY <4>3, <4>4 DEF Base
    <3>6. QED BY <3>1, <3>4, <3>5
  <2>2. CASE ~ (SameTask /\ d \in Step /\ (\A i \in DOMAIN Rows : Rows[i] # d) /\ Len(Rows) < RowLimit)
    <3>1. UNCHANGED <<tasks, sel, row, draft, shown, faults>>
      BY <1>7, <2>2 DEF AddRow, uiVars
    <3>2. WindowTyped'
      BY <2>0, <3>1, TypeFacts DEF WindowTyped
    <3>3. TypeOK'
      BY <2>0, <3>1, <3>2, TypeFacts, WindowTypes
    <3>4. Collection'
      BY <1>1, <3>1 DEF Collection, Rows
    <3>5. QED BY <3>3, <3>4 DEF Base
  <2>3. QED BY <2>1, <2>2
<1>8. QED BY <1>5, <1>6, <1>7

\* start_next_task keeps them too, whoever calls it.
LEMMA StartTypes ==
    ASSUME Base, NEW T \in Seq(Task), Len(T) <= TaskLimit, Distinct(T), T = <<>> \/ sel \in DOMAIN T,
           NEW A \in [Slot -> RunRecord], Used(A) = {},
           NEW Q \in Seq(Task), Len(Q) <= TaskLimit,
           NEW box \in Seq(Message), NEW win, StartNext(T, A, Q, box, win),
           tasks' = T, saveFailed' \in BOOLEAN, acts' \in Nat, UNCHANGED <<dialogTask, lost>>,
           screen' \in {"open", "closed", "picker", "confirm", "leaving", "left"}
    PROVE  Base'
<1>1. /\ inbox' \in {box, Append(box, Resume)} /\ cancelling' = FALSE
      /\ shown' = Blank /\ row' = 0 /\ draft' = 0
      /\ sel' = sel \/ sel' \in DOMAIN T
      /\ queue' \in Seq(Task) /\ Len(queue') <= Len(Q)
      /\ Launched(T, A, Q) \/ Exhausted(A)
  BY StartNextEnds
<1>2. Resume \in Message
  BY BatchAssumption DEF Resume, Message
<1>3. inbox' \in Seq(Message)
  <2>1. Append(box, Resume) \in Seq(Message)
    BY <1>2
  <2>2. QED BY <1>1, <2>1
<1>4. faults' \in Nat
  <2>1. PICK k \in 0 .. Len(Q) : faults' = faults + k
    BY DEF StartNext
  <2>2. faults \in Nat
    BY TypeFacts
  <2>3. QED BY <2>1, <2>2
<1>5. /\ active' \in [Slot -> RunRecord] /\ worker' \in [Slot -> Thread \union {Gone}]
      /\ activeId' \in TaskId \union {0} /\ runs' \in Nat /\ outdated' \in BOOLEAN
  <2>1. CASE Launched(T, A, Q)
    <3>1. PICK k \in 1 .. Len(Q), s \in Slot : activeId' = Q[k].id /\ BeginsIn(s, T, A, Q[k], 0)
      BY <2>1 DEF Launched
    <3>2. Q[k] \in Task /\ Q[k].id \in TaskId /\ 0 \in 0 .. Len(Q[k].rows)
      BY <3>1 DEF Task
    <3>3. StartedRun(0) \in RunRecord /\ StartedThread(Q[k], 0) \in Thread
      BY <3>2, TypeFacts, BeginTypes
    <3>4. active' \in [Slot -> RunRecord]
      BY <3>1, <3>3 DEF BeginsIn
    <3>5. worker' \in [Slot -> Thread \union {Gone}]
      <4>1. worker \in [Slot -> Thread \union {Gone}]
        BY TypeFacts
      <4>2. QED BY <3>1, <3>3, <4>1 DEF BeginsIn
    <3>6. runs' \in Nat /\ outdated' \in BOOLEAN
      <4>1. runs \in Nat /\ runs' = runs + 1
        BY <3>1, TypeFacts DEF BeginsIn
      <4>2. outdated' \in BOOLEAN
        BY <3>1, TypeFacts DEF BeginsIn
      <4>3. QED BY <4>1, <4>2
    <3>7. QED BY <3>1, <3>2, <3>4, <3>5, <3>6
  <2>2. CASE Exhausted(A)
    <3>1. /\ worker \in [Slot -> Thread \union {Gone}] /\ runs \in Nat /\ outdated \in BOOLEAN
      BY TypeFacts
    <3>2. QED BY <2>2, <3>1 DEF Exhausted, history
  <2>3. QED BY <1>1, <2>1, <2>2
<1>6. sel' \in 1 .. TaskLimit
  <2>1. DOMAIN T \subseteq 1 .. TaskLimit
    BY BatchAssumption
  <2>2. sel \in 1 .. TaskLimit
    BY TypeFacts
  <2>3. sel' = sel \/ sel' \in DOMAIN T
    BY <1>1
  <2>4. QED BY <2>1, <2>2, <2>3
<1>7. /\ Len(queue') <= TaskLimit /\ row' \in 0 .. RowLimit /\ draft' \in Step \union {0}
      /\ shown' \in [Slot -> [is : Status, of : Step \union {0}]]
      /\ dialogTask' \in TaskId \union {0} /\ lost' \in Nat /\ cancelling' \in BOOLEAN
  <2>1. Len(queue') \in Nat /\ Len(Q) \in Nat
    BY <1>1
  <2>2. Len(queue') <= TaskLimit
    BY <1>1, <2>1, TypeFacts, SMTT(20)
  <2>3. row' \in 0 .. RowLimit /\ draft' \in Step \union {0}
    BY <1>1, BatchAssumption
  <2>4. shown' \in [Slot -> [is : Status, of : Step \union {0}]]
    BY <1>1, TypeFacts
  <2>5. dialogTask' \in TaskId \union {0} /\ lost' \in Nat /\ cancelling' \in BOOLEAN
    BY <1>1, TypeFacts
  <2>6. QED BY <2>2, <2>3, <2>4, <2>5
<1>8. TypeOK'
  BY <1>1, <1>3, <1>4, <1>5, <1>6, <1>7 DEF TypeOK, RunRecord
<1>9. Collection'
  <2>1. tasks' # <<>> => sel' \in DOMAIN tasks' /\ tasks'[sel'] \in Task
    BY <1>1
  <2>2. Len(Rows') \in Nat
    BY <2>1 DEF Rows, Task
  <2>3. QED BY <1>1, <2>1, <2>2 DEF Collection
<1>10. QED BY <1>8, <1>9 DEF Base

\* The collection, the task and the queue of a launch.
LaunchTasks == IF screen = "closed" THEN tasks ELSE SavedTasks
LaunchTask(id) == LaunchTasks[Place(LaunchTasks, id)]
LaunchQueue(id) == IF Queued(LaunchTask(id)) THEN queue ELSE Append(queue, LaunchTask(id))
LaunchBox == IF screen = "closed" THEN inbox ELSE SavedInbox

\* The three ways a launch ends: it waits, it is given to start_next_task, or
\* start_next_task cannot save.
LaunchWaits(id) ==
    /\ Running /\ queue' = LaunchQueue(id)
    /\ IF screen = "closed"
       THEN saveFailed' = saveFailed /\ shown' = shown /\ row' = 0 /\ draft' = 0
       ELSE saveFailed' = SavedFlag /\ shown' = SavedShown /\ row' = row /\ draft' = SavedDraft
    /\ UNCHANGED <<sel, active, activeId, cancelling, worker, history, faults, inbox>>
LaunchStarts(id) ==
    /\ ~Running /\ saveFailed' \in BOOLEAN
    /\ StartNext(LaunchTasks, active, LaunchQueue(id), LaunchBox, "open")

LEMMA LaunchWays ==
    ASSUME Base, NEW id \in TaskId, Launch(id)
    PROVE  /\ acts' = acts + 1 /\ UNCHANGED <<dialogTask, lost>>
           /\ screen' = (IF screen = "closed" THEN "open" ELSE screen)
           /\ screen \notin {"leaving", "left"}
           /\ screen # "closed" => SaveKeeps
           /\ tasks' = LaunchTasks
           /\ Queued(LaunchTask(id)) \/ Room
           /\ LaunchTasks \in Seq(Task) /\ Len(LaunchTasks) = Len(tasks) /\ Len(tasks) <= TaskLimit
           /\ Distinct(LaunchTasks) /\ sel \in DOMAIN LaunchTasks /\ tasks # <<>>
           /\ LaunchTask(id) \in Task /\ LaunchTask(id).id = id /\ LaunchTask(id).rows # <<>>
           /\ LaunchQueue(id) \in Seq(Task) /\ Len(LaunchQueue(id)) <= TaskLimit
           /\ LaunchWaits(id) \/ LaunchStarts(id) \/ (~Running /\ SecondSaveFails(LaunchQueue(id)))
<1> USE BatchAssumption
<1>1. screen # "closed" => SaveKeeps
  BY SavingKeeps DEF Launch, Base
<1>2. /\ acts' = acts + 1 /\ UNCHANGED <<dialogTask, lost>>
      /\ screen' = (IF screen = "closed" THEN "open" ELSE screen)
      /\ screen \notin {"leaving", "left"} /\ tasks' = LaunchTasks
      /\ id \in Ids(LaunchTasks) /\ LaunchTask(id).rows # <<>>
      /\ Queued(LaunchTask(id)) \/ Room
  BY DEF Launch, Kept, LaunchTasks, LaunchTask
<1>3. /\ LaunchTasks \in Seq(Task) /\ Len(LaunchTasks) = Len(tasks) /\ Distinct(LaunchTasks)
      /\ Len(tasks) <= TaskLimit /\ tasks \in Seq(Task)
  <2>1. tasks \in Seq(Task) /\ Len(tasks) <= TaskLimit /\ Distinct(tasks)
    BY TypeFacts DEF Base, Collection
  <2>2. QED BY <1>1, <2>1 DEF LaunchTasks, SaveKeeps
<1>4. Place(LaunchTasks, id) \in DOMAIN LaunchTasks /\ LaunchTask(id).id = id
  BY <1>2 DEF Ids, Place, LaunchTask
<1>5. LaunchTask(id) \in Task
  BY <1>3, <1>4 DEF LaunchTask
<1>6. tasks # <<>> /\ sel \in DOMAIN LaunchTasks
  <2>1. DOMAIN LaunchTasks = DOMAIN tasks
    BY <1>3
  <2>2. tasks # <<>>
    BY <1>4, <2>1
  <2>3. QED BY <2>1, <2>2 DEF Base, Collection
<1>7. LaunchQueue(id) \in Seq(Task) /\ Len(LaunchQueue(id)) <= TaskLimit
  <2>1. queue \in Seq(Task) /\ Len(queue) <= TaskLimit /\ Len(queue) \in Nat
    BY TypeFacts
  <2>2. CASE Queued(LaunchTask(id))
    BY <2>1, <2>2 DEF LaunchQueue
  <2>3. CASE ~Queued(LaunchTask(id))
    <3>1. Len(queue) + 1 <= TaskLimit
      BY <1>2, <2>1, <2>3 DEF Room
    <3>2. LaunchQueue(id) = Append(queue, LaunchTask(id))
      BY <2>3 DEF LaunchQueue
    <3>3. QED BY <1>5, <2>1, <3>1, <3>2
  <2>4. QED BY <2>2, <2>3
<1>8. LaunchWaits(id) \/ LaunchStarts(id) \/ (~Running /\ SecondSaveFails(LaunchQueue(id)))
  <2>1. CASE Running
    BY <2>1 DEF Launch, LaunchWaits, LaunchTasks, LaunchTask, LaunchQueue
  <2>2. CASE ~Running
    <3>1. saveFailed \in BOOLEAN
      BY TypeFacts
    <3>2. \/ /\ saveFailed' = (saveFailed /\ LaunchTasks = <<>>)
             /\ StartNext(LaunchTasks, active, LaunchQueue(id), LaunchBox, "open")
          \/ SecondSaveFails(LaunchQueue(id))
      BY <2>2 DEF Launch, LaunchTasks, LaunchTask, LaunchQueue, LaunchBox
    <3>3. QED BY <2>2, <3>1, <3>2 DEF LaunchStarts
  <2>3. QED BY <2>1, <2>2
<1>9. QED BY <1>1, <1>2, <1>3, <1>4, <1>5, <1>6, <1>7, <1>8

LEMMA SavedShownType == Base => SavedShown \in [Slot -> [is : Status, of : Step \union {0}]]
  BY TypeFacts DEF SavedShown

LEMMA LaunchTypes == ASSUME Base, NEW id \in TaskId, Launch(id) PROVE Base'
<1>1. /\ acts' = acts + 1 /\ UNCHANGED <<dialogTask, lost>>
      /\ screen' = (IF screen = "closed" THEN "open" ELSE screen)
      /\ screen # "closed" => SaveKeeps
      /\ tasks' = LaunchTasks
      /\ LaunchTasks \in Seq(Task) /\ Len(LaunchTasks) = Len(tasks) /\ Len(tasks) <= TaskLimit
      /\ Distinct(LaunchTasks) /\ sel \in DOMAIN LaunchTasks
      /\ LaunchQueue(id) \in Seq(Task) /\ Len(LaunchQueue(id)) <= TaskLimit
      /\ LaunchWaits(id) \/ LaunchStarts(id) \/ (~Running /\ SecondSaveFails(LaunchQueue(id)))
  BY LaunchWays
<1>2. /\ screen' \in {"open", "closed", "picker", "confirm", "leaving", "left"}
      /\ dialogTask' \in TaskId \union {0} /\ acts' \in Nat /\ lost' \in Nat
  BY <1>1, TypeFacts, SMTT(20)
<1>3. LaunchBox \in Seq(Message)
  BY <1>1, SavedInboxType, TypeFacts DEF LaunchBox
<1>4. Len(Rows') = Len(Rows) \/ sel' # sel
  <2>1. CASE sel' = sel /\ screen = "closed"
    BY <1>1, <2>1 DEF Rows, LaunchTasks
  <2>2. CASE sel' = sel /\ screen # "closed"
    BY <1>1, <2>2, SavedSelection DEF LaunchTasks
  <2>3. QED BY <2>1, <2>2
<1>5. CASE LaunchStarts(id)
  <2>1. Used(active) = {} /\ active \in [Slot -> RunRecord] /\ Len(LaunchTasks) <= TaskLimit
    BY <1>1, <1>5, TypeFacts DEF LaunchStarts, Running
  <2>2. /\ saveFailed' \in BOOLEAN
        /\ StartNext(LaunchTasks, active, LaunchQueue(id), LaunchBox, "open")
    BY <1>5 DEF LaunchStarts
  <2>3. QED BY <1>1, <1>2, <1>3, <2>1, <2>2, StartTypes
\* It waits, or the save fails: the runs and the selection stay as they are.
<1>6. ASSUME sel' = sel, row' \in {0, row}, draft' \in {0, SavedDraft},
             draft' = 0 \/ screen # "closed", shown' \in {shown, SavedShown},
             inbox' \in {inbox, LaunchBox}, queue' = LaunchQueue(id), saveFailed' \in BOOLEAN,
             UNCHANGED <<active, activeId, cancelling, worker, runs, outdated>>, faults' \in Nat
      PROVE  Base'
  <2>1. draft' \in Step \union {0} /\ shown' \in [Slot -> [is : Status, of : Step \union {0}]]
    BY <1>1, <1>6, SavedShownType, TypeFacts DEF SaveKeeps
  <2>2. inbox' \in Seq(Message) /\ tasks' \in Seq(Task) /\ Len(tasks') <= TaskLimit
    BY <1>1, <1>3, <1>6, TypeFacts
  <2>3. row' \in 0 .. RowLimit /\ row' <= Len(Rows')
    <3>1. row \in Nat /\ row <= Len(Rows) /\ Len(Rows) \in Nat
      BY RowsType, TypeFacts DEF Base, Collection
    <3>2. QED BY <1>4, <1>6, <3>1, TypeFacts, SMTT(20)
  <2>4. TypeOK'
    <3>1. queue' \in Seq(Task) /\ Len(queue') <= TaskLimit
      BY <1>1, <1>6
    <3>2. QED BY <1>2, <1>6, <2>1, <2>2, <2>3, <3>1 DEF Base, TypeOK
  <2>5. QED BY <1>1, <1>6, <2>3, <2>4 DEF Base, Collection
<1>7. CASE LaunchWaits(id)
  <2>1. saveFailed' \in BOOLEAN
    BY <1>1, <1>7, TypeFacts DEF LaunchWaits, SaveKeeps
  <2>2. faults' \in Nat
    BY <1>7, TypeFacts DEF LaunchWaits
  <2>3. QED BY <1>6, <1>7, <2>1, <2>2 DEF LaunchWaits, history
<1>8. CASE SecondSaveFails(LaunchQueue(id))
  <2>1. saveFailed' \in BOOLEAN
    BY <1>8 DEF SecondSaveFails
  <2>2. faults' \in Nat
    BY <1>8, TypeFacts, SMTT(20) DEF SecondSaveFails
  <2>3. QED BY <1>6, <1>8, <2>1, <2>2 DEF SecondSaveFails, history, LaunchBox
<1>9. QED BY <1>1, <1>5, <1>7, <1>8

\* The two ways a step ends that wants the next launch: the save fails, or
\* start_next_task takes over.
TryFails(A) ==
    /\ saveFailed' = TRUE /\ active' = A /\ activeId' = 0 /\ cancelling' = FALSE
    /\ inbox' = Tail(inbox)
    /\ UNCHANGED <<uiVars, queue, worker, history>>

LEMMA TryWays ==
    ASSUME Base, NEW A, TryNext(A)
    PROVE  \/ TryFails(A) /\ faults' \in Nat
           \/ \E T \in Seq(Task), win \in {"open", "closed"} :
                 /\ tasks' = T /\ Len(T) = Len(tasks) /\ Distinct(T) /\ (T = <<>> \/ sel \in DOMAIN T)
                 /\ saveFailed' \in BOOLEAN
                 /\ StartNext(T, A, queue, Tail(inbox), win)
<1>1. tasks \in Seq(Task) /\ Distinct(tasks) /\ (tasks = <<>> \/ sel \in DOMAIN tasks)
  BY TypeFacts DEF Base, Collection
<1>2. CASE screen = "closed"
  BY <1>1, <1>2, TypeFacts DEF TryNext
<1>3. CASE screen # "closed" /\ (tasks = <<>> \/ Acceptable)
            /\ tasks' = SavedTasks /\ saveFailed' = (saveFailed /\ tasks = <<>>)
            /\ StartNext(SavedTasks, A, queue, Tail(inbox), "open")
  <2>1. SaveKeeps
    BY <1>3, SavingKeeps DEF Base, Saves, SaveSkips
  <2>2. SavedTasks \in Seq(Task) /\ Len(SavedTasks) = Len(tasks) /\ Distinct(SavedTasks)
    BY <2>1 DEF SaveKeeps
  <2>3. SavedTasks = <<>> \/ sel \in DOMAIN SavedTasks
    BY <1>1, <2>2
  <2>4. saveFailed' \in BOOLEAN
    BY <1>3, TypeFacts
  <2>5. QED BY <1>3, <2>2, <2>3, <2>4
<1>4. CASE TryFails(A) /\ faults' = (IF Acceptable THEN faults + 1 ELSE faults)
  BY <1>4, TypeFacts
<1>5. QED BY <1>2, <1>3, <1>4 DEF TryNext, TryFails

LEMMA TryTypes ==
    ASSUME Base, NEW A \in [Slot -> RunRecord], Used(A) = {}, inbox # <<>>, TryNext(A),
           UNCHANGED <<screen, dialogTask, acts, lost>>
    PROVE  Base'
<1>1. Tail(inbox) \in Seq(Message)
  BY FewerTail, TypeFacts
<1>2. CASE TryFails(A) /\ faults' \in Nat
  <2>1. TypeOK'
    BY <1>1, <1>2 DEF Base, TypeOK, RunRecord, TryFails, uiVars, history
  <2>2. Collection'
    BY <1>2 DEF Base, Collection, Rows, TryFails, uiVars
  <2>3. QED BY <2>1, <2>2 DEF Base
<1>3. ASSUME NEW T \in Seq(Task), NEW win, tasks' = T, Len(T) = Len(tasks), Distinct(T),
             T = <<>> \/ sel \in DOMAIN T, saveFailed' \in BOOLEAN,
             StartNext(T, A, queue, Tail(inbox), win)
      PROVE  Base'
  <2>1. /\ Len(T) <= TaskLimit /\ queue \in Seq(Task) /\ Len(queue) <= TaskLimit
        /\ acts' \in Nat /\ screen' \in {"open", "closed", "picker", "confirm", "leaving", "left"}
    BY <1>3, TypeFacts
  <2>2. QED BY <1>1, <1>3, <2>1, StartTypes
<1>4. QED BY <1>2, <1>3, TryWays

LEMMA CloseTypes == ASSUME Base, Close PROVE Base'
<1>1. SaveKeeps
  BY SavingKeeps DEF Close, Base
<1>2. /\ tasks' = SavedTasks /\ saveFailed' = SavedFlag /\ screen' = "closed" /\ acts' = acts + 1
      /\ UNCHANGED <<dialogTask, lost>>
  BY DEF Close, Kept, Command
<1>3. Undelivered(inbox) \in Seq(Message)
  BY FewerUndelivered, TypeFacts
<1>4. /\ tasks' \in Seq(Task) /\ Len(tasks') <= TaskLimit /\ Distinct(tasks') /\ saveFailed' \in BOOLEAN
      /\ tasks' = <<>> \/ sel \in DOMAIN tasks'
      /\ acts' \in Nat /\ dialogTask' \in TaskId \union {0} /\ Len(tasks') = Len(tasks)
  <2>1. tasks \in Seq(Task) /\ Len(tasks) <= TaskLimit /\ acts \in Nat /\ dialogTask \in TaskId \union {0}
    BY TypeFacts
  <2>2. tasks = <<>> \/ sel \in DOMAIN tasks
    BY DEF Base, Collection
  <2>3. QED BY <1>1, <1>2, <2>1, <2>2 DEF SaveKeeps
<1>5. CASE ~Running /\ queue # <<>>
  <2>1. StartNext(SavedTasks, active, queue, Undelivered(inbox), "closed")
    BY <1>5 DEF Close
  <2>2. Used(active) = {} /\ active \in [Slot -> RunRecord] /\ queue \in Seq(Task) /\ Len(queue) <= TaskLimit
    BY <1>5, TypeFacts DEF Running
  <2>3. QED BY <1>2, <1>3, <1>4, <2>1, <2>2, StartTypes
<1>6. CASE ~(~Running /\ queue # <<>>)
  <2>1. /\ shown' = SavedShown /\ row' = 0 /\ draft' = 0 /\ inbox' = Undelivered(inbox)
        /\ UNCHANGED <<sel, active, queue, activeId, cancelling, worker, faults, runs, outdated>>
    BY <1>6 DEF Close, queueVars, history
  <2>2. WindowTyped'
    BY <1>1, <1>3, <1>4, <2>1, TypeFacts DEF WindowTyped, SaveKeeps
  <2>3. TypeOK'
    BY <1>2, <1>4, <2>1, <2>2, TypeFacts, WindowTypes
  <2>4. row' <= Len(Rows')
    BY <1>1, <1>2, <2>1, SavedSelection
  <2>5. QED BY <1>4, <2>1, <2>3, <2>4 DEF Base, Collection
<1>7. QED BY <1>5, <1>6

LEMMA EventTypes == ASSUME Base, Finished \/ Resumed \/ Progress PROVE Base'
<1>1. inbox # <<>> /\ UNCHANGED <<screen, dialogTask, acts, lost>>
  BY DEF Finished, Resumed, Progress, Listening, handled
<1>2. Tail(inbox) \in Seq(Message) /\ Head(inbox) \in Message
  BY <1>1, FewerTail, TypeFacts
<1>3. Free \in RunRecord
  BY BatchAssumption DEF Free, RunRecord
<1>4. CASE Finished
  <2> DEFINE A == [active EXCEPT ![Head(inbox).slot] = Free]
  <2>1. A \in [Slot -> RunRecord]
    BY <1>3, TypeFacts
  <2>2. CASE Used(A) = {} /\ queue # <<>>
    <3>1. TryNext(A)
      BY <1>4, <2>2 DEF Finished
    <3> HIDE DEF A
    <3>2. QED BY <1>1, <2>1, <2>2, <3>1, TryTypes
  <2>3. CASE ~(Used(A) = {} /\ queue # <<>>)
    <3>1. /\ active' = A /\ inbox' = Tail(inbox)
          /\ activeId' \in {0, activeId} /\ cancelling' = StillCancelling(A)
          /\ UNCHANGED <<uiVars, queue, worker, faults, history, saveFailed>>
      BY <1>4, <2>3 DEF Finished
    <3>2. cancelling' \in BOOLEAN
      BY <3>1, TypeFacts DEF StillCancelling
    <3> HIDE DEF A
    <3>3. TypeOK'
      BY <1>1, <1>2, <2>1, <3>1, <3>2 DEF Base, TypeOK, RunRecord, uiVars, history
    <3>4. Collection'
      BY <3>1 DEF Base, Collection, Rows, uiVars
    <3>5. QED BY <3>3, <3>4 DEF Base
  <2>4. QED BY <2>2, <2>3
<1>5. CASE Resumed
  <2>1. CASE ~Running /\ queue # <<>>
    <3>1. TryNext(active) /\ Used(active) = {} /\ active \in [Slot -> RunRecord]
      BY <1>5, <2>1, TypeFacts DEF Resumed, Running
    <3>2. QED BY <1>1, <3>1, TryTypes
  <2>2. CASE ~(~Running /\ queue # <<>>)
    <3>1. inbox' = Tail(inbox) /\ UNCHANGED <<uiVars, active, queueVars, worker, faults, history, saveFailed>>
      BY <1>5, <2>2 DEF Resumed
    <3>2. TypeOK'
      BY <1>1, <1>2, <3>1 DEF Base, TypeOK, uiVars, history, queueVars
    <3>3. Collection'
      BY <3>1 DEF Base, Collection, Rows, uiVars
    <3>4. QED BY <3>2, <3>3 DEF Base
  <2>3. QED BY <2>1, <2>2
<1>6. CASE Progress
  <2>1. /\ inbox' = Tail(inbox) /\ Head(inbox).type \notin {"RESUME", "FINISHED"}
        /\ UNCHANGED <<tasks, sel, row, draft, active, queueVars, screen, worker,
                       faults, history, saveFailed>>
        /\ \/ shown' = shown
           \/ \E i \in 1 .. Len(Rows) :
                 shown' = [shown EXCEPT ![i] = [is |-> EventStatus(Head(inbox)), of |-> Head(inbox).step]]
    BY <1>6 DEF Progress
  <2>2. EventStatus(Head(inbox)) \in Status /\ Head(inbox).step \in Step \union {0}
    <3>1. Head(inbox).type \in Done \union {"STARTED"} /\ Head(inbox).step \in Step \union {0}
      BY <1>2, <2>1 DEF Message
    <3>2. EventStatus(Head(inbox)) \in {"CANCELLING", "RUNNING", "CANCELLED", Head(inbox).type}
      BY DEF EventStatus
    <3>3. Head(inbox).type = "STARTED" => EventStatus(Head(inbox)) \in {"CANCELLING", "RUNNING"}
      BY DEF EventStatus
    <3>4. {"CANCELLING", "RUNNING", "CANCELLED"} \subseteq Status /\ Done \subseteq Status
      BY DEF Status, Done
    <3>5. QED BY <3>1, <3>2, <3>3, <3>4
  <2>3. shown' \in [Slot -> [is : Status, of : Step \union {0}]]
    <3> DEFINE S == [is : Status, of : Step \union {0}]
               v == [is |-> EventStatus(Head(inbox)), of |-> Head(inbox).step]
    <3>1. v \in S
      BY <2>2
    <3>2. shown \in [Slot -> S]
      BY TypeFacts
    <3>3. shown' = shown \/ \E i \in 1 .. Len(Rows) : shown' = [shown EXCEPT ![i] = v]
      BY <2>1
    <3> HIDE DEF S, v
    <3>4. shown' \in [Slot -> S]
      BY <3>1, <3>2, <3>3
    <3>5. QED BY <3>4 DEF S
  <2>4. WindowTyped'
    BY <1>2, <2>1, <2>3, TypeFacts DEF WindowTyped
  <2>5. TypeOK'
    BY <1>1, <2>1, <2>4, TypeFacts, WindowTypes DEF queueVars, history
  <2>6. Collection'
    BY <2>1 DEF Base, Collection, Rows
  <2>7. QED BY <2>5, <2>6 DEF Base
<1>7. QED BY <1>4, <1>5, <1>6

\* A run or a step of one, as a save leaves the collection.
LEMMA RunStepWays ==
    ASSUME Base, RunStep
    PROVE  /\ SaveKeeps /\ row \in 1 .. Len(Rows) /\ ~StepRunning(row) /\ ~cancelling /\ screen = "open"
           /\ tasks # <<>> /\ sel \in DOMAIN tasks /\ tasks[sel].id \in TaskId
           /\ SavedTasks[sel] \in Task /\ row \in 1 .. Len(SavedTasks[sel].rows)
           /\ tasks' = SavedTasks /\ inbox' = SavedInbox /\ saveFailed' = SavedFlag
           /\ draft' = SavedDraft /\ acts' = acts + 1
           /\ UNCHANGED <<sel, row, queue, screen, dialogTask, lost>>
           /\ \/ /\ BeginsIn(FreeSlot(active), SavedTasks, active, SavedTasks[sel], row)
                 /\ activeId' = tasks[sel].id /\ cancelling' = FALSE /\ faults' = faults
                 /\ shown' = [SavedShown EXCEPT ![row] = [is |-> "RUNNING", of |-> 0]]
              \/ /\ faults' = faults + 1 /\ activeId' = IF Running THEN tasks[sel].id ELSE 0
                 /\ shown' = SavedShown
                 /\ UNCHANGED <<active, worker, runs, outdated, cancelling>>
<1>1. SaveKeeps
  BY SavingKeeps DEF RunStep, Base
<1>2. row \in 1 .. Len(Rows) /\ ~StepRunning(row) /\ ~cancelling /\ screen = "open"
  BY DEF RunStep, StepAvailable, Command
<1>3. tasks # <<>> /\ sel \in DOMAIN tasks /\ tasks[sel].id \in TaskId /\ Rows = tasks[sel].rows
  <2>1. tasks # <<>>
    BY <1>2 DEF Rows
  <2>2. QED BY <2>1, RowsType DEF Base
<1>4. SavedTasks[sel] \in Task /\ row \in 1 .. Len(SavedTasks[sel].rows)
  <2>1. tasks \in Seq(Task)
    BY TypeFacts
  <2>2. QED BY <1>1, <1>2, <1>3, <2>1 DEF SaveKeeps
<1>5. /\ tasks' = SavedTasks /\ inbox' = SavedInbox /\ saveFailed' = SavedFlag
      /\ draft' = SavedDraft /\ acts' = acts + 1
      /\ UNCHANGED <<sel, row, queue, screen, dialogTask, lost>>
  BY DEF RunStep, Command, Kept
<1>6. \/ /\ Begin(SavedTasks, active, SavedTasks[sel], row)
         /\ activeId' = tasks[sel].id /\ cancelling' = FALSE /\ faults' = faults
         /\ shown' = [SavedShown EXCEPT ![row] = [is |-> "RUNNING", of |-> 0]]
      \/ /\ faults' = faults + 1 /\ activeId' = IF Running THEN tasks[sel].id ELSE 0
         /\ shown' = SavedShown
         /\ UNCHANGED <<active, worker, runs, outdated, cancelling>>
  BY DEF RunStep, history
<1>7. QED BY <1>1, <1>2, <1>3, <1>4, <1>5, <1>6, BeginBegins

LEMMA RunStepTypes == ASSUME Base, RunStep PROVE Base'
<1>1. /\ SaveKeeps /\ row \in 1 .. Len(Rows)
      /\ tasks # <<>> /\ sel \in DOMAIN tasks /\ tasks[sel].id \in TaskId
      /\ SavedTasks[sel] \in Task /\ row \in 1 .. Len(SavedTasks[sel].rows)
      /\ tasks' = SavedTasks /\ inbox' = SavedInbox /\ saveFailed' = SavedFlag
      /\ draft' = SavedDraft /\ acts' = acts + 1
      /\ UNCHANGED <<sel, row, queue, screen, dialogTask, lost>>
      /\ \/ /\ BeginsIn(FreeSlot(active), SavedTasks, active, SavedTasks[sel], row)
            /\ activeId' = tasks[sel].id /\ cancelling' = FALSE /\ faults' = faults
            /\ shown' = [SavedShown EXCEPT ![row] = [is |-> "RUNNING", of |-> 0]]
         \/ /\ faults' = faults + 1 /\ activeId' = IF Running THEN tasks[sel].id ELSE 0
            /\ shown' = SavedShown
            /\ UNCHANGED <<active, worker, runs, outdated, cancelling>>
  BY RunStepWays
<1>2. shown' \in [Slot -> [is : Status, of : Step \union {0}]]
  <2> DEFINE S == [is : Status, of : Step \union {0}]
             v == [is |-> "RUNNING", of |-> 0]
  <2>1. v \in S
    BY DEF Status
  <2>2. SavedShown \in [Slot -> S] /\ (shown' = SavedShown \/ shown' = [SavedShown EXCEPT ![row] = v])
    BY <1>1 DEF SaveKeeps
  <2> HIDE DEF S, v
  <2>3. shown' \in [Slot -> S]
    BY <2>1, <2>2
  <2>4. QED BY <2>3 DEF S
<1>3. WindowTyped'
  <2>1. tasks' \in Seq(Task) /\ Len(tasks') <= TaskLimit
    BY <1>1, SavedSelection
  <2>2. inbox' \in Seq(Message)
    BY <1>1, SavedInboxType
  <2>3. draft' \in Step \union {0} /\ saveFailed' \in BOOLEAN
    BY <1>1 DEF SaveKeeps
  <2>4. sel' \in 1 .. TaskLimit /\ row' \in 0 .. RowLimit
    BY <1>1, TypeFacts
  <2>5. QED BY <1>2, <2>1, <2>2, <2>3, <2>4 DEF WindowTyped
<1>4. /\ active' \in [Slot -> RunRecord] /\ worker' \in [Slot -> Thread \union {Gone}]
      /\ runs' \in Nat /\ outdated' \in BOOLEAN
  <2>0. active \in [Slot -> RunRecord] /\ worker \in [Slot -> Thread \union {Gone}] /\ runs \in Nat /\ outdated \in BOOLEAN
    BY TypeFacts
  <2>1. CASE BeginsIn(FreeSlot(active), SavedTasks, active, SavedTasks[sel], row)
    <3>1. StartedRun(row) \in RunRecord /\ StartedThread(SavedTasks[sel], row) \in Thread
      <4>1. row \in 0 .. Len(SavedTasks[sel].rows)
        BY <1>1
      <4>2. QED BY <1>1, <2>0, <4>1, BeginTypes
    <3>2. active' \in [Slot -> RunRecord]
      BY <2>0, <2>1, <3>1 DEF BeginsIn
    <3>3. worker' \in [Slot -> Thread \union {Gone}]
      BY <2>0, <2>1, <3>1 DEF BeginsIn
    <3>4. runs' \in Nat
      BY <2>0, <2>1 DEF BeginsIn
    <3>5. outdated' \in BOOLEAN
      BY <2>0, <2>1 DEF BeginsIn
    <3>6. QED BY <3>2, <3>3, <3>4, <3>5
  <2>2. CASE UNCHANGED <<active, worker, runs, outdated, cancelling>>
    BY <2>0, <2>2
  <2>3. \/ BeginsIn(FreeSlot(active), SavedTasks, active, SavedTasks[sel], row)
        \/ UNCHANGED <<active, worker, runs, outdated, cancelling>>
    BY <1>1
  <2>4. QED BY <2>1, <2>2, <2>3
<1>5. activeId' \in TaskId \union {0} /\ cancelling' \in BOOLEAN /\ faults' \in Nat /\ lost' \in Nat /\ acts' \in Nat
  <2>1. activeId' \in {activeId, tasks[sel].id, 0} /\ cancelling' \in {cancelling, FALSE}
    BY <1>1
  <2>2. faults' \in {faults, faults + 1} /\ lost' = lost /\ acts' = acts + 1
    BY <1>1
  <2>3. activeId' \in TaskId \union {0} /\ cancelling' \in BOOLEAN
    BY <1>1, <2>1, TypeFacts
  <2>4. faults' \in Nat /\ lost' \in Nat /\ acts' \in Nat
    BY <2>2, TypeFacts, SMTT(20)
  <2>5. QED BY <2>3, <2>4
<1>6. TypeOK'
  <2>1. queue' = queue /\ screen' = screen /\ dialogTask' = dialogTask
    BY <1>1
  <2>2. QED BY <1>3, <1>4, <1>5, <2>1, TypeFacts DEF TypeOK, WindowTyped, RunRecord
<1>7. Collection'
  BY <1>1, SavedSelection DEF Base, Collection
<1>8. QED BY <1>6, <1>7 DEF Base

\* Telling runs to stop.
LEMMA SignalTypes ==
    ASSUME Base, NEW S, Signal(S)
    PROVE  active' \in [Slot -> RunRecord] /\ worker' \in [Slot -> Thread \union {Gone}]
<1>1. ASSUME NEW s \in Slot PROVE [active[s] EXCEPT !.cancel = TRUE] \in RunRecord
  <2>1. active[s] \in RunRecord
    BY TypeFacts
  <2>2. QED BY <2>1 DEF RunRecord
<1>2. ASSUME NEW s \in Slot, worker[s] # Gone PROVE [worker[s] EXCEPT !.cancel = TRUE] \in Thread
  <2>1. worker[s] \in Thread
    BY <1>2, TypeFacts
  <2>2. QED BY <2>1 DEF Thread
<1>3. active' \in [Slot -> RunRecord]
  <2>1. active \in [Slot -> RunRecord]
    BY TypeFacts
  <2>2. QED BY <1>1, <2>1 DEF Signal, Marked
<1>4. worker' \in [Slot -> Thread \union {Gone}]
  <2>1. worker \in [Slot -> Thread \union {Gone}]
    BY TypeFacts
  <2>2. QED BY <1>2, <2>1 DEF Signal
<1>5. QED BY <1>3, <1>4

LEMMA StopTypes == ASSUME Base, CancelAll \/ CancelStep \/ Leave \/ Left PROVE Base'
<1>1. CASE CancelAll
  <2>1. /\ queue' = <<>> /\ cancelling' = TRUE /\ Signal(Used(active)) /\ acts' = acts + 1
        /\ UNCHANGED <<tasks, sel, row, draft, activeId, screen, inbox, faults, runs, outdated, saveFailed,
                        dialogTask, lost>>
        /\ shown' = [i \in Slot |-> IF SlotOf(i) # {} THEN [is |-> "CANCELLING", of |-> 0] ELSE shown[i]]
    BY <1>1 DEF CancelAll, Command, Kept, history
  <2>2. shown' \in [Slot -> [is : Status, of : Step \union {0}]]
    BY <2>1, TypeFacts DEF Status
  <2>3. active' \in [Slot -> RunRecord] /\ worker' \in [Slot -> Thread \union {Gone}]
    BY <2>1, SignalTypes
  <2>4. queue' \in Seq(Task) /\ Len(queue') <= TaskLimit /\ acts' \in Nat
    BY <2>1, TypeFacts, SMTT(20)
  <2>5. TypeOK'
    BY <2>1, <2>2, <2>3, <2>4, SMTT(20) DEF Base, TypeOK, RunRecord
  <2>6. Collection'
    BY <2>1 DEF Base, Collection, Rows
  <2>7. QED BY <2>5, <2>6 DEF Base
<1>2. CASE CancelStep
  <2>1. PICK s \in SlotOf(row) : Signal({s})
    BY <1>2 DEF CancelStep
  <2>2. /\ UNCHANGED <<tasks, sel, row, draft, queue, activeId, cancelling, screen, inbox, faults, runs,
                        outdated, saveFailed, dialogTask, lost>>
        /\ acts' = acts + 1
        /\ shown' = [shown EXCEPT ![row] = [is |-> "CANCELLING", of |-> 0]]
    BY <1>2 DEF CancelStep, Command, Kept, history, queueVars
  <2>3. shown' \in [Slot -> [is : Status, of : Step \union {0}]]
    BY <2>2, TypeFacts DEF Status
  <2>4. active' \in [Slot -> RunRecord] /\ worker' \in [Slot -> Thread \union {Gone}]
    BY <2>1, SignalTypes
  <2>5. acts' \in Nat
    BY <2>2, TypeFacts
  <2>6. TypeOK'
    BY <2>2, <2>3, <2>4, <2>5, SMTT(20) DEF Base, TypeOK, RunRecord
  <2>7. Collection'
    BY <2>2 DEF Base, Collection, Rows
  <2>8. QED BY <2>6, <2>7 DEF Base
<1>3. CASE Leave
  <2>1. /\ queue' = <<>> /\ Signal(Used(active)) /\ row' = 0 /\ draft' = 0 /\ screen' = "leaving"
        /\ inbox' = Undelivered(inbox)
        /\ UNCHANGED <<tasks, sel, shown, activeId, cancelling, acts, faults, runs, outdated, saveFailed,
                        dialogTask, lost>>
    BY <1>3 DEF Leave, Kept, history
  <2>2. inbox' \in Seq(Message)
    BY <2>1, FewerUndelivered, TypeFacts
  <2>3. active' \in [Slot -> RunRecord] /\ worker' \in [Slot -> Thread \union {Gone}]
    BY <2>1, SignalTypes
  <2>4. queue' \in Seq(Task) /\ Len(queue') <= TaskLimit /\ row' \in 0 .. RowLimit
    BY <2>1, TypeFacts
  <2>5. TypeOK'
    BY <2>1, <2>2, <2>3, <2>4 DEF Base, TypeOK, RunRecord
  <2>6. row' <= Len(Rows')
    BY <2>1, RowsType DEF Base, Rows
  <2>7. Collection'
    BY <2>1, <2>6 DEF Base, Collection
  <2>8. QED BY <2>5, <2>7 DEF Base
<1>4. CASE Left
  <2>1. /\ active' = [s \in Slot |-> Free] /\ activeId' = 0 /\ cancelling' = FALSE /\ inbox' = <<>>
        /\ screen' = "left"
        /\ UNCHANGED <<tasks, sel, row, draft, shown, queue, worker, acts, faults, runs, outdated, saveFailed,
                        dialogTask, lost>>
    BY <1>4 DEF Left, Kept, history, uiVars
  <2>2. active' \in [Slot -> RunRecord] /\ inbox' \in Seq(Message)
    BY <2>1, BatchAssumption DEF Free, RunRecord
  <2>3. TypeOK'
    BY <2>1, <2>2 DEF Base, TypeOK, RunRecord
  <2>4. Collection'
    BY <2>1 DEF Base, Collection, Rows
  <2>5. QED BY <2>3, <2>4 DEF Base
<1>5. QED BY <1>1, <1>2, <1>3, <1>4

\* A step of a thread in a folder: worker s goes on with i, and may report it.
Reports(s, i, to, type) ==
    /\ i \in DOMAIN worker[s].at /\ to \in Done \union {"RUNNING"} /\ type \in Done \union {"STARTED"}
    /\ worker' = [worker EXCEPT ![s].at[i] = to]
    /\ inbox' \in {inbox, Append(inbox, Event(s, type, i))}
Exits(s) ==
    /\ worker[s] # Gone /\ worker' = [worker EXCEPT ![s] = Gone]
    /\ inbox' \in {inbox, Append(inbox, Event(s, "FINISHED", 0))}

LEMMA ThreadWays ==
    ASSUME Base, NEW s \in Slot, Threads(s)
    PROVE  /\ UNCHANGED <<tasks, sel, row, draft, shown, active, queue, activeId, cancelling, screen,
                           dialogTask, acts, runs, outdated, saveFailed>>
           /\ faults' \in Nat /\ lost' \in Nat
           /\ (\E i \in DOMAIN worker[s].at, to \in Done \union {"RUNNING"}, type \in Done \union {"STARTED"} :
                  Reports(s, i, to, type))
              \/ Exits(s)
<1>1. faults \in Nat /\ lost \in Nat
  BY TypeFacts
<1>2. ASSUME NEW e, Post(e) PROVE inbox' \in {inbox, Append(inbox, e)} /\ lost' \in Nat
  BY <1>1, <1>2 DEF Post
<1>3. ASSUME NEW i \in DOMAIN worker[s].at, NEW to \in Done \union {"RUNNING"},
             NEW type \in Done \union {"STARTED"}, Reach(s, i, to, type)
      PROVE  Reports(s, i, to, type) /\ lost' \in Nat
  <2>1. Post(Event(s, type, i)) /\ worker' = [worker EXCEPT ![s].at[i] = to]
    BY <1>3 DEF Reach
  <2>2. QED BY <1>2, <2>1 DEF Reports
<1>4. {"SKIPPED", "FAILED", "SUCCEEDED", "CANCELLED"} \subseteq Done
  BY DEF Done
<1>5. CASE Finish(s)
  <2>1. Post(Event(s, "FINISHED", 0)) /\ worker[s] # Gone /\ worker' = [worker EXCEPT ![s] = Gone]
        /\ faults' = faults /\ UNCHANGED workerOnly
    BY <1>5 DEF Finish
  <2>2. Exits(s) /\ lost' \in Nat
    BY <1>2, <2>1 DEF Exits
  <2>3. QED BY <1>1, <2>1, <2>2 DEF workerOnly, uiVars, queueVars, history
<1>6. ASSUME NEW i \in DOMAIN worker[s].at,
             StepStarts(s, i) \/ StepThreadFails(s, i) \/ StepEnds(s, i) \/ StepKilled(s, i)
      PROVE  /\ UNCHANGED workerOnly /\ faults' \in {faults, faults + 1} /\ lost' \in Nat
             /\ \E to \in Done \union {"RUNNING"}, type \in Done \union {"STARTED"} : Reports(s, i, to, type)
  <2>1. UNCHANGED workerOnly /\ faults' \in {faults, faults + 1}
    BY <1>6 DEF StepStarts, StepThreadFails, StepEnds, StepKilled
  <2>2. \E to \in Done \union {"RUNNING"}, type \in Done \union {"STARTED"} : Reach(s, i, to, type)
    BY <1>4, <1>6 DEF StepStarts, StepThreadFails, StepEnds, StepKilled
  <2>3. QED BY <1>3, <2>1, <2>2
<1>7. QED BY <1>1, <1>5, <1>6 DEF Threads, workerOnly, uiVars, queueVars, history

LEMMA ThreadTypes == ASSUME Base, NEW s \in Slot, Threads(s) PROVE Base'
<1>1. /\ UNCHANGED <<tasks, sel, row, draft, shown, active, queue, activeId, cancelling, screen,
                      dialogTask, acts, runs, outdated, saveFailed>>
      /\ faults' \in Nat /\ lost' \in Nat
      /\ (\E i \in DOMAIN worker[s].at, to \in Done \union {"RUNNING"}, type \in Done \union {"STARTED"} :
             Reports(s, i, to, type))
         \/ Exits(s)
  BY ThreadWays
<1>2. inbox \in Seq(Message) /\ worker \in [Slot -> Thread \union {Gone}] /\ s \in 0 .. RowLimit /\ RowLimit \in Nat
  BY TypeFacts DEF Slot
<1>3. inbox' \in Seq(Message) /\ worker' \in [Slot -> Thread \union {Gone}]
  <2>1. ASSUME NEW i \in DOMAIN worker[s].at, NEW to \in Done \union {"RUNNING"},
               NEW type \in Done \union {"STARTED"}, Reports(s, i, to, type)
        PROVE  inbox' \in Seq(Message) /\ worker' \in [Slot -> Thread \union {Gone}]
    <3>1. worker[s] \in Thread
      <4>1. worker[s] # Gone
        BY <2>1 DEF Gone
      <4>2. QED BY <1>2, <4>1
    <3>2. /\ i \in 1 .. Len(worker[s].rows) /\ i \in 0 .. RowLimit /\ i # 0
          /\ worker[s].rows[i] \in Step /\ worker[s].run \in Nat
      BY <1>2, <3>1 DEF Thread
    <3>3. Event(s, type, i) \in Message
      BY <1>2, <3>2 DEF Event, Message
    <3>4. [worker[s] EXCEPT !.at[i] = to] \in Thread
      <4> DEFINE at == [worker[s].at EXCEPT ![i] = to]
                 L == Done \union {"WAITING", "RUNNING"}
      <4>1. worker[s].at \in Seq(L) /\ to \in L /\ Len(worker[s].at) = Len(worker[s].rows)
        BY <3>1 DEF Thread
      <4> HIDE DEF L
      <4>2. at \in Seq(L) /\ Len(at) = Len(worker[s].at)
        BY <4>1
      <4> HIDE DEF at
      <4>3. [worker[s] EXCEPT !.at = at] \in Thread
        BY <3>1, <4>1, <4>2 DEF Thread, L
      <4>4. QED BY <4>3 DEF at
    <3>5. worker' = [worker EXCEPT ![s] = [worker[s] EXCEPT !.at[i] = to]]
      BY <1>2, <2>1 DEF Reports
    <3>6. worker' \in [Slot -> Thread \union {Gone}]
      BY <1>2, <3>4, <3>5
    <3>7. Append(inbox, Event(s, type, i)) \in Seq(Message)
      BY <1>2, <3>3
    <3>8. QED BY <1>2, <2>1, <3>6, <3>7 DEF Reports
  <2>2. CASE Exits(s)
    <3>1. worker[s].run \in Nat
      BY <1>2, <2>2 DEF Exits, Thread
    <3>2. Event(s, "FINISHED", 0) \in Message
      BY <1>2, <3>1 DEF Event, Message
    <3>3. Append(inbox, Event(s, "FINISHED", 0)) \in Seq(Message)
      BY <1>2, <3>2
    <3>4. worker' \in [Slot -> Thread \union {Gone}]
      BY <1>2, <2>2 DEF Exits
    <3>5. QED BY <1>2, <2>2, <3>3, <3>4 DEF Exits
  <2>3. QED BY <1>1, <2>1, <2>2
<1>4. TypeOK'
  BY <1>1, <1>3 DEF Base, TypeOK
<1>5. Collection'
  BY <1>1 DEF Base, Collection, Rows
<1>6. QED BY <1>4, <1>5 DEF Base

LEMMA StutterTypes == ASSUME Base, UNCHANGED vars PROVE Base'
<1>1. TypeOK'
  BY DEF Base, TypeOK, vars, uiVars, queueVars, history
<1>2. Collection'
  BY DEF Base, Collection, Rows, vars, uiVars
<1>3. QED BY <1>1, <1>2 DEF Base

LEMMA BaseInit == Init => Base
<1> SUFFICES ASSUME Init PROVE Base
  OBVIOUS
<1>1. Blank \in [Slot -> [is : Status, of : Step \union {0}]]
  BY DEF Blank, Waiting, Status
<1>2. Free \in RunRecord
  BY BatchAssumption DEF Free, RunRecord
<1>3. /\ active \in [Slot -> RunRecord] /\ worker \in [Slot -> Thread \union {Gone}]
      /\ shown \in [Slot -> [is : Status, of : Step \union {0}]]
  BY <1>1, <1>2 DEF Init
<1>4. tasks \in Seq(Task) /\ Len(tasks) <= TaskLimit /\ queue = <<>> /\ inbox = <<>>
      /\ sel = 1 /\ row = 0 /\ draft = 0 /\ activeId = 0 /\ dialogTask = 0
      /\ TaskLimit \in Nat \ {0} /\ RowLimit \in Nat \ {0} /\ Distinct(tasks)
  BY BatchAssumption DEF Init
<1>5. /\ queue \in Seq(Task) /\ Len(queue) <= TaskLimit /\ inbox \in Seq(Message)
      /\ sel \in 1 .. TaskLimit /\ row \in 0 .. RowLimit
  <2>1. sel \in 1 .. TaskLimit /\ row \in 0 .. RowLimit
    BY <1>4
  <2>2. queue \in Seq(Task) /\ inbox \in Seq(Message)
    BY <1>4
  <2>3. Len(queue) <= TaskLimit
    BY <1>4
  <2>4. QED BY <2>1, <2>2, <2>3
<1>6. TypeOK
  <2>1. /\ draft \in Step \union {0} /\ activeId \in TaskId \union {0} /\ dialogTask \in TaskId \union {0}
    BY <1>4
  <2>2. /\ cancelling = FALSE /\ saveFailed = FALSE /\ outdated = FALSE /\ screen = "open"
        /\ acts = 0 /\ faults = 0 /\ lost = 0 /\ runs = 0
    BY DEF Init
  <2>3. /\ cancelling \in BOOLEAN /\ saveFailed \in BOOLEAN /\ outdated \in BOOLEAN
        /\ screen \in {"open", "closed", "picker", "confirm", "leaving", "left"}
    BY <2>2
  <2>6. {acts, faults, lost, runs} \subseteq Nat
    BY <2>2
  <2>4. tasks \in Seq(Task) /\ Len(tasks) <= TaskLimit
    BY <1>4
  <2>5. QED BY <1>3, <1>5, <2>1, <2>3, <2>4, <2>6 DEF TypeOK, RunRecord
<1>7. tasks = <<>> \/ sel \in DOMAIN tasks
  BY <1>4
<1>8. Len(Rows) \in Nat
  <2>1. tasks # <<>> => tasks[sel] \in Task
    BY <1>4, <1>7
  <2>2. QED BY <2>1 DEF Rows, Task
<1>9. QED BY <1>4, <1>6, <1>7, <1>8 DEF Base, Collection

LEMMA BaseNext == Base /\ [Next]_vars => Base'
<1> SUFFICES ASSUME Base, [Next]_vars PROVE Base'
  OBVIOUS
<1>1. ASSUME User PROVE Base'
  BY <1>1, EditTypes, ListTypes, RowTypes, LaunchTypes, CloseTypes, RunStepTypes, StopTypes DEF User
<1>2. QED BY <1>1, StopTypes, EventTypes, ThreadTypes, StutterTypes DEF Next

LEMMA BaseAlways == Spec => []Base
  BY BaseInit, BaseNext, PTL DEF Spec

\* Every variable keeps the shape its declaration in batch_tasks.c gives it,
\* whatever the user does, whatever fails and however messages and commands
\* interleave.
THEOREM BatchTypeCorrect == Spec => []TypeOK
<1>1. Base => TypeOK
  BY DEF Base
<1>2. QED BY <1>1, BaseAlways, PTL

-----------------------------------------------------------------------------
(* Runs, the rows they run, and the messages about them *)

\* A whole run is alone, the active identifier is that of the running threads.
Slots ==
    /\ \A s \in Used(active) : active[s].whole => Used(active) = {s}
    /\ activeId # 0 <=> Running
    /\ \A s \in Slot : worker[s] # Gone => s \in Used(active) /\ worker[s].id = activeId

\* The run of a row, which no edit takes from it.
HoldsRow(s) ==
    /\ tasks # <<>> /\ activeId = tasks[sel].id /\ active[s].row \in 1 .. Len(Rows)
    /\ worker[s] # Gone => worker[s].rows = <<Rows[active[s].row]>>
    /\ \A u \in Used(active) : active[u].row = active[s].row => u = s
Singles == \A s \in Used(active) : ~active[s].whole => HoldsRow(s)

\* The run of a task, for as long as it is the task it was started for.
HoldsAll(s) ==
    /\ tasks # <<>> /\ activeId = tasks[sel].id
    /\ worker[s] # Gone => worker[s].rows = Rows
Wholes == ~outdated => \A s \in Used(active) : active[s].whole => HoldsAll(s)

\* A report of slot s fits the row the slot runs now; a thread that has
\* reported its end is gone.
Fits(e) ==
    /\ e.slot \in Used(active)
    /\ e.type = "FINISHED" => worker[e.slot] = Gone
    /\ e.type # "FINISHED" =>
          IF active[e.slot].whole
          THEN ~outdated => e.index \in 1 .. Len(Rows) /\ e.step = Rows[e.index]
          ELSE e.step = Rows[active[e.slot].row]
Fitting == \A k \in DOMAIN inbox : inbox[k].type # "RESUME" => Fits(inbox[k])

\* Nothing of a slot follows the report of its end.
EndsLast ==
    \A j, k \in DOMAIN inbox :
        j < k /\ inbox[j].type = "FINISHED" /\ inbox[k].type # "RESUME" => inbox[k].slot # inbox[j].slot

\* A confirmation is not open beside runs of rows, nor the queue after the end.
Windows ==
    /\ screen = "confirm" => \A s \in Used(active) : active[s].whole
    /\ screen \in {"leaving", "left"} => queue = <<>>

Runs == Slots /\ Singles /\ Wholes
Messages == Fitting /\ EndsLast
Inv == Base /\ Runs /\ Messages /\ Windows

\* What a step may do to the runs.  It carries them on, some of them ended;
CarriesRun(s) ==
    /\ s \in Used(active) /\ active'[s].whole = active[s].whole
    /\ \A u \in Used(active') : active'[u].row = active'[s].row => active[u].row = active[s].row
    /\ active[s].whole =>
          (~outdated' => tasks' # <<>> /\ tasks'[sel'].id = tasks[sel].id /\ Rows' = Rows)
    /\ ~active[s].whole =>
          /\ tasks' # <<>> /\ tasks'[sel'].id = tasks[sel].id
          /\ active'[s].row \in 1 .. Len(Rows') /\ Rows'[active'[s].row] = Rows[active[s].row]
Carries ==
    /\ outdated => outdated'
    /\ \A s \in Used(active') : CarriesRun(s)
    /\ activeId' = IF Used(active') = {} THEN 0 ELSE activeId
    /\ \A s \in Slot : worker'[s] # Gone =>
          /\ s \in Used(active') /\ worker[s] # Gone
          /\ worker'[s].rows = worker[s].rows /\ worker'[s].id = worker[s].id

\* or it leaves none;
Quiet == \A k \in DOMAIN inbox' : inbox'[k].type = "RESUME"
Rests == Used(active') = {} /\ activeId' = 0 /\ (\A s \in Slot : worker'[s] = Gone) /\ Quiet

\* or it leaves one that it has started, of the task t;
StartsTask(t, s) ==
    /\ Used(active') = {s} /\ active'[s] = StartedRun(0) /\ activeId' = t.id
    /\ worker'[s] = StartedThread(t, 0)
    /\ \A u \in Slot : u # s => worker'[u] = Gone
    /\ ~outdated' => tasks' # <<>> /\ tasks'[sel'].id = t.id /\ Rows' = t.rows
    /\ Quiet
StartsWhole == \E t \in Task, s \in Slot : StartsTask(t, s)

\* or it adds one, of the row selected.
StartsSingle ==
    \E s \in Slot :
        /\ active[s] = Free /\ ~WholeRunning /\ row \in 1 .. Len(Rows) /\ SlotOf(row) = {}
        /\ active' = [active EXCEPT ![s] = StartedRun(row)]
        /\ worker' = [worker EXCEPT ![s] = StartedThread(tasks'[sel'], row)]
        /\ tasks' # <<>> /\ tasks'[sel'] \in Task /\ tasks'[sel'].id = tasks[sel].id
        /\ activeId' = tasks[sel].id /\ Len(Rows') = Len(Rows)
        /\ \A u \in Used(active) : Rows'[active[u].row] = Rows[active[u].row]
        /\ outdated => outdated'
        /\ Fewer(inbox', inbox)

\* Carried runs keep their rows.
LEMMA CarriedRuns == ASSUME Inv, Base', Carries PROVE Runs'
<1>1. /\ \A s \in Used(active) : active[s].whole => Used(active) = {s}
      /\ activeId # 0 <=> Used(active) # {}
      /\ \A s \in Slot : worker[s] # Gone => s \in Used(active) /\ worker[s].id = activeId
  BY DEF Inv, Runs, Slots, Running
<1>2. \A s \in Used(active') : CarriesRun(s)
  BY DEF Carries
<1>3. Used(active') \subseteq Used(active)
  BY <1>2 DEF CarriesRun
<1>4. Slots'
  <2>1. \A s \in Used(active') : active'[s].whole => Used(active') = {s}
    BY <1>1, <1>2, <1>3 DEF CarriesRun
  <2>2. activeId' # 0 <=> Running'
    BY <1>1, <1>3 DEF Carries, Running
  <2>3. ASSUME NEW s \in Slot, worker'[s] # Gone
        PROVE  s \in Used(active') /\ worker'[s].id = activeId'
    BY <1>1, <2>3 DEF Carries
  <2>4. QED BY <2>1, <2>2, <2>3 DEF Slots
<1>5. Singles'
  <2>1. SUFFICES ASSUME NEW s \in Used(active'), ~active'[s].whole PROVE HoldsRow(s)'
    BY DEF Singles
  <2>2. CarriesRun(s) /\ s \in Used(active) /\ ~active[s].whole /\ s \in Slot
    BY <1>2, <2>1 DEF CarriesRun, Used
  <2>3. HoldsRow(s)
    BY <2>2 DEF Inv, Runs, Singles
  <2>4. tasks' # <<>> /\ activeId' = tasks'[sel'].id /\ active'[s].row \in 1 .. Len(Rows')
    BY <2>1, <2>2, <2>3 DEF CarriesRun, Carries, HoldsRow
  <2>5. worker'[s] # Gone => worker'[s].rows = <<Rows'[active'[s].row]>>
    BY <2>2, <2>3 DEF CarriesRun, Carries, HoldsRow
  <2>6. \A u \in Used(active') : active'[u].row = active'[s].row => u = s
    BY <1>3, <2>2, <2>3 DEF CarriesRun, HoldsRow
  <2>7. QED BY <2>4, <2>5, <2>6 DEF HoldsRow
<1>6. Wholes'
  <2>1. SUFFICES ASSUME ~outdated', NEW s \in Used(active'), active'[s].whole PROVE HoldsAll(s)'
    BY DEF Wholes
  <2>2. CarriesRun(s) /\ s \in Used(active) /\ active[s].whole /\ s \in Slot /\ ~outdated
    BY <1>2, <2>1 DEF CarriesRun, Used, Carries
  <2>3. HoldsAll(s)
    BY <2>2 DEF Inv, Runs, Wholes
  <2>4. tasks' # <<>> /\ activeId' = tasks'[sel'].id
    BY <2>1, <2>2, <2>3 DEF CarriesRun, Carries, HoldsAll
  <2>5. worker'[s] # Gone => worker'[s].rows = Rows'
    BY <2>1, <2>2, <2>3 DEF CarriesRun, Carries, HoldsAll
  <2>6. QED BY <2>4, <2>5 DEF HoldsAll
<1>7. QED BY <1>4, <1>5, <1>6 DEF Runs

\* A report that fits still does.
LEMMA CarriedFits ==
    ASSUME Inv, Carries, NEW e, Fits(e), e.slot \in Used(active')
    PROVE  Fits(e)'
<1>1. CarriesRun(e.slot) /\ e.slot \in Slot
  BY DEF Carries, Used
<1>2. e.type = "FINISHED" => worker'[e.slot] = Gone
  BY <1>1 DEF Carries, Fits
<1>3. ASSUME e.type # "FINISHED"
      PROVE  IF active'[e.slot].whole
             THEN ~outdated' => e.index \in 1 .. Len(Rows') /\ e.step = Rows'[e.index]
             ELSE e.step = Rows'[active'[e.slot].row]
  <2>1. IF active[e.slot].whole
        THEN ~outdated => e.index \in 1 .. Len(Rows) /\ e.step = Rows[e.index]
        ELSE e.step = Rows[active[e.slot].row]
    BY <1>3 DEF Fits
  <2>2. outdated => outdated'
    BY DEF Carries
  <2>3. QED BY <1>1, <2>1, <2>2 DEF CarriesRun
<1>4. QED BY <1>2, <1>3 DEF Fits

LEMMA FewerEndsLast ==
    ASSUME Inv, Fewer(inbox', inbox) PROVE EndsLast'
<1>1. PICK g \in [DOMAIN inbox' -> Nat] :
        /\ \A k \in DOMAIN inbox' : inbox'[k].type # "RESUME" => g[k] \in DOMAIN inbox /\ inbox'[k] = inbox[g[k]]
        /\ \A j, k \in DOMAIN inbox' :
              j < k /\ inbox'[j].type # "RESUME" /\ inbox'[k].type # "RESUME" => g[j] < g[k]
  BY DEF Fewer
<1>2. EndsLast
  BY DEF Inv, Messages
<1>3. SUFFICES ASSUME NEW j \in DOMAIN inbox', NEW k \in DOMAIN inbox', j < k,
                      inbox'[j].type = "FINISHED", inbox'[k].type # "RESUME"
               PROVE  inbox'[k].slot # inbox'[j].slot
  BY DEF EndsLast
<1>4. /\ g[j] \in DOMAIN inbox /\ inbox'[j] = inbox[g[j]] /\ g[k] \in DOMAIN inbox /\ inbox'[k] = inbox[g[k]]
      /\ g[j] < g[k]
  BY <1>1, <1>3
<1>5. QED BY <1>2, <1>3, <1>4 DEF EndsLast

LEMMA FewerFits ==
    ASSUME Inv, Fewer(inbox', inbox), NEW k \in DOMAIN inbox', inbox'[k].type # "RESUME"
    PROVE  Fits(inbox'[k])
<1>1. \E j \in DOMAIN inbox : inbox'[k] = inbox[j]
  BY DEF Fewer
<1>2. Fitting
  BY DEF Inv, Messages
<1>3. QED BY <1>1, <1>2 DEF Fitting

\* So do those that are left when no run has ended, or only runs that have
\* nothing left to report.
Settled == \A k \in DOMAIN inbox' : inbox'[k].type # "RESUME" => inbox'[k].slot \in Used(active')

LEMMA CarriedMessages ==
    ASSUME Inv, Carries, Fewer(inbox', inbox), Settled PROVE Messages'
<1>1. ASSUME NEW k \in DOMAIN inbox', inbox'[k].type # "RESUME" PROVE Fits(inbox[k])'
  <2>1. PICK e : e = inbox'[k]
    OBVIOUS
  <2>2. Fits(e) /\ e.slot \in Used(active')
    BY <1>1, <2>1, FewerFits DEF Settled, Fits
  <2>3. Fits(e)'
    BY <2>2, CarriedFits
  <2>4. QED BY <2>1, <2>3 DEF Fits
<1>2. Fitting'
  BY <1>1 DEF Fitting
<1>3. QED BY <1>2, FewerEndsLast DEF Messages

LEMMA SameSlotsSettled ==
    ASSUME Inv, Used(active') = Used(active), Fewer(inbox', inbox) PROVE Settled
  BY FewerFits DEF Settled, Fits

LEMMA RestedRuns == ASSUME Rests PROVE Runs' /\ Messages'
<1>1. Slots' /\ Singles' /\ Wholes'
  BY DEF Rests, Slots, Running, Singles, Wholes
<1>2. Fitting' /\ EndsLast'
  BY DEF Rests, Quiet, Fitting, EndsLast
<1>3. QED BY <1>1, <1>2 DEF Runs, Messages

LEMMA StartedWholeRuns == ASSUME StartsWhole PROVE Runs' /\ Messages'
<1>0. PICK t \in Task, s \in Slot : StartsTask(t, s)
  BY DEF StartsWhole
<1>1. /\ Used(active') = {s} /\ active'[s] = StartedRun(0) /\ activeId' = t.id
      /\ worker'[s] = StartedThread(t, 0)
      /\ \A u \in Slot : u # s => worker'[u] = Gone
      /\ ~outdated' => tasks' # <<>> /\ tasks'[sel'].id = t.id /\ Rows' = t.rows
      /\ Quiet
  BY <1>0 DEF StartsTask
<1>2. active'[s].whole /\ worker'[s].id = t.id /\ worker'[s].rows = t.rows
  <2>1. StartedRun(0).whole
    BY DEF StartedRun
  <2>2. StartedThread(t, 0).id = t.id /\ StartedThread(t, 0).rows = t.rows
    BY DEF StartedThread, StartedRows
  <2>3. QED BY <1>1, <2>1, <2>2
<1>3. t.id \in TaskId /\ t.id # 0
  BY BatchAssumption DEF Task, TaskId
<1>4. Slots'
  <2>1. activeId' # 0 <=> Running'
    BY <1>1, <1>3 DEF Running
  <2>2. \A u \in Slot : worker'[u] # Gone => u \in Used(active') /\ worker'[u].id = activeId'
    BY <1>1, <1>2
  <2>3. \A u \in Used(active') : active'[u].whole => Used(active') = {u}
    BY <1>1
  <2>4. QED BY <2>1, <2>2, <2>3 DEF Slots
<1>5. Singles'
  BY <1>1, <1>2 DEF Singles
<1>6. Wholes'
  <2>1. SUFFICES ASSUME ~outdated' PROVE HoldsAll(s)'
    BY <1>1 DEF Wholes
  <2>2. QED BY <1>1, <1>2, <2>1 DEF HoldsAll
<1>7. Fitting' /\ EndsLast'
  BY <1>1 DEF Quiet, Fitting, EndsLast
<1>8. QED BY <1>4, <1>5, <1>6, <1>7 DEF Runs, Messages

LEMMA StartedSingleRuns == ASSUME Inv, StartsSingle PROVE Runs' /\ Messages'
<1>1. PICK s \in Slot :
        /\ active[s] = Free /\ ~WholeRunning /\ row \in 1 .. Len(Rows) /\ SlotOf(row) = {}
        /\ active' = [active EXCEPT ![s] = StartedRun(row)]
        /\ worker' = [worker EXCEPT ![s] = StartedThread(tasks'[sel'], row)]
        /\ tasks' # <<>> /\ tasks'[sel'] \in Task /\ tasks'[sel'].id = tasks[sel].id
        /\ activeId' = tasks[sel].id /\ Len(Rows') = Len(Rows)
        /\ \A u \in Used(active) : Rows'[active[u].row] = Rows[active[u].row]
        /\ outdated => outdated'
        /\ Fewer(inbox', inbox)
  BY DEF StartsSingle
<1>2. /\ active \in [Slot -> RunRecord] /\ worker \in [Slot -> Thread \union {Gone}] /\ row \in Nat /\ row # 0
  BY <1>1, TypeFacts, SMTT(20) DEF Inv
<1>3. /\ active'[s].row = row /\ active'[s].whole = FALSE /\ active'[s] # Free
      /\ \A u \in Slot : u # s => active'[u] = active[u] /\ worker'[u] = worker[u]
      /\ worker'[s].id = tasks[sel].id /\ worker'[s].rows = <<tasks'[sel'].rows[row]>>
  BY <1>1, <1>2 DEF StartedRun, StartedThread, StartedRows, Free
<1>4. Used(active') = Used(active) \union {s} /\ s \notin Used(active)
  BY <1>1, <1>3 DEF Used
<1>5. /\ Slots /\ Singles
      /\ \A u \in Used(active) : ~active[u].whole /\ HoldsRow(u)
  BY <1>1 DEF Inv, Runs, Singles, WholeRunning
<1>6. Used(active) # {} => activeId = tasks[sel].id
  BY <1>5 DEF HoldsRow
<1>7. Rows' = tasks'[sel'].rows
  BY <1>1 DEF Rows
<1>8. Slots'
  <2>1. \A u \in Used(active') : ~active'[u].whole
    BY <1>3, <1>4, <1>5 DEF Used
  <2>2. tasks[sel].id # 0
    BY <1>1, BatchAssumption, SMTT(20) DEF Task, TaskId
  <2>3. activeId' # 0 /\ Running'
    BY <1>1, <1>4, <2>2 DEF Running
  <2>4. \A u \in Slot : worker'[u] # Gone => u \in Used(active') /\ worker'[u].id = activeId'
    BY <1>1, <1>3, <1>4, <1>5, <1>6 DEF Slots
  <2>5. QED BY <2>1, <2>3, <2>4 DEF Slots
<1>9. Singles'
  <2>1. SUFFICES ASSUME NEW u \in Used(active') PROVE HoldsRow(u)'
    BY DEF Singles
  <2>2. activeId' = tasks'[sel'].id /\ tasks' # <<>>
    BY <1>1
  <2>3. \A v \in Used(active) : active[v].row # row
    BY <1>1 DEF SlotOf
  <2>4. CASE u = s
    <3>1. active'[u].row \in 1 .. Len(Rows')
      BY <1>1, <1>3, <2>4
    <3>2. worker'[u].rows = <<Rows'[active'[u].row]>>
      BY <1>3, <1>7, <2>4
    <3>3. \A v \in Used(active') : active'[v].row = active'[u].row => v = u
      BY <1>3, <1>4, <2>3, <2>4 DEF Used
    <3>4. QED BY <2>2, <3>1, <3>2, <3>3 DEF HoldsRow
  <2>5. CASE u # s
    <3>1. u \in Used(active) /\ u \in Slot /\ active'[u] = active[u] /\ worker'[u] = worker[u]
      BY <1>3, <1>4, <2>1, <2>5 DEF Used
    <3>2. HoldsRow(u)
      BY <1>5, <3>1
    <3>3. active'[u].row \in 1 .. Len(Rows') /\ Rows'[active'[u].row] = Rows[active[u].row]
      BY <1>1, <3>1, <3>2 DEF HoldsRow
    <3>4. worker'[u] # Gone => worker'[u].rows = <<Rows'[active'[u].row]>>
      BY <3>1, <3>2, <3>3 DEF HoldsRow
    <3>5. \A v \in Used(active') : active'[v].row = active'[u].row => v = u
      BY <1>3, <1>4, <2>3, <3>1, <3>2 DEF HoldsRow, Used
    <3>6. QED BY <2>2, <3>3, <3>4, <3>5 DEF HoldsRow
  <2>6. QED BY <2>4, <2>5
<1>10. Wholes'
  BY <1>3, <1>4, <1>5 DEF Wholes, Used
<1>11. Fitting'
  <2>1. SUFFICES ASSUME NEW k \in DOMAIN inbox', inbox'[k].type # "RESUME" PROVE Fits(inbox[k])'
    BY DEF Fitting
  <2>2. PICK e : e = inbox'[k]
    OBVIOUS
  <2>3. Fits(e)
    BY <1>1, <2>1, <2>2, FewerFits DEF Fits
  <2>4. e.slot \in Used(active) /\ e.slot \in Slot /\ e.slot # s
    BY <1>4, <2>3 DEF Fits, Used
  <2>5. e.slot \in Used(active') /\ active'[e.slot] = active[e.slot] /\ worker'[e.slot] = worker[e.slot]
        /\ ~active[e.slot].whole /\ Rows'[active[e.slot].row] = Rows[active[e.slot].row]
    BY <1>1, <1>3, <1>4, <1>5, <2>4
  <2>6. Fits(e)'
    BY <2>3, <2>5 DEF Fits
  <2>7. QED BY <2>2, <2>6 DEF Fits
<1>12. EndsLast'
  BY <1>1, FewerEndsLast
<1>13. QED BY <1>8, <1>9, <1>10, <1>11, <1>12 DEF Runs, Messages

\* Slot s may have posted e, and e fits the row the slot runs.
Reported(s, e) ==
    /\ e.slot = s /\ e.type # "RESUME" /\ inbox' \in {inbox, Append(inbox, e)}
    /\ e.type = "FINISHED" => worker'[s] = Gone
    /\ e.type # "FINISHED" =>
          IF active[s].whole
          THEN ~outdated => e.index \in 1 .. Len(Rows) /\ e.step = Rows[e.index]
          ELSE e.step = Rows[active[s].row]

\* A thread goes on, or ends.
LEMMA ThreadRuns ==
    ASSUME Inv, Base', NEW s \in Slot, Threads(s)
    PROVE  Runs' /\ Messages' /\ active' = active /\ (\A k \in DOMAIN inbox : k \in DOMAIN inbox' /\ inbox'[k] = inbox[k])
<1>1. /\ UNCHANGED <<tasks, sel, row, draft, shown, active, queue, activeId, cancelling, screen,
                      dialogTask, acts, runs, outdated, saveFailed>>
      /\ (\E i \in DOMAIN worker[s].at, to \in Done \union {"RUNNING"}, type \in Done \union {"STARTED"} :
             Reports(s, i, to, type))
         \/ Exits(s)
  BY ThreadWays DEF Inv
<1>2. inbox \in Seq(Message) /\ worker \in [Slot -> Thread \union {Gone}]
  BY TypeFacts DEF Inv
<1>3. Rows' = Rows
  BY <1>1 DEF Rows
<1>4. /\ Slots /\ Singles /\ Wholes /\ Fitting /\ EndsLast
  BY DEF Inv, Runs, Messages
\* The thread and what it may report.
<1>5. worker[s] # Gone
  BY <1>1 DEF Gone, Exits
<1>6. worker[s] \in Thread /\ s \in Used(active)
  BY <1>2, <1>4, <1>5 DEF Slots
<1>7. /\ \A u \in Slot : u # s => worker'[u] = worker[u]
      /\ worker'[s] = Gone \/ (worker'[s].rows = worker[s].rows /\ worker'[s].id = worker[s].id)
  BY <1>1, <1>2, <1>6 DEF Reports, Exits, Thread
<1>8. Carries
  <2>1. \A u \in Used(active') : CarriesRun(u)
    <3>1. SUFFICES ASSUME NEW u \in Used(active) PROVE CarriesRun(u)
      BY <1>1
    <3>2. ~outdated' /\ active[u].whole => tasks # <<>>
      BY <1>1, <1>4 DEF Wholes, HoldsAll
    <3>3. ~active[u].whole => tasks # <<>> /\ active[u].row \in 1 .. Len(Rows)
      BY <1>4 DEF Singles, HoldsRow
    <3>4. QED BY <1>1, <1>3, <3>2, <3>3 DEF CarriesRun
  <2>2. activeId' = IF Used(active') = {} THEN 0 ELSE activeId
    BY <1>1, <1>4 DEF Slots, Running
  <2>3. \A u \in Slot : worker'[u] # Gone =>
          /\ u \in Used(active') /\ worker[u] # Gone
          /\ worker'[u].rows = worker[u].rows /\ worker'[u].id = worker[u].id
    BY <1>1, <1>4, <1>5, <1>6, <1>7 DEF Slots
  <2>4. QED BY <1>1, <2>1, <2>2, <2>3 DEF Carries
\* A report, or the report of its end, fits the row of the slot.
<1>9. \E e : Reported(s, e)
  <2>1. ASSUME NEW i \in DOMAIN worker[s].at, NEW to, NEW type \in Done \union {"STARTED"},
               Reports(s, i, to, type)
        PROVE  \E e : Reported(s, e)
    <3>1. PICK e : e = Event(s, type, i)
      OBVIOUS
    <3>2. e.slot = s /\ e.index = i /\ e.type \notin {"FINISHED", "RESUME"} /\ e.step = worker[s].rows[i]
      <4>1. i # 0
        BY <1>6 DEF Thread
      <4>2. type \notin {"FINISHED", "RESUME"}
        BY DEF Done
      <4>3. QED BY <3>1, <4>1, <4>2 DEF Event
    <3>3. i \in 1 .. Len(worker[s].rows)
      BY <1>6 DEF Thread
    <3>4. active[s].whole /\ ~outdated => e.index \in 1 .. Len(Rows) /\ e.step = Rows[e.index]
      BY <1>4, <1>5, <1>6, <3>2, <3>3 DEF Wholes, HoldsAll
    <3>5. ASSUME ~active[s].whole PROVE e.step = Rows[active[s].row]
      <4>1. worker[s].rows = <<Rows[active[s].row]>>
        BY <1>4, <1>5, <1>6, <3>5 DEF Singles, HoldsRow
      <4>2. i = 1
        BY <3>3, <4>1
      <4>3. QED BY <3>2, <4>1, <4>2
    <3>6. inbox' \in {inbox, Append(inbox, e)}
      BY <2>1, <3>1 DEF Reports
    <3>7. QED BY <3>2, <3>4, <3>5, <3>6 DEF Reported
  <2>2. CASE Exits(s)
    <3>1. PICK e : e = Event(s, "FINISHED", 0)
      OBVIOUS
    <3>2. e.slot = s /\ e.type = "FINISHED"
      BY <3>1 DEF Event
    <3>3. worker'[s] = Gone /\ inbox' \in {inbox, Append(inbox, e)}
      BY <1>2, <1>6, <2>2, <3>1 DEF Exits, Used
    <3>4. QED BY <3>2, <3>3 DEF Reported
  <2>3. QED BY <1>1, <2>1, <2>2
<1>10. PICK e : Reported(s, e)
  BY <1>9
<1>11. Fits(e)'
  BY <1>1, <1>3, <1>6, <1>10 DEF Reported, Fits
<1>12. /\ DOMAIN inbox = 1 .. Len(inbox) /\ Len(inbox) \in Nat
       /\ \A k \in DOMAIN inbox : k \in DOMAIN inbox' /\ inbox'[k] = inbox[k]
       /\ \A k \in DOMAIN inbox' : k \in DOMAIN inbox \/ (k = Len(inbox) + 1 /\ inbox'[k] = e)
  BY <1>2, <1>10 DEF Reported
<1>13. Fitting'
  <2>1. SUFFICES ASSUME NEW k \in DOMAIN inbox', inbox'[k].type # "RESUME" PROVE Fits(inbox[k])'
    BY DEF Fitting
  <2>2. CASE k \in DOMAIN inbox
    <3>1. PICK d : d = inbox'[k]
      OBVIOUS
    <3>2. d = inbox[k]
      BY <1>12, <2>2, <3>1
    <3>3. Fits(d)
      BY <1>4, <2>1, <2>2, <3>1, <3>2 DEF Fitting
    <3>4. Fits(d)'
      BY <1>1, <1>8, <3>3, CarriedFits DEF Fits
    <3>5. QED BY <3>1, <3>4 DEF Fits
  <2>3. CASE inbox'[k] = e
    BY <1>11, <2>3 DEF Fits
  <2>4. QED BY <1>12, <2>2, <2>3
<1>14. EndsLast'
  <2>1. SUFFICES ASSUME NEW j \in DOMAIN inbox', NEW k \in DOMAIN inbox', j < k,
                        inbox'[j].type = "FINISHED", inbox'[k].type # "RESUME"
                 PROVE  inbox'[k].slot # inbox'[j].slot
    BY DEF EndsLast
  <2>2. j \in DOMAIN inbox /\ inbox'[j] = inbox[j]
    BY <1>12, <2>1
  <2>3. CASE k \in DOMAIN inbox
    BY <1>4, <1>12, <2>1, <2>2, <2>3 DEF EndsLast
  <2>4. CASE inbox'[k] = e
    <3>1. inbox[j].type # "RESUME"
      BY <2>1, <2>2
    <3>2. worker[inbox[j].slot] = Gone
      BY <1>4, <2>1, <2>2, <3>1 DEF Fitting, Fits
    <3>3. QED BY <1>5, <1>10, <2>2, <2>4, <3>2 DEF Reported
  <2>5. QED BY <1>12, <2>3, <2>4
<1>15. Runs'
  BY <1>8, CarriedRuns
<1>16. QED BY <1>1, <1>12, <1>13, <1>14, <1>15 DEF Messages

-----------------------------------------------------------------------------
(* What every step keeps *)

\* A row shows nothing, or what a row with the same subtask showed.
ResultsKept ==
    \A k \in 1 .. Len(Rows') :
        \/ shown'[k].of = 0
        \/ \E i \in 1 .. Len(Rows) : shown'[k].of = shown[i].of /\ Rows'[k] = Rows[i]

\* A launch that waits beside no run is resumed, or a save has failed.
Woken == saveFailed \/ \E k \in DOMAIN inbox : inbox[k].type = "RESUME"
Wakes == QueueResumes /\ queue' # <<>> /\ Used(active') = {} => Woken'

Sound ==
    /\ \/ Carries /\ Fewer(inbox', inbox) /\ Settled
       \/ StartsWhole \/ StartsSingle \/ Rests
    /\ outdated => outdated'
    /\ ResultsKept
    /\ Wakes

\* An edit of the collection that keeps what runs.
EditKeepsRows ==
    /\ tasks # <<>> => tasks' # <<>> /\ tasks'[sel'].id = tasks[sel].id
    /\ \A i \in 1 .. Len(Rows) : StepRunning(i) => i \in 1 .. Len(Rows') /\ Rows'[i] = Rows[i]
    /\ WholeRunning => Rows' = Rows

LEMMA EditCarries ==
    ASSUME Inv, UNCHANGED <<active, worker, activeId, outdated>>, Running => EditKeepsRows
    PROVE  Carries /\ Used(active') = Used(active)
<1>1. Slots /\ Singles /\ Wholes
  BY DEF Inv, Runs
<1>2. ASSUME NEW s \in Used(active') PROVE CarriesRun(s)
  <2>1. s \in Used(active) /\ EditKeepsRows
    BY <1>2 DEF Running
  <2>2. CASE active[s].whole
    <3>1. WholeRunning
      BY <2>1, <2>2 DEF WholeRunning
    <3>2. ~outdated => tasks # <<>>
      BY <1>1, <2>1, <2>2 DEF Wholes, HoldsAll
    <3>3. QED BY <2>1, <2>2, <3>1, <3>2 DEF EditKeepsRows, CarriesRun
  <2>3. CASE ~active[s].whole
    <3>1. HoldsRow(s)
      BY <1>1, <2>1, <2>3 DEF Singles
    <3>2. StepRunning(active[s].row)
      BY <2>1 DEF StepRunning, SlotOf
    <3>3. QED BY <2>1, <2>3, <3>1, <3>2 DEF EditKeepsRows, CarriesRun, HoldsRow
  <2>4. QED BY <2>2, <2>3
<1>3. activeId' = IF Used(active') = {} THEN 0 ELSE activeId
  BY <1>1 DEF Slots, Running
<1>4. \A s \in Slot : worker'[s] # Gone =>
          /\ s \in Used(active') /\ worker[s] # Gone
          /\ worker'[s].rows = worker[s].rows /\ worker'[s].id = worker[s].id
  BY <1>1 DEF Slots
<1>5. QED BY <1>2, <1>3, <1>4 DEF Carries

LEMMA SaveKeepsRows ==
    ASSUME Base, SaveKeeps, tasks' = SavedTasks, sel' = sel
    PROVE  EditKeepsRows
<1>1. /\ Len(Rows') = Len(Rows)
      /\ tasks # <<>> => /\ tasks' # <<>> /\ Rows' = SavedTasks[sel].rows
                         /\ tasks'[sel].id = tasks[sel].id
  BY SavedSelection
<1>2. WholeRunning => Rows' = Rows
  BY DEF SaveKeeps, Rows
<1>3. \A i \in 1 .. Len(Rows) : StepRunning(i) => Rows'[i] = Rows[i]
  <2>1. TAKE i \in 1 .. Len(Rows)
  <2>2. tasks # <<>>
    BY <2>1 DEF Rows
  <2>3. QED BY <1>1, <2>2 DEF SaveKeeps
<1>4. QED BY <1>1, <1>2, <1>3 DEF EditKeepsRows

LEMMA SavedResults ==
    ASSUME Base, SaveKeeps, tasks' = SavedTasks, sel' = sel, shown' = SavedShown
    PROVE  ResultsKept
<1>1. SUFFICES ASSUME NEW k \in 1 .. Len(Rows'), shown'[k].of # 0
               PROVE  \E i \in 1 .. Len(Rows) : shown'[k].of = shown[i].of /\ Rows'[k] = Rows[i]
  BY DEF ResultsKept
<1>2. /\ Len(Rows') = Len(Rows)
      /\ tasks = <<>> => tasks' = <<>>
      /\ tasks # <<>> => Rows' = SavedTasks[sel].rows
  BY SavedSelection
<1>3. k \in 1 .. Len(Rows) /\ tasks # <<>>
  BY <1>1, <1>2 DEF Rows
<1>4. IF SavedTasks[sel].rows[k] = Rows[k] THEN SavedShown[k] = shown[k]
      ELSE ~StepRunning(k) /\ SavedShown[k] = Waiting
  BY <1>3 DEF SaveKeeps
<1>5. QED BY <1>1, <1>2, <1>3, <1>4 DEF Waiting

LEMMA SameResults == ASSUME UNCHANGED <<tasks, sel, shown>> PROVE ResultsKept
  BY DEF ResultsKept, Rows

LEMMA RowsTypeNext ==
    ASSUME Base'
    PROVE  /\ Rows' \in Seq(Step) /\ Len(Rows') \in Nat /\ Len(Rows') <= RowLimit
           /\ \A k \in 1 .. Len(Rows') : k \in Slot
<1>1. CASE tasks' = <<>>
  BY <1>1, BatchAssumption DEF Rows, Slot
<1>2. CASE tasks' # <<>>
  <2>1. tasks'[sel'] \in Task
    BY <1>2 DEF Base, TypeOK, Collection
  <2>2. QED BY <1>2, <2>1, BatchAssumption DEF Rows, Task, Slot
<1>3. QED BY <1>1, <1>2

LEMMA BlankResults == ASSUME Base', shown' = Blank PROVE ResultsKept
  BY RowsTypeNext DEF ResultsKept, Blank, Waiting

LEMMA SavedWakes ==
    ASSUME Inv, inbox' = SavedInbox, saveFailed' = SavedFlag, UNCHANGED <<queue, active>>
    PROVE  Wakes
<1>1. SUFFICES ASSUME QueueResumes, queue # <<>>, Used(active) = {} PROVE Woken'
  BY DEF Wakes
<1>2. ~Running
  BY <1>1 DEF Running
<1>3. CASE SaveSkips
  BY <1>1, <1>2, <1>3 DEF QueueResumes, Woken, SavedInbox, SavedFlag
<1>4. CASE ~SaveSkips
  <2>1. inbox' = Append(inbox, Resume) /\ inbox \in Seq(Message)
    BY <1>1, <1>2, <1>4, TypeFacts DEF SavedInbox, Inv
  <2>2. Len(inbox) + 1 \in DOMAIN inbox' /\ inbox'[Len(inbox) + 1].type = "RESUME"
    BY <2>1 DEF Resume
  <2>3. QED BY <2>2 DEF Woken
<1>5. QED BY <1>3, <1>4

LEMMA SameWakes ==
    ASSUME UNCHANGED <<queue, active, inbox>>, saveFailed => saveFailed'
    PROVE  Wakes
  BY DEF Wakes, Woken, QueueResumes, Running

\* A save, or nothing, beside runs left alone.
LEMMA EditSound ==
    ASSUME Inv, UNCHANGED <<active, worker, activeId, outdated, queue>>,
           \/ UNCHANGED <<tasks, sel, shown, inbox>> /\ (saveFailed => saveFailed')
           \/ /\ SaveKeeps /\ tasks' = SavedTasks /\ sel' = sel /\ shown' = SavedShown
              /\ inbox' = SavedInbox /\ saveFailed' = SavedFlag
    PROVE  Sound
<1>1. Base /\ inbox \in Seq(Message)
  BY TypeFacts DEF Inv
<1>2. CASE UNCHANGED <<tasks, sel, shown, inbox>> /\ (saveFailed => saveFailed')
  <2>1. EditKeepsRows
    BY <1>2 DEF EditKeepsRows, Rows
  <2>2. Carries /\ Used(active') = Used(active)
    BY <2>1, EditCarries
  <2>3. Fewer(inbox', inbox)
    BY <1>1, <1>2, FewerSame
  <2>4. Settled
    BY <2>2, <2>3, SameSlotsSettled
  <2>5. ResultsKept /\ Wakes
    BY <1>2, SameResults, SameWakes
  <2>6. QED BY <2>2, <2>3, <2>4, <2>5 DEF Sound
<1>3. CASE /\ SaveKeeps /\ tasks' = SavedTasks /\ sel' = sel /\ shown' = SavedShown
           /\ inbox' = SavedInbox /\ saveFailed' = SavedFlag
  <2>1. EditKeepsRows
    BY <1>1, <1>3, SaveKeepsRows
  <2>2. Carries /\ Used(active') = Used(active)
    BY <2>1, EditCarries
  <2>3. Fewer(inbox', inbox)
    BY <1>1, <1>3, SavedInboxType
  <2>4. Settled
    BY <2>2, <2>3, SameSlotsSettled
  <2>5. ResultsKept /\ Wakes
    BY <1>1, <1>3, SavedResults, SavedWakes
  <2>6. QED BY <2>2, <2>3, <2>4, <2>5 DEF Sound
<1>4. QED BY <1>2, <1>3

LEMMA EditSteps ==
    ASSUME Inv, SaveRefused \/ Save \/ (\E d \in Step \union {0} : Type(d))
                \/ (\E i \in Slot : SelectRow(i)) \/ AskFolder \/ AskDelete \/ Open
    PROVE  Sound /\ Windows'
<1>1. Saves => SaveKeeps
  BY SavingKeeps DEF Inv, Base
<1>2. CASE SaveRefused
  <2>1. /\ UNCHANGED <<active, worker, activeId, outdated, queue, tasks, sel, shown, inbox>>
        /\ saveFailed' /\ screen' = "open"
    BY <1>2 DEF SaveRefused, Command, uiVars, queueVars, history
  <2>2. QED BY <2>1, EditSound DEF Windows
<1>3. CASE Save
  <2>1. /\ UNCHANGED <<active, worker, activeId, outdated, queue>> /\ screen' = "open" /\ SaveKeeps
        /\ tasks' = SavedTasks /\ sel' = sel /\ shown' = SavedShown
        /\ inbox' = SavedInbox /\ saveFailed' = SavedFlag
    BY <1>1, <1>3 DEF Save, Command, queueVars, history
  <2>2. QED BY <2>1, EditSound DEF Windows
<1>4. ASSUME NEW d \in Step \union {0}, Type(d) PROVE Sound /\ Windows'
  <2>1. /\ UNCHANGED <<active, worker, activeId, outdated, queue, tasks, sel, shown, inbox, saveFailed>>
        /\ screen' = "open"
    BY <1>4 DEF Type, Command, queueVars, history
  <2>2. QED BY <2>1, EditSound DEF Windows
<1>5. ASSUME NEW i \in Slot, SelectRow(i) PROVE Sound /\ Windows'
  <2>1. UNCHANGED <<active, worker, activeId, outdated, queue, sel>> /\ screen' = "open"
    BY <1>5 DEF SelectRow, Command, queueVars, history
  <2>2. CASE row = 0
    <3>1. UNCHANGED <<tasks, shown, inbox, saveFailed>>
      BY <1>5, <2>2 DEF SelectRow
    <3>2. QED BY <2>1, <3>1, EditSound DEF Windows
  <2>3. CASE row # 0
    <3>1. /\ SaveKeeps /\ tasks' = SavedTasks /\ shown' = SavedShown
          /\ inbox' = SavedInbox /\ saveFailed' = SavedFlag
      BY <1>1, <1>5, <2>3 DEF SelectRow
    <3>2. QED BY <2>1, <3>1, EditSound DEF Windows
  <2>4. QED BY <2>2, <2>3
<1>6. CASE AskFolder
  <2>1. /\ UNCHANGED <<active, worker, activeId, outdated, queue>> /\ screen' = "picker" /\ SaveKeeps
        /\ tasks' = SavedTasks /\ sel' = sel /\ shown' = SavedShown
        /\ inbox' = SavedInbox /\ saveFailed' = SavedFlag
    BY <1>1, <1>6 DEF AskFolder, queueVars, history
  <2>2. QED BY <2>1, EditSound DEF Windows
<1>7. CASE AskDelete
  <2>1. /\ UNCHANGED <<active, worker, activeId, outdated, queue, tasks, sel, shown, inbox, saveFailed>>
        /\ screen' = "confirm" /\ Used(active) = {}
    BY <1>7 DEF AskDelete, Running, uiVars, queueVars, history
  <2>2. QED BY <2>1, EditSound DEF Windows
<1>8. CASE Open
  <2>1. /\ UNCHANGED <<active, worker, activeId, outdated, queue, tasks, sel, shown, inbox, saveFailed>>
        /\ screen' = "open"
    BY <1>8 DEF Open, queueVars, history
  <2>2. QED BY <2>1, EditSound DEF Windows
<1>9. QED BY <1>2, <1>3, <1>4, <1>5, <1>6, <1>7, <1>8

\* Edits that are made only while nothing runs.
LEMMA IdleSound ==
    ASSUME Inv, ~Running, UNCHANGED <<active, worker, activeId, outdated, queue>>, SaveKeeps,
           inbox' = SavedInbox, saveFailed' = SavedFlag, ResultsKept
    PROVE  Sound
<1>1. Base
  BY DEF Inv
<1>2. Carries /\ Used(active') = Used(active)
  BY EditCarries
<1>3. Fewer(inbox', inbox)
  BY <1>1, SavedInboxType
<1>4. Settled
  BY <1>2, <1>3, SameSlotsSettled
<1>5. Wakes
  BY SavedWakes
<1>6. QED BY <1>2, <1>3, <1>4, <1>5 DEF Sound

LEMMA ListSteps ==
    ASSUME Inv, Base', (\E t \in 1 .. TaskLimit : SelectTask(t)) \/ NewTask
                \/ (\E sure \in BOOLEAN : DeleteTask(sure))
    PROVE  Sound /\ Windows'
<1>1. Saves => SaveKeeps
  BY SavingKeeps DEF Inv, Base
<1>2. CASE (\E t \in 1 .. TaskLimit : SelectTask(t)) \/ NewTask
  <2>1. /\ ~Running /\ SaveKeeps /\ inbox' = SavedInbox /\ saveFailed' = SavedFlag /\ shown' = Blank
        /\ UNCHANGED <<active, worker, activeId, outdated, queue>> /\ screen' = "open"
    BY <1>1, <1>2 DEF SelectTask, NewTask, Command, queueVars, history
  <2>2. ResultsKept
    BY <2>1, BlankResults
  <2>3. QED BY <2>1, <2>2, IdleSound DEF Windows
<1>3. ASSUME NEW sure \in BOOLEAN, DeleteTask(sure) PROVE Sound /\ Windows'
  <2>1. /\ UNCHANGED <<active, worker, activeId, queue, inbox, saveFailed>>
        /\ screen = "confirm" /\ screen' = "open"
    BY <1>3 DEF DeleteTask, queueVars
  <2>2. CASE sure /\ tasks # <<>>
    <3>1. shown' = Blank /\ outdated' = (outdated \/ Running)
      BY <1>3, <2>2 DEF DeleteTask
    <3>2. /\ Slots
          /\ \A s \in Used(active) : active[s].whole
      BY <2>1 DEF Inv, Runs, Windows
    <3>3. \A s \in Used(active') : CarriesRun(s)
      BY <2>1, <3>1, <3>2 DEF CarriesRun, Running
    <3>4. Carries
      BY <2>1, <3>1, <3>2, <3>3 DEF Carries, Slots, Running
    <3>5. Fewer(inbox', inbox) /\ Used(active') = Used(active)
      BY <2>1, FewerSame, TypeFacts DEF Inv
    <3>6. Settled
      BY <3>5, SameSlotsSettled
    <3>7. ResultsKept /\ Wakes
      BY <2>1, <3>1, BlankResults, SameWakes
    <3>8. QED BY <2>1, <3>1, <3>4, <3>5, <3>6, <3>7 DEF Sound, Windows
  <2>3. CASE ~(sure /\ tasks # <<>>)
    <3>1. UNCHANGED <<tasks, sel, shown, outdated>>
      BY <1>3, <2>3 DEF DeleteTask, uiVars
    <3>2. QED BY <2>1, <3>1, EditSound DEF Windows
  <2>4. QED BY <2>2, <2>3
<1>4. QED BY <1>2, <1>3

LEMMA SavedElement ==
    ASSUME SaveKeeps, NEW o \in 1 .. Len(Rows)
    PROVE  SavedShown[o].of = 0
           \/ (SavedShown[o].of = shown[o].of /\ SavedTasks[sel].rows[o] = Rows[o])
<1>1. IF SavedTasks[sel].rows[o] = Rows[o] THEN SavedShown[o] = shown[o]
      ELSE ~StepRunning(o) /\ SavedShown[o] = Waiting
  BY DEF SaveKeeps
<1>2. QED BY <1>1 DEF Waiting

\* The rows that a save leaves.
LEMMA SavedRows ==
    ASSUME Base, SaveKeeps, tasks # <<>>
    PROVE  /\ SavedTasks \in Seq(Task) /\ sel \in DOMAIN SavedTasks
           /\ SavedTasks[sel].rows \in Seq(Step) /\ SavedTasks[sel].id = tasks[sel].id
           /\ Len(SavedTasks[sel].rows) = Len(Rows)
           /\ \A i \in 1 .. Len(Rows) : StepRunning(i) => SavedTasks[sel].rows[i] = Rows[i]
<1>1. sel \in DOMAIN tasks /\ Rows = tasks[sel].rows
  BY RowsType DEF Base
<1>2. tasks \in Seq(Task)
  BY TypeFacts
<1>3. SavedTasks \in Seq(Task) /\ sel \in DOMAIN SavedTasks /\ SavedTasks[sel] \in Task
  BY <1>1, <1>2 DEF SaveKeeps
<1>4. QED BY <1>1, <1>3 DEF SaveKeeps, Task

\* The collection with other rows in the selected task.
LEMMA OtherRows ==
    ASSUME NEW T \in Seq(Task), sel \in DOMAIN T, NEW r,
           tasks' = [T EXCEPT ![sel].rows = r], sel' = sel
    PROVE  tasks' # <<>> /\ Rows' = r /\ tasks'[sel'].id = T[sel].id
<1>1. T[sel] \in Task
  OBVIOUS
<1>2. tasks' = [T EXCEPT ![sel] = [T[sel] EXCEPT !.rows = r]]
  OBVIOUS
<1>3. tasks'[sel] = [T[sel] EXCEPT !.rows = r]
  BY <1>2
<1>4. tasks'[sel].rows = r /\ tasks'[sel].id = T[sel].id
  BY <1>1, <1>3 DEF Task
<1>5. tasks' # <<>>
  <2>1. DOMAIN tasks' = DOMAIN T
    BY <1>2
  <2>2. QED BY <2>1
<1>6. QED BY <1>4, <1>5 DEF Rows

LEMMA MoveSteps ==
    ASSUME Inv, Base', NEW i \in Slot, NEW j \in Slot, MoveRow(i, j)
    PROVE  Sound /\ Windows'
<1>1. SaveKeeps
  BY SavingKeeps DEF Inv, Base, MoveRow
<1>2. /\ ~Running /\ inbox' = SavedInbox /\ saveFailed' = SavedFlag
      /\ i \in 1 .. Len(Rows) /\ j \in 1 .. Len(Rows) /\ tasks # <<>> /\ sel' = sel
      /\ tasks' = [SavedTasks EXCEPT ![sel].rows = Moved(@, i, j)]
      /\ UNCHANGED <<active, worker, activeId, outdated, queue>> /\ screen' = "open"
      /\ shown' = [k \in Slot |-> IF k <= Len(Rows) THEN Moved(SubSeq(SavedShown, 1, Len(Rows)), i, j)[k]
                                  ELSE SavedShown[k]]
  BY DEF MoveRow, Command, queueVars, history, Rows
<1>3. Base /\ Len(Rows) \in Nat /\ Len(Rows) <= RowLimit /\ RowLimit \in Nat
  BY RowsType, BatchAssumption DEF Inv, Base
<1> DEFINE q == SavedTasks[sel].rows
           p == SubSeq(SavedShown, 1, Len(Rows))
           S == [is : Status, of : Step \union {0}]
<1>4. q \in Seq(Step) /\ Len(q) = Len(Rows) /\ SavedTasks \in Seq(Task) /\ sel \in DOMAIN SavedTasks
  BY <1>1, <1>2, <1>3, SavedRows
<1>5. Rows' = Moved(q, i, j)
  <2>1. tasks' = [SavedTasks EXCEPT ![sel].rows = Moved(q, i, j)]
    BY <1>2
  <2> HIDE DEF q
  <2>2. QED BY <1>2, <1>4, <2>1, OtherRows
<1>6. p \in Seq(S) /\ Len(p) = Len(Rows) /\ \A k \in 1 .. Len(Rows) : p[k] = SavedShown[k]
  <2>1. SavedShown \in [1 .. RowLimit -> S]
    BY <1>1 DEF SaveKeeps, Slot
  <2> HIDE DEF S
  <2>2. SavedShown \in Seq(S) /\ Len(SavedShown) = RowLimit
    BY <1>3, <2>1
  <2>3. QED BY <1>3, <2>2
<1> HIDE DEF q, p, S
<1>7. /\ Len(Moved(q, i, j)) = Len(Rows)
      /\ \A k \in 1 .. Len(Rows) : /\ Origin(k, i, j) \in 1 .. Len(Rows)
                                   /\ Moved(q, i, j)[k] = q[Origin(k, i, j)]
  <2>1. i \in 1 .. Len(q) /\ j \in 1 .. Len(q)
    BY <1>2, <1>4
  <2>2. /\ Len(Moved(q, i, j)) = Len(q)
        /\ \A k \in 1 .. Len(q) : /\ Origin(k, i, j) \in 1 .. Len(q)
                                  /\ Moved(q, i, j)[k] = q[Origin(k, i, j)]
    <3>1. q \in Seq(Step)
      BY <1>4
    <3>2. Len(Moved(q, i, j)) = Len(q)
      BY <2>1, <3>1, MovedSeq
    <3>3. ASSUME NEW k \in 1 .. Len(q)
          PROVE  Origin(k, i, j) \in 1 .. Len(q) /\ Moved(q, i, j)[k] = q[Origin(k, i, j)]
      BY <2>1, <3>1, MovedSeq
    <3>4. QED BY <3>2, <3>3
  <2>3. QED BY <1>4, <2>2
<1>8. \A k \in 1 .. Len(Rows) : Moved(p, i, j)[k] = p[Origin(k, i, j)]
  <2>1. i \in 1 .. Len(p) /\ j \in 1 .. Len(p)
    BY <1>2, <1>6
  <2>2. \A k \in 1 .. Len(p) : Moved(p, i, j)[k] = p[Origin(k, i, j)]
    <3>1. p \in Seq(S)
      BY <1>6
    <3>2. \A u \in Seq(S) : \A a, b, k \in 1 .. Len(u) : Moved(u, a, b)[k] = u[Origin(k, a, b)]
      BY MovedSeq
    <3>3. QED BY <2>1, <3>1, <3>2
  <2>3. QED BY <1>6, <2>2
<1>9. ResultsKept
  <2>1. SUFFICES ASSUME NEW k \in 1 .. Len(Rows')
                 PROVE  \/ shown'[k].of = 0
                        \/ \E o \in 1 .. Len(Rows) : shown'[k].of = shown[o].of /\ Rows'[k] = Rows[o]
    BY DEF ResultsKept
  <2>2. k \in 1 .. Len(Rows) /\ k \in Slot /\ k <= Len(Rows)
    BY <1>3, <1>5, <1>7 DEF Slot
  <2> DEFINE o == Origin(k, i, j)
  <2>3. o \in 1 .. Len(Rows) /\ Rows'[k] = q[o] /\ p[o] = SavedShown[o]
    BY <1>5, <1>6, <1>7, <2>2
  <2>4. shown'[k] = SavedShown[o]
    <3>1. shown'[k] = Moved(p, i, j)[k]
      BY <1>2, <2>2 DEF p
    <3>2. QED BY <1>8, <2>2, <2>3, <3>1
  <2> HIDE DEF o
  <2>5. SavedShown[o].of = 0 \/ (SavedShown[o].of = shown[o].of /\ q[o] = Rows[o])
    BY <1>1, <2>3, SavedElement DEF q
  <2>6. QED BY <2>3, <2>4, <2>5
<1>10. QED BY <1>1, <1>2, <1>9, IdleSound DEF Windows

LEMMA RemoveSteps ==
    ASSUME Inv, Base', RemoveRow
    PROVE  Sound /\ Windows'
<1>1. SaveKeeps
  BY SavingKeeps DEF Inv, Base, RemoveRow
<1>2. /\ row \in 1 .. Len(Rows) /\ ~StepRunning(row) /\ tasks # <<>> /\ sel' = sel
      /\ tasks' = [SavedTasks EXCEPT ![sel].rows = Remove(@, row)]
      /\ active' = [s \in Slot |-> RowShifted(s)]
      /\ shown' = [i \in Slot |->
                   IF i < row THEN SavedShown[i]
                   ELSE IF i < Len(Rows) THEN SavedShown[i + 1]
                   ELSE IF i = Len(Rows) THEN Waiting ELSE SavedShown[i]]
      /\ UNCHANGED <<worker, activeId, outdated, queue>> /\ screen' = "open"
      /\ inbox' = SavedInbox /\ saveFailed' = SavedFlag
  BY DEF RemoveRow, StepAvailable, Command, queueVars, history, Rows
<1>3. Base /\ Len(Rows) \in Nat /\ Len(Rows) <= RowLimit /\ RowLimit \in Nat /\ row \in Nat
  BY RowsType, TypeFacts DEF Inv, Base
<1> DEFINE q == SavedTasks[sel].rows
<1>4. /\ q \in Seq(Step) /\ Len(q) = Len(Rows) /\ SavedTasks \in Seq(Task) /\ sel \in DOMAIN SavedTasks
      /\ \A i \in 1 .. Len(Rows) : StepRunning(i) => q[i] = Rows[i]
      /\ SavedTasks[sel].id = tasks[sel].id
  BY <1>1, <1>2, <1>3, SavedRows
<1>5. Rows' = Remove(q, row) /\ tasks' # <<>> /\ tasks'[sel'].id = tasks[sel].id
  <2>1. tasks' = [SavedTasks EXCEPT ![sel].rows = Remove(q, row)]
    BY <1>2
  <2> HIDE DEF q
  <2>2. QED BY <1>2, <1>4, <2>1, OtherRows
<1>6. /\ Len(Rows') = Len(Rows) - 1
      /\ \A k \in 1 .. Len(Rows) - 1 : Rows'[k] = IF k < row THEN q[k] ELSE q[k + 1]
  <2> HIDE DEF q
  <2>1. QED BY <1>2, <1>4, <1>5, RemoveSeq
<1>7. ResultsKept
  <2>1. SUFFICES ASSUME NEW k \in 1 .. Len(Rows')
                 PROVE  \/ shown'[k].of = 0
                        \/ \E o \in 1 .. Len(Rows) : shown'[k].of = shown[o].of /\ Rows'[k] = Rows[o]
    BY DEF ResultsKept
  <2>2. k \in 1 .. Len(Rows) - 1 /\ k \in Slot /\ k < Len(Rows)
    BY <1>3, <1>6 DEF Slot
  <2> DEFINE o == IF k < row THEN k ELSE k + 1
  <2>3. o \in 1 .. Len(Rows) /\ Rows'[k] = q[o] /\ shown'[k] = SavedShown[o]
    <3>1. Rows'[k] = q[o]
      BY <1>6, <2>2
    <3>2. shown'[k] = SavedShown[o]
      BY <1>2, <2>2
    <3>3. QED BY <1>3, <2>2, <3>1, <3>2
  <2>4. SavedShown[o].of = 0 \/ (SavedShown[o].of = shown[o].of /\ q[o] = Rows[o])
    <3> HIDE DEF o
    <3>1. QED BY <1>1, <2>3, SavedElement
  <2>5. QED BY <2>3, <2>4
<1>8. /\ Slots /\ Singles /\ active \in [Slot -> RunRecord]
      /\ \A s \in Used(active) : ~active[s].whole /\ HoldsRow(s) /\ active[s].row # row
  BY <1>2, <1>3, TypeFacts DEF Inv, Runs, Singles, StepRunning, WholeRunning, SlotOf
\* Where a run goes.
<1>9. ASSUME NEW s \in Slot
      PROVE  /\ active'[s].whole = active[s].whole
             /\ active'[s].row = IF active[s].row > row THEN active[s].row - 1 ELSE active[s].row
             /\ active[s] = Free <=> active'[s] = Free
             /\ active[s].row \in Nat
  <2>1. active'[s] = RowShifted(s) /\ active[s] \in RunRecord
    BY <1>2, <1>8
  <2>2. active[s].row \in Nat
    BY <2>1, <1>3 DEF RunRecord
  <2>3. CASE active[s].row > row
    <3>1. active'[s] = [active[s] EXCEPT !.row = active[s].row - 1]
      BY <2>1, <2>3 DEF RowShifted
    <3>2. active'[s].row = active[s].row - 1 /\ active'[s].whole = active[s].whole
      BY <2>1, <3>1 DEF RunRecord
    <3>3. active[s].row # 0 /\ active[s].row - 1 # 0
      BY <1>2, <1>3, <2>2, <2>3
    <3>4. QED BY <2>2, <2>3, <3>2, <3>3 DEF Free
  <2>4. CASE ~(active[s].row > row)
    BY <2>1, <2>2, <2>4 DEF RowShifted
  <2>5. QED BY <2>3, <2>4
<1>10. Used(active') = Used(active)
  BY <1>9 DEF Used
<1>11. ASSUME NEW s \in Used(active') PROVE CarriesRun(s)
  <2>1. s \in Used(active) /\ s \in Slot /\ HoldsRow(s) /\ ~active[s].whole /\ active[s].row # row
    BY <1>8, <1>10, <1>11 DEF Used
  <2>2. active[s].row \in 1 .. Len(Rows)
    BY <2>1 DEF HoldsRow
  <2>3. StepRunning(active[s].row)
    BY <2>1 DEF StepRunning, SlotOf
  <2>4. active'[s].row \in 1 .. Len(Rows')
    BY <1>2, <1>3, <1>6, <1>9, <2>1, <2>2, SMTT(20)
  <2>5. Rows'[active'[s].row] = q[active[s].row]
    <3>1. CASE active[s].row > row
      <4>1. /\ active'[s].row = active[s].row - 1 /\ ~(active'[s].row < row)
            /\ active'[s].row \in 1 .. Len(Rows) - 1
        BY <1>2, <1>3, <1>9, <2>1, <2>2, <3>1
      <4>2. Rows'[active'[s].row] = q[active'[s].row + 1]
        BY <1>6, <4>1
      <4>3. active'[s].row + 1 = active[s].row
        BY <4>1, <2>2
      <4>4. QED BY <4>2, <4>3
    <3>2. CASE ~(active[s].row > row)
      <4>1. /\ active'[s].row = active[s].row /\ active'[s].row < row
            /\ active'[s].row \in 1 .. Len(Rows) - 1
        BY <1>2, <1>3, <1>9, <2>1, <2>2, <3>2
      <4>2. QED BY <1>6, <4>1
    <3>3. QED BY <3>1, <3>2
  <2>6. Rows'[active'[s].row] = Rows[active[s].row]
    BY <1>4, <2>2, <2>3, <2>5
  <2>7. \A u \in Used(active') : active'[u].row = active'[s].row => active[u].row = active[s].row
    <3>1. TAKE u \in Used(active')
    <3>2. u \in Slot /\ active[u].row # row
      BY <1>8, <1>10 DEF Used
    <3>3. QED BY <1>3, <1>9, <2>1, <3>2, SMTT(20)
  <2>8. QED BY <1>5, <1>9, <2>1, <2>4, <2>6, <2>7 DEF CarriesRun
<1>12. Carries
  BY <1>2, <1>8, <1>10, <1>11 DEF Carries, Slots, Running
<1>13. Fewer(inbox', inbox)
  BY <1>1, <1>2, <1>3, SavedInboxType
<1>14. Settled
  BY <1>10, <1>13, SameSlotsSettled
<1>15. Wakes
  <2>1. SUFFICES ASSUME QueueResumes, queue # <<>>, Used(active) = {} PROVE Woken'
    BY <1>2, <1>10 DEF Wakes
  <2>2. ~Running /\ ~SaveSkips
    BY <1>2, <2>1 DEF Running, SaveSkips, WholeRunning
  <2>3. inbox' = Append(inbox, Resume) /\ inbox \in Seq(Message)
    BY <1>2, <1>3, <2>1, <2>2, TypeFacts DEF SavedInbox
  <2>4. Len(inbox) + 1 \in DOMAIN inbox' /\ inbox'[Len(inbox) + 1].type = "RESUME"
    BY <2>3 DEF Resume
  <2>5. QED BY <2>4 DEF Woken
<1>16. QED BY <1>2, <1>7, <1>12, <1>13, <1>14, <1>15 DEF Sound, Windows

LEMMA AddSteps ==
    ASSUME Inv, NEW d \in Step \union {0}, AddRow(d)
    PROVE  Sound /\ Windows'
<1>1. /\ UNCHANGED <<sel, active, queue, activeId, inbox, worker, outdated, saveFailed>> /\ screen' = "open"
  BY DEF AddRow, queueVars, history
<1>2. Base /\ Rows \in Seq(Step) /\ Len(Rows) \in Nat
  BY RowsType DEF Inv, Base
<1>3. CASE SameTask /\ d \in Step /\ (\A i \in DOMAIN Rows : Rows[i] # d) /\ Len(Rows) < RowLimit
  <2>1. /\ shown' = [shown EXCEPT ![Len(Rows) + 1] = Waiting]
        /\ tasks' = [tasks EXCEPT ![sel].rows = Append(@, d)] \/ tasks' = tasks
    BY <1>3 DEF AddRow
  <2>2. tasks # <<>> /\ sel \in DOMAIN tasks /\ Rows = tasks[sel].rows /\ ~WholeRunning
    BY <1>2, <1>3, RowsType DEF SameTask, Base
  <2>3. tasks \in Seq(Task) /\ shown \in [Slot -> [is : Status, of : Step \union {0}]]
        /\ Len(Rows) + 1 \in Slot
    BY <1>2, <1>3, TypeFacts, SMTT(20) DEF Slot
  <2>4. /\ Len(Rows') \in {Len(Rows), Len(Rows) + 1}
        /\ \A i \in 1 .. Len(Rows) : Rows'[i] = Rows[i]
        /\ tasks' # <<>> /\ tasks'[sel'].id = tasks[sel].id
    <3>1. CASE tasks' = tasks
      BY <1>1, <2>2, <3>1 DEF Rows
    <3>2. CASE tasks' = [tasks EXCEPT ![sel].rows = Append(@, d)]
      <4>1. tasks' = [tasks EXCEPT ![sel].rows = Append(Rows, d)]
        BY <2>2, <3>2
      <4>2. tasks' # <<>> /\ Rows' = Append(Rows, d) /\ tasks'[sel'].id = tasks[sel].id
        BY <1>1, <2>2, <2>3, <4>1, OtherRows
      <4>3. QED BY <1>2, <1>3, <4>2
    <3>3. QED BY <2>1, <3>1, <3>2
  <2>5. ResultsKept
    <3>1. SUFFICES ASSUME NEW k \in 1 .. Len(Rows')
                   PROVE  \/ shown'[k].of = 0
                          \/ \E o \in 1 .. Len(Rows) : shown'[k].of = shown[o].of /\ Rows'[k] = Rows[o]
      BY DEF ResultsKept
    <3>2. CASE k = Len(Rows) + 1
      BY <2>1, <2>3, <3>2 DEF Waiting
    <3>3. CASE k \in 1 .. Len(Rows)
      <4>1. shown'[k] = shown[k]
        BY <1>2, <2>1, <2>3, <3>3
      <4>2. QED BY <2>4, <3>3, <4>1
    <3>4. QED BY <1>2, <2>4, <3>2, <3>3
  <2>6. EditKeepsRows
    BY <1>2, <2>2, <2>4 DEF EditKeepsRows
  <2>7. Carries /\ Used(active') = Used(active)
    BY <1>1, <2>6, EditCarries
  <2>8. Fewer(inbox', inbox)
    BY <1>1, <1>2, FewerSame, TypeFacts
  <2>9. Settled
    BY <2>7, <2>8, SameSlotsSettled
  <2>10. Wakes
    BY <1>1, SameWakes
  <2>11. QED BY <1>1, <2>5, <2>7, <2>8, <2>9, <2>10 DEF Sound, Windows
<1>4. CASE ~ (SameTask /\ d \in Step /\ (\A i \in DOMAIN Rows : Rows[i] # d) /\ Len(Rows) < RowLimit)
  <2>1. UNCHANGED <<tasks, sel, shown>>
    BY <1>4 DEF AddRow, uiVars
  <2>2. QED BY <1>1, <2>1, EditSound DEF Windows
<1>5. QED BY <1>3, <1>4

\* Runs that are told to stop are carried on.
LEMMA SignalCarries ==
    ASSUME Inv, NEW S \in SUBSET Used(active), Signal(S), UNCHANGED <<tasks, sel, activeId, outdated>>
    PROVE  Carries /\ Used(active') = Used(active)
<1>1. /\ active \in [Slot -> RunRecord] /\ worker \in [Slot -> Thread \union {Gone}]
      /\ Slots /\ Singles /\ Wholes
  BY TypeFacts DEF Inv, Runs
<1>2. ASSUME NEW s \in Slot
      PROVE  /\ active'[s].whole = active[s].whole /\ active'[s].row = active[s].row
             /\ active[s] = Free <=> active'[s] = Free
  <2>1. active[s] \in RunRecord
    BY <1>1
  <2>2. CASE s \in S
    <3>1. active'[s] = [active[s] EXCEPT !.cancel = TRUE] /\ active[s] # Free
      BY <2>2 DEF Signal, Marked, Used
    <3>2. active'[s].cancel /\ active'[s].row = active[s].row /\ active'[s].whole = active[s].whole
      BY <2>1, <3>1 DEF RunRecord
    <3>3. active'[s] # Free
      BY <3>2 DEF Free
    <3>4. QED BY <3>1, <3>2, <3>3
  <2>3. CASE s \notin S
    BY <2>3 DEF Signal, Marked
  <2>4. QED BY <2>2, <2>3
<1>3. Used(active') = Used(active)
  BY <1>2 DEF Used
<1>4. ASSUME NEW s \in Slot, worker'[s] # Gone
      PROVE  worker[s] # Gone /\ worker'[s].rows = worker[s].rows /\ worker'[s].id = worker[s].id
  <2>1. worker'[s] = IF s \in S /\ worker[s] # Gone THEN [worker[s] EXCEPT !.cancel = TRUE] ELSE worker[s]
    BY DEF Signal
  <2>2. worker[s] # Gone /\ worker[s] \in Thread
    BY <1>1, <1>4, <2>1
  <2>3. QED BY <2>1, <2>2 DEF Thread
<1>5. ASSUME NEW s \in Used(active') PROVE CarriesRun(s)
  <2>1. s \in Used(active) /\ s \in Slot
    BY <1>3, <1>5 DEF Used
  <2>2. active[s].whole /\ ~outdated => tasks # <<>>
    BY <1>1, <2>1 DEF Wholes, HoldsAll
  <2>3. ~active[s].whole => tasks # <<>> /\ active[s].row \in 1 .. Len(Rows)
    BY <1>1, <2>1 DEF Singles, HoldsRow
  <2>4. Rows' = Rows
    BY DEF Rows
  <2>5. \A u \in Used(active') : u \in Slot
    BY DEF Used
  <2>6. QED BY <1>2, <2>1, <2>2, <2>3, <2>4, <2>5 DEF CarriesRun
<1>6. \A s \in Slot : worker'[s] # Gone => s \in Used(active')
  BY <1>1, <1>3, <1>4 DEF Slots
<1>7. activeId' = IF Used(active') = {} THEN 0 ELSE activeId
  BY <1>1, <1>3 DEF Slots, Running
<1>8. QED BY <1>3, <1>4, <1>5, <1>6, <1>7 DEF Carries

LEMMA CancelSteps ==
    ASSUME Inv, Base', CancelAll \/ CancelStep \/ Leave
    PROVE  Sound /\ Windows'
<1>1. Base /\ inbox \in Seq(Message) /\ shown \in [Slot -> [is : Status, of : Step \union {0}]]
  BY TypeFacts DEF Inv
<1>2. UNCHANGED <<tasks, sel, activeId, outdated>>
  BY DEF CancelAll, CancelStep, Leave, queueVars, history
<1>3. /\ \A k \in 1 .. Len(Rows') : k \in Slot
      /\ Rows' = Rows
  BY <1>2, RowsTypeNext DEF Rows
<1>4. CASE CancelAll
  <2>1. /\ queue' = <<>> /\ Signal(Used(active)) /\ inbox' = inbox /\ screen' = "open"
        /\ shown' = [i \in Slot |-> IF SlotOf(i) # {} THEN [is |-> "CANCELLING", of |-> 0] ELSE shown[i]]
    BY <1>4 DEF CancelAll, Command
  <2>2. Carries /\ Used(active') = Used(active)
    BY <1>2, <2>1, SignalCarries
  <2>3. Fewer(inbox', inbox)
    BY <1>1, <2>1, FewerSame
  <2>4. ResultsKept
    BY <1>3, <2>1 DEF ResultsKept
  <2>5. Wakes
    BY <2>1 DEF Wakes
  <2>6. QED BY <1>2, <2>1, <2>2, <2>3, <2>4, <2>5, SameSlotsSettled DEF Sound, Windows
<1>5. CASE CancelStep
  <2>1. /\ inbox' = inbox /\ screen' = "open"
        /\ shown' = [shown EXCEPT ![row] = [is |-> "CANCELLING", of |-> 0]]
    BY <1>5 DEF CancelStep, Command
  <2>2. PICK s \in SlotOf(row) : Signal({s})
    BY <1>5 DEF CancelStep
  <2>3. {s} \in SUBSET Used(active)
    BY <2>2 DEF SlotOf
  <2>4. Carries /\ Used(active') = Used(active)
    BY <1>2, <2>2, <2>3, SignalCarries
  <2>5. Fewer(inbox', inbox)
    BY <1>1, <2>1, FewerSame
  <2>6. ResultsKept
    <3>1. \A k \in 1 .. Len(Rows') : shown'[k].of = 0 \/ shown'[k] = shown[k]
      BY <1>1, <1>3, <2>1
    <3>2. QED BY <1>3, <3>1 DEF ResultsKept
  <2>7. Wakes
    BY <2>3, <2>4 DEF Wakes
  <2>8. QED BY <1>2, <2>1, <2>4, <2>5, <2>6, <2>7, SameSlotsSettled DEF Sound, Windows
<1>6. CASE Leave
  <2>1. /\ queue' = <<>> /\ Signal(Used(active)) /\ inbox' = Undelivered(inbox) /\ shown' = shown
        /\ screen' = "leaving"
    BY <1>6 DEF Leave
  <2>2. Carries /\ Used(active') = Used(active)
    BY <1>2, <2>1, SignalCarries
  <2>3. Fewer(inbox', inbox)
    BY <1>1, <2>1, FewerUndelivered
  <2>4. ResultsKept
    BY <1>2, <2>1, SameResults
  <2>5. Wakes
    BY <2>1 DEF Wakes
  <2>6. QED BY <1>2, <2>1, <2>2, <2>3, <2>4, <2>5, SameSlotsSettled DEF Sound, Windows
<1>7. QED BY <1>4, <1>5, <1>6

LEMMA LeftSteps ==
    ASSUME Inv, Left
    PROVE  Sound /\ Windows'
<1>1. /\ screen = "leaving" /\ screen' = "left" /\ inbox' = <<>> /\ activeId' = 0
      /\ active' = [s \in Slot |-> Free]
      /\ \A s \in Used(active) : worker[s] = Gone
      /\ UNCHANGED <<tasks, sel, shown, queue, worker, outdated>>
  BY DEF Left, uiVars, history
<1>2. \A s \in Slot : worker[s] = Gone
  BY <1>1 DEF Inv, Runs, Slots
<1>3. Used(active') = {}
  BY <1>1 DEF Used
<1>4. Rests
  BY <1>1, <1>2, <1>3 DEF Rests, Quiet
<1>5. queue = <<>>
  BY <1>1 DEF Inv, Windows
<1>6. ResultsKept
  BY <1>1, SameResults
<1>7. QED BY <1>1, <1>4, <1>5, <1>6 DEF Sound, Wakes, Windows

\* Rows are as many as slots, and a row that runs has one slot: a row that does
\* not run finds a slot.
LEMMA SlotLeft ==
    ASSUME Inv, ~WholeRunning, row \in 1 .. Len(Rows), SlotOf(row) = {}
    PROVE  \E s \in Slot : active[s] = Free
<1>1. SUFFICES ASSUME \A s \in Slot : active[s] # Free PROVE FALSE
  OBVIOUS
<1>2. Used(active) = Slot
  BY <1>1 DEF Used
<1>3. \A s \in Slot : HoldsRow(s) /\ active[s].row # row
  BY <1>2 DEF Inv, Runs, Singles, WholeRunning, SlotOf
<1>4. RowLimit \in Nat \ {0} /\ Len(Rows) \in Nat /\ Len(Rows) <= RowLimit
  BY RowsType, BatchAssumption DEF Inv, Base
<1>5. IsFiniteSet(Slot) /\ Cardinality(Slot) = RowLimit
  BY <1>4, FS_Interval DEF Slot
<1> DEFINE T == Slot \ {row}
           f == [s \in Slot |-> active[s].row]
<1>6. IsFiniteSet(T) /\ Cardinality(T) < Cardinality(Slot)
  <2>1. row \in Slot
    BY <1>4 DEF Slot
  <2>2. IsFiniteSet(T) /\ Cardinality(T) = Cardinality(Slot) - 1
    BY <1>5, <2>1, FS_RemoveElement
  <2>3. QED BY <1>4, <1>5, <2>2
<1>7. f \in [Slot -> T]
  <2>1. ASSUME NEW s \in Slot PROVE active[s].row \in T
    BY <1>3, <1>4 DEF HoldsRow, Slot
  <2>2. QED BY <2>1
<1>8. \A s \in Slot : f[s] = active[s].row
  OBVIOUS
<1> HIDE DEF f, T
<1>9. \E x, y \in Slot : x # y /\ f[x] = f[y]
  BY <1>5, <1>6, <1>7, FS_PigeonHole
<1>10. QED BY <1>2, <1>3, <1>8, <1>9 DEF HoldsRow

LEMMA RunStepSteps ==
    ASSUME Inv, Base', RunStep
    PROVE  Sound /\ Windows'
<1>1. Base /\ Slots /\ Singles
  BY DEF Inv, Runs
<1>2. /\ SaveKeeps /\ row \in 1 .. Len(Rows) /\ ~StepRunning(row) /\ screen = "open"
      /\ tasks # <<>> /\ sel \in DOMAIN tasks /\ tasks[sel].id \in TaskId
      /\ SavedTasks[sel] \in Task /\ row \in 1 .. Len(SavedTasks[sel].rows)
      /\ tasks' = SavedTasks /\ inbox' = SavedInbox /\ saveFailed' = SavedFlag
      /\ UNCHANGED <<sel, row, queue, screen>>
      /\ \/ /\ BeginsIn(FreeSlot(active), SavedTasks, active, SavedTasks[sel], row)
            /\ activeId' = tasks[sel].id
            /\ shown' = [SavedShown EXCEPT ![row] = [is |-> "RUNNING", of |-> 0]]
         \/ /\ activeId' = IF Running THEN tasks[sel].id ELSE 0
            /\ shown' = SavedShown
            /\ UNCHANGED <<active, worker, runs, outdated, cancelling>>
  BY <1>1, RunStepWays
<1>3. ~WholeRunning /\ SlotOf(row) = {}
  BY <1>2 DEF StepRunning
<1>4. Windows'
  BY <1>2 DEF Windows
<1>5. Running => activeId = tasks[sel].id
  BY <1>1, <1>3 DEF Running, WholeRunning, Singles, HoldsRow
<1>6. CASE /\ activeId' = IF Running THEN tasks[sel].id ELSE 0
           /\ shown' = SavedShown
           /\ UNCHANGED <<active, worker, runs, outdated, cancelling>>
  <2>1. activeId' = activeId
    BY <1>1, <1>5, <1>6 DEF Slots
  <2>2. QED BY <1>2, <1>4, <1>6, <2>1, EditSound
<1>7. CASE /\ BeginsIn(FreeSlot(active), SavedTasks, active, SavedTasks[sel], row)
           /\ activeId' = tasks[sel].id
           /\ shown' = [SavedShown EXCEPT ![row] = [is |-> "RUNNING", of |-> 0]]
  <2>1. PICK s \in Slot : s = FreeSlot(active) /\ active[s] = Free
    BY <1>2, <1>3, SlotLeft, FreeSlotIsFree
  <2>2. /\ active' = [active EXCEPT ![s] = StartedRun(row)]
        /\ worker' = [worker EXCEPT ![s] = StartedThread(tasks'[sel'], row)]
        /\ outdated => outdated'
    BY <1>2, <1>7, <2>1 DEF BeginsIn
  <2>3. /\ tasks' # <<>> /\ tasks'[sel'] \in Task /\ tasks'[sel'].id = tasks[sel].id
        /\ Len(Rows') = Len(Rows)
    BY <1>1, <1>2, SavedSelection
  <2>4. \A u \in Used(active) : Rows'[active[u].row] = Rows[active[u].row]
    <3>1. TAKE u \in Used(active)
    <3>2. active[u].row \in 1 .. Len(Rows) /\ StepRunning(active[u].row)
      BY <1>1, <1>3 DEF Singles, HoldsRow, WholeRunning, StepRunning, SlotOf
    <3>3. EditKeepsRows
      BY <1>1, <1>2, SaveKeepsRows
    <3>4. QED BY <3>2, <3>3 DEF EditKeepsRows
  <2>5. Fewer(inbox', inbox)
    BY <1>1, <1>2, SavedInboxType
  <2>6. StartsSingle
    BY <1>2, <1>3, <1>7, <2>1, <2>2, <2>3, <2>4, <2>5 DEF StartsSingle
  <2>7. ResultsKept
    <3>1. SUFFICES ASSUME NEW k \in 1 .. Len(Rows')
                   PROVE  \/ shown'[k].of = 0
                          \/ \E i \in 1 .. Len(Rows) : shown'[k].of = shown[i].of /\ Rows'[k] = Rows[i]
      BY DEF ResultsKept
    <3>2. k \in 1 .. Len(Rows) /\ k \in Slot /\ Rows' = SavedTasks[sel].rows
      BY <1>1, <1>2, <2>3, SavedSelection, RowsTypeNext
    <3>3. SavedShown \in [Slot -> [is : Status, of : Step \union {0}]]
      BY <1>2 DEF SaveKeeps
    <3>4. shown'[k].of = 0 \/ shown'[k] = SavedShown[k]
      BY <1>7, <3>2, <3>3
    <3>5. QED BY <1>2, <3>2, <3>4, SavedElement
  <2>8. Used(active') # {}
    <3>1. active'[s].row = row /\ row # 0
      BY <1>1, <1>2, <2>2, TypeFacts DEF StartedRun
    <3>2. active'[s] # Free
      BY <3>1 DEF Free
    <3>3. QED BY <3>2 DEF Used
  <2>9. QED BY <1>4, <2>2, <2>6, <2>7, <2>8 DEF Sound, Wakes
<1>8. QED BY <1>2, <1>6, <1>7

\* start_next_task: a task starts, or nothing is left.
LEMMA StartSound ==
    ASSUME Inv, Base', NEW T \in Seq(Task), Distinct(T), NEW A \in [Slot -> RunRecord], Used(A) = {},
           \A s \in Slot : worker[s] = Gone, NEW Q \in Seq(Task), NEW box \in Seq(Message),
           \A k \in DOMAIN box : box[k].type = "RESUME", tasks' = T, NEW win,
           StartNext(T, A, Q, box, win)
    PROVE  Sound /\ (StartsWhole \/ Rests)
<1>1. /\ inbox' \in {box, Append(box, Resume)} /\ shown' = Blank
      /\ Launched(T, A, Q) \/ Exhausted(A)
  BY StartNextEnds
<1>2. Quiet
  <2>1. CASE inbox' = box
    BY <2>1 DEF Quiet
  <2>2. CASE inbox' = Append(box, Resume)
    <3>1. /\ DOMAIN inbox' = 1 .. Len(box) + 1 /\ DOMAIN box = 1 .. Len(box) /\ Len(box) \in Nat
          /\ \A k \in 1 .. Len(box) : inbox'[k] = box[k]
          /\ inbox'[Len(box) + 1] = Resume
      BY <2>2
    <3>2. QED BY <3>1 DEF Quiet, Resume
  <2>3. QED BY <1>1, <2>1, <2>2
<1>3. ResultsKept
  BY <1>1, BlankResults
<1>4. CASE Launched(T, A, Q)
  <2>1. PICK k \in 1 .. Len(Q), s \in Slot :
          /\ activeId' = Q[k].id /\ BeginsIn(s, T, A, Q[k], 0)
          /\ ~outdated' => /\ sel' \in DOMAIN T /\ T[sel'].id = Q[k].id
                           /\ T[sel'].rows = Q[k].rows
    BY <1>4 DEF Launched
  <2>2. /\ active' = [A EXCEPT ![s] = StartedRun(0)]
        /\ worker' = [worker EXCEPT ![s] = StartedThread(Q[k], 0)]
        /\ outdated => outdated'
    BY <2>1 DEF BeginsIn
  <2>3. StartedRun(0) # Free
    <3>1. runs \in Nat /\ StartedRun(0).run = runs + 1
      BY TypeFacts DEF Inv, StartedRun
    <3>2. QED BY <3>1 DEF Free
  <2>4. active'[s] = StartedRun(0) /\ \A u \in Slot : u # s => active'[u] = Free
    BY <2>2 DEF Used
  <2>5. Used(active') = {s}
    BY <2>3, <2>4 DEF Used
  <2>6. worker'[s] = StartedThread(Q[k], 0) /\ \A u \in Slot : u # s => worker'[u] = Gone
    <3>1. worker \in [Slot -> Thread \union {Gone}]
      BY TypeFacts DEF Inv
    <3>2. QED BY <2>2, <3>1
  <2>7. ~outdated' => tasks' # <<>> /\ tasks'[sel'].id = Q[k].id /\ Rows' = Q[k].rows
    BY <2>1 DEF Rows
  <2>8. Q[k] \in Task
    BY <2>1
  <2>9. StartsTask(Q[k], s)
    BY <1>2, <2>1, <2>4, <2>5, <2>6, <2>7 DEF StartsTask
  <2>10. StartsWhole
    BY <2>8, <2>9 DEF StartsWhole
  <2>11. QED BY <1>3, <2>2, <2>5, <2>10 DEF Sound, Wakes
<1>5. CASE Exhausted(A)
  <2>1. queue' = <<>> /\ activeId' = 0 /\ active' = A /\ worker' = worker /\ outdated' = outdated
    BY <1>5 DEF Exhausted, history
  <2>2. Rests
    BY <1>2, <2>1 DEF Rests
  <2>3. QED BY <1>3, <2>1, <2>2 DEF Sound, Wakes
<1>6. QED BY <1>1, <1>4, <1>5

\* Beside no run there are no reports.
LEMMA QuietBox ==
    ASSUME Inv, ~Running, NEW box, Fewer(box, inbox)
    PROVE  (\A k \in DOMAIN box : box[k].type = "RESUME") /\ (\A s \in Slot : worker[s] = Gone)
<1>1. Used(active) = {} /\ Slots /\ Fitting
  BY DEF Running, Inv, Runs, Messages
<1>2. \A j \in DOMAIN inbox : inbox[j].type = "RESUME"
  BY <1>1 DEF Fitting, Fits
<1>3. \A k \in DOMAIN box : box[k].type # "RESUME" => \E j \in DOMAIN inbox : box[k] = inbox[j]
  BY DEF Fewer
<1>4. QED BY <1>1, <1>2, <1>3 DEF Slots

LEMMA StartedWindows ==
    ASSUME StartsWhole \/ Rests, screen' \notin {"leaving", "left"} PROVE Windows'
<1>1. \A s \in Used(active') : active'[s].whole
  <2>1. CASE StartsWhole
    <3>1. PICK t \in Task, s \in Slot : StartsTask(t, s)
      BY <2>1 DEF StartsWhole
    <3>2. StartedRun(0).whole
      BY DEF StartedRun
    <3>3. Used(active') = {s} /\ active'[s] = StartedRun(0)
      BY <3>1 DEF StartsTask
    <3>4. QED BY <3>2, <3>3
  <2>2. CASE Rests
    BY <2>2 DEF Rests
  <2>3. QED BY <2>1, <2>2
<1>2. QED BY <1>1 DEF Windows

LEMMA LaunchSteps ==
    ASSUME Inv, Base', NEW id \in TaskId, Launch(id)
    PROVE  Sound /\ Windows'
<1>1. Base /\ inbox \in Seq(Message) /\ active \in [Slot -> RunRecord]
  BY TypeFacts DEF Inv
<1>2. /\ screen' = (IF screen = "closed" THEN "open" ELSE screen)
      /\ screen' \notin {"leaving", "left"}
      /\ screen # "closed" => SaveKeeps
      /\ tasks' = LaunchTasks
      /\ LaunchTasks \in Seq(Task) /\ Len(LaunchTasks) = Len(tasks)
      /\ Distinct(LaunchTasks)
      /\ LaunchQueue(id) \in Seq(Task)
      /\ LaunchWaits(id) \/ LaunchStarts(id) \/ (~Running /\ SecondSaveFails(LaunchQueue(id)))
  <2>1. screen \notin {"leaving", "left"}
    BY DEF Launch
  <2>2. QED BY <1>1, <2>1, LaunchWays
<1>3. LaunchBox \in Seq(Message) /\ Fewer(LaunchBox, inbox)
  BY <1>1, <1>2, SavedInboxType, FewerSame DEF LaunchBox
<1>4. sel' = sel => EditKeepsRows
  <2>1. CASE screen = "closed"
    BY <1>2, <2>1 DEF LaunchTasks, EditKeepsRows, Rows
  <2>2. CASE screen # "closed"
    BY <1>1, <1>2, <2>2, SaveKeepsRows DEF LaunchTasks
  <2>3. QED BY <2>1, <2>2
<1>5. ASSUME sel' = sel, shown' \in {shown, SavedShown},
             shown' = SavedShown \/ screen = "closed"
      PROVE  ResultsKept
  <2>1. CASE screen # "closed"
    BY <1>1, <1>2, <1>5, <2>1, SavedResults DEF LaunchTasks
  <2>2. CASE screen = "closed"
    <3>1. tasks' = tasks /\ Rows' = Rows
      BY <1>2, <1>5, <2>2 DEF LaunchTasks, Rows
    <3>2. \A k \in 1 .. Len(Rows') : k \in Slot
      BY RowsTypeNext
    <3>3. \A k \in Slot : SavedShown[k] = shown[k] \/ SavedShown[k].of = 0
      BY <1>1, TypeFacts DEF SavedShown, Waiting
    <3>4. \A k \in Slot : shown'[k] = shown[k] \/ shown'[k].of = 0
      BY <1>5, <3>3
    <3>5. QED BY <3>1, <3>2, <3>4 DEF ResultsKept
  <2>3. QED BY <2>1, <2>2
<1>6. ASSUME UNCHANGED <<sel, active, worker, activeId, outdated>>, Fewer(inbox', inbox), ResultsKept, Wakes
      PROVE  Sound /\ Windows'
  <2>1. Carries /\ Used(active') = Used(active)
    BY <1>4, <1>6, EditCarries
  <2>2. Settled
    BY <1>6, <2>1, SameSlotsSettled
  <2>3. Windows'
    BY <1>2, <1>6 DEF Inv, Windows
  <2>4. QED BY <1>6, <2>1, <2>2, <2>3 DEF Sound
<1>7. CASE LaunchWaits(id)
  <2>1. /\ Running /\ UNCHANGED <<sel, active, worker, activeId, outdated, inbox>>
        /\ shown' = IF screen = "closed" THEN shown ELSE SavedShown
    BY <1>7 DEF LaunchWaits, history
  <2>2. Fewer(inbox', inbox)
    BY <1>1, <2>1, FewerSame
  <2>3. ResultsKept
    BY <1>5, <2>1
  <2>4. Wakes
    BY <2>1 DEF Wakes, Running
  <2>5. QED BY <1>6, <2>1, <2>2, <2>3, <2>4
<1>8. CASE ~Running /\ SecondSaveFails(LaunchQueue(id))
  <2>1. /\ UNCHANGED <<sel, active, worker, activeId, outdated>> /\ shown' = SavedShown
        /\ inbox' = LaunchBox /\ saveFailed'
    BY <1>8 DEF SecondSaveFails, history, LaunchBox
  <2>2. ResultsKept
    BY <1>5, <2>1
  <2>3. Wakes
    BY <2>1 DEF Wakes, Woken
  <2>4. QED BY <1>3, <1>6, <2>1, <2>2, <2>3
<1>9. CASE LaunchStarts(id)
  <2>1. ~Running /\ StartNext(LaunchTasks, active, LaunchQueue(id), LaunchBox, "open")
    BY <1>9 DEF LaunchStarts
  <2>2. /\ \A k \in DOMAIN LaunchBox : LaunchBox[k].type = "RESUME"
        /\ \A s \in Slot : worker[s] = Gone
    BY <1>3, <2>1, QuietBox
  <2>3. Used(active) = {}
    BY <2>1 DEF Running
  <2>4. Sound /\ (StartsWhole \/ Rests)
    BY <1>1, <1>2, <1>3, <2>1, <2>2, <2>3, StartSound
  <2>5. QED BY <1>2, <2>4, StartedWindows
<1>10. QED BY <1>2, <1>7, <1>8, <1>9

LEMMA CloseSteps ==
    ASSUME Inv, Base', Close
    PROVE  Sound /\ Windows'
<1>1. Base /\ inbox \in Seq(Message) /\ active \in [Slot -> RunRecord] /\ queue \in Seq(Task)
  BY TypeFacts DEF Inv
<1>2. SaveKeeps /\ tasks' = SavedTasks /\ screen' = "closed"
  BY <1>1, SavingKeeps DEF Close, Base
<1>3. Undelivered(inbox) \in Seq(Message) /\ Fewer(Undelivered(inbox), inbox)
  BY <1>1, FewerUndelivered
<1>4. CASE ~Running /\ queue # <<>>
  <2>1. StartNext(SavedTasks, active, queue, Undelivered(inbox), "closed")
    BY <1>4 DEF Close
  <2>2. /\ \A k \in DOMAIN Undelivered(inbox) : Undelivered(inbox)[k].type = "RESUME"
        /\ \A s \in Slot : worker[s] = Gone
    BY <1>3, <1>4, QuietBox
  <2>3. Used(active) = {} /\ SavedTasks \in Seq(Task) /\ Distinct(SavedTasks)
    BY <1>2, <1>4 DEF Running, SaveKeeps
  <2>4. Sound /\ (StartsWhole \/ Rests)
    BY <1>1, <1>2, <1>3, <2>1, <2>2, <2>3, StartSound
  <2>5. QED BY <1>2, <2>4, StartedWindows
<1>5. CASE ~(~Running /\ queue # <<>>)
  <2>1. /\ shown' = SavedShown /\ inbox' = Undelivered(inbox)
        /\ UNCHANGED <<sel, active, queue, activeId, worker, outdated>>
    BY <1>5 DEF Close, queueVars, history
  <2>2. EditKeepsRows
    BY <1>1, <1>2, <2>1, SaveKeepsRows
  <2>3. Carries /\ Used(active') = Used(active)
    BY <2>1, <2>2, EditCarries
  <2>4. ResultsKept
    BY <1>1, <1>2, <2>1, SavedResults
  <2>5. Wakes
    BY <1>5, <2>1, <2>3 DEF Wakes, Running
  <2>6. QED BY <1>2, <1>3, <2>1, <2>3, <2>4, <2>5, SameSlotsSettled DEF Sound, Windows
<1>6. QED BY <1>4, <1>5

\* The next launch, wanted when nothing runs.
LEMMA TrySteps ==
    ASSUME Inv, Base', NEW A \in [Slot -> RunRecord], Used(A) = {}, \A s \in Slot : worker[s] = Gone,
           inbox # <<>>, \A k \in DOMAIN Tail(inbox) : Tail(inbox)[k].type = "RESUME",
           TryNext(A), screen' \notin {"leaving", "left"}
    PROVE  Sound /\ Windows'
<1>1. Base /\ Tail(inbox) \in Seq(Message) /\ queue \in Seq(Task)
  BY TypeFacts, FewerTail DEF Inv
<1>2. Sound /\ (StartsWhole \/ Rests)
  <2>1. CASE TryFails(A)
    <3>1. Rests
      BY <2>1 DEF TryFails, Rests, Quiet
    <3>2. UNCHANGED <<tasks, sel, shown, outdated>> /\ saveFailed'
      BY <2>1 DEF TryFails, uiVars, history
    <3>3. ResultsKept /\ Wakes
      BY <3>2, SameResults DEF Wakes, Woken
    <3>4. QED BY <3>1, <3>2, <3>3 DEF Sound
  <2>2. ASSUME NEW T \in Seq(Task), NEW win \in {"open", "closed"}, tasks' = T, Distinct(T),
               StartNext(T, A, queue, Tail(inbox), win)
        PROVE  Sound /\ (StartsWhole \/ Rests)
    BY <1>1, <2>2, StartSound
  <2>3. QED BY <1>1, <2>1, <2>2, TryWays
<1>3. QED BY <1>2, StartedWindows

LEMMA FinishedSteps ==
    ASSUME Inv, Base', Finished
    PROVE  Sound /\ Windows'
<1> DEFINE e == Head(inbox)
           A == [active EXCEPT ![e.slot] = Free]
<1>1. /\ inbox # <<>> /\ screen \notin {"leaving", "left"} /\ e.type = "FINISHED" /\ screen' = screen
      /\ IF Used(A) = {} /\ queue # <<>> THEN TryNext(A)
         ELSE /\ active' = A /\ inbox' = Tail(inbox)
              /\ activeId' = (IF Used(A) = {} THEN 0 ELSE activeId)
              /\ UNCHANGED <<uiVars, queue, worker, history>>
  BY DEF Finished, Listening
<1>2. Slots /\ Singles /\ Wholes /\ Fitting /\ EndsLast
  BY DEF Inv, Runs, Messages
<1>3. /\ inbox \in Seq(Message) /\ 1 \in DOMAIN inbox /\ e = inbox[1]
      /\ Tail(inbox) \in Seq(Message) /\ Fewer(Tail(inbox), inbox)
      /\ DOMAIN Tail(inbox) = 1 .. Len(inbox) - 1
      /\ \A k \in DOMAIN Tail(inbox) : k + 1 \in DOMAIN inbox /\ 1 < k + 1 /\ Tail(inbox)[k] = inbox[k + 1]
  <2>1. inbox \in Seq(Message)
    BY TypeFacts DEF Inv
  <2>2. QED BY <1>1, <2>1, FewerTail
<1>4. e.slot \in Used(active) /\ worker[e.slot] = Gone
  BY <1>1, <1>2, <1>3 DEF Fitting, Fits
<1>5. A \in [Slot -> RunRecord] /\ Used(A) = Used(active) \ {e.slot}
      /\ \A s \in Used(A) : A[s] = active[s]
  <2>1. active \in [Slot -> RunRecord] /\ e.slot \in Slot /\ Free \in RunRecord
    BY <1>4, TypeFacts, BatchAssumption, SMTT(20) DEF Inv, Used, Free, RunRecord
  <2>2. A \in [Slot -> RunRecord] /\ A[e.slot] = Free /\ \A s \in Slot : s # e.slot => A[s] = active[s]
    BY <2>1
  <2> HIDE DEF A
  <2>3. QED BY <2>2 DEF Used
<1> HIDE DEF A
<1>6. \A k \in DOMAIN Tail(inbox) : Tail(inbox)[k].type # "RESUME" => Tail(inbox)[k].slot \in Used(A)
  <2>1. SUFFICES ASSUME NEW k \in DOMAIN Tail(inbox), Tail(inbox)[k].type # "RESUME"
                 PROVE  Tail(inbox)[k].slot \in Used(A)
    OBVIOUS
  <2>2. k + 1 \in DOMAIN inbox /\ 1 < k + 1 /\ Tail(inbox)[k] = inbox[k + 1]
    BY <1>3
  <2>3. inbox[k + 1].slot \in Used(active)
    BY <1>2, <2>1, <2>2 DEF Fitting, Fits
  <2>4. inbox[k + 1].slot # e.slot
    BY <1>1, <1>2, <1>3, <2>1, <2>2 DEF EndsLast
  <2>5. QED BY <1>5, <2>2, <2>3, <2>4
<1> HIDE DEF e
<1>7. CASE Used(A) = {}
  <2>1. /\ \A s \in Slot : worker[s] = Gone
        /\ \A k \in DOMAIN Tail(inbox) : Tail(inbox)[k].type = "RESUME"
    BY <1>2, <1>4, <1>5, <1>6, <1>7 DEF Slots
  <2>2. CASE queue # <<>>
    BY <1>1, <1>5, <1>7, <2>1, <2>2, TrySteps
  <2>3. CASE queue = <<>>
    <3>1. /\ active' = A /\ inbox' = Tail(inbox) /\ activeId' = 0
          /\ UNCHANGED <<tasks, sel, shown, queue, worker, outdated>>
      BY <1>1, <1>7, <2>3 DEF uiVars, history
    <3>2. Rests
      BY <1>7, <2>1, <3>1 DEF Rests, Quiet
    <3>3. ResultsKept /\ Wakes
      BY <2>3, <3>1, SameResults DEF Wakes
    <3>4. Windows'
      BY <1>1, <3>2, StartedWindows
    <3>5. QED BY <3>1, <3>2, <3>3, <3>4 DEF Sound
  <2>4. QED BY <2>2, <2>3
<1>8. CASE Used(A) # {}
  <2>1. /\ active' = A /\ inbox' = Tail(inbox) /\ activeId' = activeId
        /\ UNCHANGED <<tasks, sel, shown, queue, worker, outdated>>
    BY <1>1, <1>8 DEF uiVars, history
  <2>2. Rows' = Rows
    BY <2>1 DEF Rows
  <2>3. ASSUME NEW s \in Used(active') PROVE CarriesRun(s)
    <3>1. s \in Used(active) /\ active'[s] = active[s]
      BY <1>5, <2>1, <2>3
    <3>2. \A u \in Used(active') : active'[u].row = active'[s].row => active[u].row = active[s].row
      BY <1>5, <2>1, <3>1
    <3>3. ~outdated /\ active[s].whole => tasks # <<>>
      BY <1>2, <3>1 DEF Wholes, HoldsAll
    <3>4. ~active[s].whole => tasks # <<>> /\ active[s].row \in 1 .. Len(Rows)
      BY <1>2, <3>1 DEF Singles, HoldsRow
    <3>5. QED BY <2>1, <2>2, <3>1, <3>2, <3>3, <3>4 DEF CarriesRun
  <2>4. \A s \in Slot : worker'[s] # Gone => s \in Used(active')
    BY <1>2, <1>4, <1>5, <2>1 DEF Slots
  <2>5. Carries
    BY <1>8, <2>1, <2>3, <2>4 DEF Carries
  <2>6. Settled /\ Fewer(inbox', inbox)
    BY <1>3, <1>6, <2>1 DEF Settled
  <2>7. ResultsKept /\ Wakes
    BY <1>8, <2>1, SameResults DEF Wakes
  <2>8. Windows'
    BY <1>1, <1>5, <2>1 DEF Inv, Windows
  <2>9. QED BY <2>1, <2>5, <2>6, <2>7, <2>8 DEF Sound
<1>9. QED BY <1>7, <1>8

LEMMA ResumedSteps ==
    ASSUME Inv, Base', Resumed
    PROVE  Sound /\ Windows'
<1>1. /\ inbox # <<>> /\ screen \notin {"leaving", "left"} /\ screen' = screen
      /\ IF ~Running /\ queue # <<>> THEN TryNext(active)
         ELSE inbox' = Tail(inbox) /\ UNCHANGED <<tasks, sel, shown, active, queue, activeId, worker, outdated>>
  BY DEF Resumed, Listening, uiVars, queueVars, history
<1>2. /\ active \in [Slot -> RunRecord] /\ Tail(inbox) \in Seq(Message) /\ Fewer(Tail(inbox), inbox)
  BY <1>1, TypeFacts, FewerTail DEF Inv
<1>3. CASE ~Running /\ queue # <<>>
  <2>1. /\ \A k \in DOMAIN Tail(inbox) : Tail(inbox)[k].type = "RESUME"
        /\ \A s \in Slot : worker[s] = Gone
    BY <1>2, <1>3, QuietBox
  <2>2. Used(active) = {}
    BY <1>3 DEF Running
  <2>3. QED BY <1>1, <1>2, <1>3, <2>1, <2>2, TrySteps
<1>4. CASE ~(~Running /\ queue # <<>>)
  <2>1. inbox' = Tail(inbox) /\ UNCHANGED <<tasks, sel, shown, active, queue, activeId, worker, outdated>>
    BY <1>1, <1>4
  <2>2. EditKeepsRows
    BY <2>1 DEF EditKeepsRows, Rows
  <2>3. Carries /\ Used(active') = Used(active)
    BY <2>1, <2>2, EditCarries
  <2>4. Fewer(inbox', inbox) /\ Settled
    BY <1>2, <2>1, <2>3, SameSlotsSettled
  <2>5. ResultsKept /\ Wakes
    BY <1>4, <2>1, SameResults DEF Wakes, Running
  <2>6. QED BY <1>1, <2>1, <2>3, <2>4, <2>5 DEF Sound, Inv, Windows
<1>5. QED BY <1>3, <1>4

-----------------------------------------------------------------------------
(* The invariants *)

\* What every step does for the invariants.
Advances ==
    /\ Inv'
    /\ ResultsOnTheirRow => ResultsOnTheirRow'
    /\ QueueResumes => QueueResumes'

LEMMA SoundAdvances == ASSUME Inv, Base', Sound, Windows' PROVE Advances
<1>1. Runs' /\ Messages'
  <2>1. CASE Carries /\ Fewer(inbox', inbox) /\ Settled
    BY <2>1, CarriedRuns, CarriedMessages
  <2>2. QED BY <2>1, StartedWholeRuns, StartedSingleRuns, RestedRuns DEF Sound
<1>2. Inv'
  BY <1>1 DEF Inv
<1>3. ASSUME ResultsOnTheirRow PROVE ResultsOnTheirRow'
  <2>1. SUFFICES ASSUME ~outdated', NEW k \in 1 .. Len(Rows') PROVE shown'[k].of \in {0, Rows'[k]}
    BY DEF ResultsOnTheirRow
  <2>2. ~outdated
    BY <2>1 DEF Sound
  <2>3. shown'[k].of = 0 \/ \E i \in 1 .. Len(Rows) : shown'[k].of = shown[i].of /\ Rows'[k] = Rows[i]
    BY DEF Sound, ResultsKept
  <2>4. QED BY <1>3, <2>2, <2>3 DEF ResultsOnTheirRow
<1>4. ASSUME QueueResumes PROVE QueueResumes'
  <2>1. queue' # <<>> /\ Used(active') = {} => Woken'
    BY <1>4 DEF Sound, Wakes
  <2>2. activeId' # 0 => Running'
    BY <1>1 DEF Runs, Slots
  <2>3. QED BY <2>1, <2>2 DEF QueueResumes, Woken, Running
<1>5. QED BY <1>2, <1>3, <1>4 DEF Advances

\* A report is shown on the row its slot runs now.
LEMMA ProgressAdvances == ASSUME Inv, Base', Progress PROVE Advances
<1> DEFINE e == Head(inbox)
           i == EventRow(e)
<1>1. /\ inbox # <<>> /\ e.type \notin {"RESUME", "FINISHED"} /\ inbox' = Tail(inbox)
      /\ shown' = IF active[e.slot] # Free /\ i \in 1 .. Len(Rows)
                  THEN [shown EXCEPT ![i] = [is |-> EventStatus(e), of |-> e.step]] ELSE shown
      /\ UNCHANGED <<tasks, sel, active, queue, activeId, screen, worker, outdated>>
  BY DEF Progress, Listening, queueVars, history
<1>2. /\ inbox \in Seq(Message) /\ shown \in [Slot -> [is : Status, of : Step \union {0}]]
      /\ \A k \in 1 .. Len(Rows') : k \in Slot
      /\ Rows' = Rows
  BY <1>1, TypeFacts, RowsTypeNext DEF Inv, Rows
<1>3. Fits(e)
  <2>1. 1 \in DOMAIN inbox /\ e = inbox[1]
    BY <1>1, <1>2
  <2>2. QED BY <1>1, <2>1 DEF Inv, Messages, Fitting
<1>4. Inv'
  <2>1. EditKeepsRows
    BY <1>1 DEF EditKeepsRows, Rows
  <2>2. Carries /\ Used(active') = Used(active)
    BY <1>1, <2>1, EditCarries
  <2>3. Fewer(inbox', inbox)
    BY <1>1, <1>2, FewerTail
  <2>4. Settled
    BY <2>2, <2>3, SameSlotsSettled
  <2>5. Runs' /\ Messages'
    BY <2>2, <2>3, <2>4, CarriedRuns, CarriedMessages
  <2>6. QED BY <1>1, <2>5 DEF Inv, Windows
<1>5. ASSUME ResultsOnTheirRow PROVE ResultsOnTheirRow'
  <2>1. SUFFICES ASSUME ~outdated, NEW k \in 1 .. Len(Rows) PROVE shown'[k].of \in {0, Rows[k]}
    BY <1>1, <1>2 DEF ResultsOnTheirRow
  <2>2. shown[k].of \in {0, Rows[k]}
    BY <1>5, <2>1 DEF ResultsOnTheirRow
  <2>3. CASE i \in 1 .. Len(Rows)
    <3>1. e.step = Rows[i]
      BY <1>1, <1>3, <2>1 DEF Fits, EventRow
    <3> HIDE DEF e, i
    <3>2. shown' = shown \/ shown' = [shown EXCEPT ![i] = [is |-> EventStatus(e), of |-> e.step]]
      BY <1>1
    <3>3. shown'[k] = shown[k] \/ (k = i /\ shown'[k].of = e.step)
      BY <1>2, <3>2
    <3>4. QED BY <2>2, <3>1, <3>3
  <2>4. CASE ~(i \in 1 .. Len(Rows))
    BY <1>1, <2>2, <2>4
  <2>5. QED BY <2>3, <2>4
<1>6. QueueResumes'
  <2>1. Running'
    BY <1>1, <1>3 DEF Fits, Running
  <2>2. QED BY <2>1 DEF QueueResumes
<1>7. QED BY <1>4, <1>5, <1>6 DEF Advances

LEMMA ThreadAdvances == ASSUME Inv, Base', NEW s \in Slot, Threads(s) PROVE Advances
<1>1. /\ Runs' /\ Messages'
      /\ \A k \in DOMAIN inbox : k \in DOMAIN inbox' /\ inbox'[k] = inbox[k]
  BY ThreadRuns
<1>2. UNCHANGED <<tasks, sel, shown, active, queue, activeId, screen, outdated, saveFailed>>
  BY ThreadWays DEF Inv
<1>3. Inv'
  BY <1>1, <1>2 DEF Inv, Windows
<1>4. ResultsOnTheirRow => ResultsOnTheirRow'
  BY <1>2 DEF ResultsOnTheirRow, Rows
<1>5. QueueResumes => QueueResumes'
  BY <1>1, <1>2 DEF QueueResumes, Running
<1>6. QED BY <1>3, <1>4, <1>5 DEF Advances

LEMMA InvNext == Inv /\ [Next]_vars => Advances
<1> SUFFICES ASSUME Inv, [Next]_vars PROVE Advances
  OBVIOUS
<1>1. Base'
  BY BaseNext DEF Inv
<1>2. CASE UNCHANGED vars
  <2>1. /\ UNCHANGED <<active, worker, activeId, outdated, queue, tasks, sel, shown, inbox, saveFailed>>
        /\ screen' = screen
    BY <1>2 DEF vars, uiVars, queueVars, history
  <2>2. Sound
    BY <2>1, EditSound
  <2>3. Windows'
    BY <2>1 DEF Inv, Windows
  <2>4. QED BY <1>1, <2>2, <2>3, SoundAdvances
<1>3. CASE User
  <2>1. Sound /\ Windows'
    <3>1. CASE \/ SaveRefused \/ Save \/ (\E d \in Step \union {0} : Type(d))
               \/ (\E i \in Slot : SelectRow(i)) \/ AskFolder \/ AskDelete \/ Open
      BY <3>1, EditSteps
    <3>2. CASE \/ (\E t \in 1 .. TaskLimit : SelectTask(t)) \/ NewTask
               \/ (\E sure \in BOOLEAN : DeleteTask(sure))
      BY <1>1, <3>2, ListSteps
    <3>3. CASE \/ RemoveRow \/ (\E d \in Step \union {0} : AddRow(d))
               \/ \E i, j \in Slot : MoveRow(i, j)
      BY <1>1, <3>3, RemoveSteps, AddSteps, MoveSteps
    <3>4. CASE CancelAll \/ CancelStep \/ Leave
      BY <1>1, <3>4, CancelSteps
    <3>5. CASE RunStep \/ Close \/ \E id \in TaskId : Launch(id)
      BY <1>1, <3>5, RunStepSteps, CloseSteps, LaunchSteps
    <3>6. QED BY <1>3, <3>1, <3>2, <3>3, <3>4, <3>5 DEF User
  <2>2. QED BY <1>1, <2>1, SoundAdvances
<1>4. CASE Left \/ Finished \/ Resumed
  BY <1>1, <1>4, LeftSteps, FinishedSteps, ResumedSteps, SoundAdvances
<1>5. QED BY <1>1, <1>2, <1>3, <1>4, ProgressAdvances, ThreadAdvances DEF Next

\* The three invariants with what they rest on.
BatchInv == Inv /\ ResultsOnTheirRow /\ QueueResumes

LEMMA BatchInvInit == Init => BatchInv
<1> SUFFICES ASSUME Init PROVE BatchInv
  OBVIOUS
<1>1. /\ Base /\ inbox = <<>> /\ screen = "open" /\ queue = <<>> /\ activeId = 0 /\ shown = Blank
      /\ active = [s \in Slot |-> Free] /\ worker = [s \in Slot |-> Gone]
  BY BaseInit DEF Init
<1>2. Used(active) = {}
  BY <1>1 DEF Used
<1>3. Runs
  BY <1>1, <1>2 DEF Runs, Slots, Running, Singles, Wholes
<1>4. Messages /\ Windows
  BY <1>1 DEF Messages, Fitting, EndsLast, Windows
<1>5. ResultsOnTheirRow
  <2>1. \A k \in 1 .. Len(Rows) : k \in Slot
    BY <1>1, RowsType, BatchAssumption DEF Base, Slot
  <2>2. QED BY <1>1, <2>1 DEF ResultsOnTheirRow, Blank, Waiting
<1>6. QueueResumes
  BY <1>1 DEF QueueResumes
<1>7. QED BY <1>1, <1>3, <1>4, <1>5, <1>6 DEF BatchInv, Inv

LEMMA BatchInvNext == BatchInv /\ [Next]_vars => BatchInv'
  BY InvNext DEF BatchInv, Advances

LEMMA BatchInvAlways == Spec => []BatchInv
  BY BatchInvInit, BatchInvNext, PTL DEF Spec

\* ARCHITECTURE.md:93: a result shown on a row is that of the row's folder and
\* command, whatever was added, edited, moved, removed, launched or cancelled
\* between the report and its delivery.
THEOREM ResultsStay == Spec => []ResultsOnTheirRow
<1>1. BatchInv => ResultsOnTheirRow
  BY DEF BatchInv
<1>2. QED BY <1>1, BatchInvAlways, PTL

\* README.md:355: a run and the row or the task it runs stay together, the
\* rows of single runs are distinct, and a thread works on what its slot's row
\* says, for as long as no task is deleted under its run.
THEOREM RowsHeld == Spec => []RunsHoldTheirRows
<1>1. ASSUME BatchInv PROVE RunsHoldTheirRows
  <2>1. SUFFICES ASSUME ~outdated, NEW s \in Used(active) PROVE HoldsTask(s)
    BY DEF RunsHoldTheirRows
  <2>2. Slots /\ Singles /\ Wholes /\ s \in Slot
    BY <1>1, <2>1 DEF BatchInv, Inv, Runs, Used
  <2>3. CASE active[s].whole
    BY <2>1, <2>2, <2>3 DEF Slots, Wholes, HoldsAll, HoldsTask
  <2>4. CASE ~active[s].whole
    <3>1. HoldsRow(s)
      BY <2>1, <2>2, <2>4 DEF Singles
    <3>2. SlotOf(active[s].row) = {s}
      BY <2>1, <3>1 DEF HoldsRow, SlotOf
    <3>3. QED BY <2>4, <3>1, <3>2 DEF HoldsRow, HoldsTask
  <2>5. QED BY <2>3, <2>4
<1>2. QED BY <1>1, BatchInvAlways, PTL

\* batch_tasks.c:511: no launch is forgotten in the queue.  It waits for a
\* run, for a save that failed, or for a resumption that is already posted and
\* that is taken to arrive (443 ignores a PostMessageW that fails); and the
\* scheduler never holds an active task without a run.
THEOREM LaunchesResume == Spec => []QueueResumes
<1>1. BatchInv => QueueResumes
  BY DEF BatchInv
<1>2. QED BY <1>1, BatchInvAlways, PTL

-----------------------------------------------------------------------------
(* The scheduler implements a queue of launches, one task at a time *)

Names(Q) == [i \in DOMAIN Q |-> Q[i].id]
Live == {u \in Slot : worker[u] # Gone}
Executing == {worker[s].id : s \in Live}

\* The names of a queue, of a longer one and of the end of one.
LEMMA NamesOf ==
    ASSUME NEW Q \in Seq(Task)
    PROVE  /\ Names(Q) \in Seq(TaskId) /\ Len(Names(Q)) = Len(Q) /\ DOMAIN Names(Q) = DOMAIN Q
           /\ \A i \in 1 .. Len(Q) : Names(Q)[i] = Q[i].id
<1>1. \A i \in 1 .. Len(Q) : Q[i].id \in TaskId
  BY DEF Task
<1>2. Names(Q) = [i \in 1 .. Len(Q) |-> Q[i].id] /\ Len(Q) \in Nat
  BY DEF Names
<1>3. Names(Q) \in Seq(TaskId) /\ Len(Names(Q)) = Len(Q)
  BY <1>1, <1>2
<1>4. QED BY <1>2, <1>3

LEMMA NamesAppended ==
    ASSUME NEW Q \in Seq(Task), NEW t \in Task
    PROVE  Names(Append(Q, t)) = Append(Names(Q), t.id)
<1> DEFINE P == Append(Q, t)
<1>1. P \in Seq(Task) /\ Len(P) = Len(Q) + 1 /\ P[Len(Q) + 1] = t /\ \A i \in 1 .. Len(Q) : P[i] = Q[i]
  OBVIOUS
<1>2. Len(Q) \in Nat /\ t.id \in TaskId
  BY DEF Task
<1> HIDE DEF P
<1>3. /\ Names(Q) \in Seq(TaskId) /\ Len(Names(Q)) = Len(Q) /\ \A i \in 1 .. Len(Q) : Names(Q)[i] = Q[i].id
      /\ Names(P) \in Seq(TaskId) /\ Len(Names(P)) = Len(P) /\ \A i \in 1 .. Len(P) : Names(P)[i] = P[i].id
  BY <1>1, NamesOf
<1> DEFINE N == Append(Names(Q), t.id)
<1>4. N \in Seq(TaskId) /\ Len(N) = Len(Q) + 1 /\ N[Len(Q) + 1] = t.id
      /\ \A i \in 1 .. Len(Q) : N[i] = Names(Q)[i]
  BY <1>2, <1>3
<1> HIDE DEF N
<1>5. \A i \in 1 .. Len(Q) + 1 : Names(P)[i] = N[i]
  BY <1>1, <1>2, <1>3, <1>4
<1>6. Names(P) = N
  BY <1>1, <1>3, <1>4, <1>5
<1>7. QED BY <1>6 DEF N, P

LEMMA NamesEnd ==
    ASSUME NEW Q \in Seq(Task), NEW k \in 1 .. Len(Q) + 1
    PROVE  Names(SubSeq(Q, k + 1, Len(Q))) = SubSeq(Names(Q), k + 1, Len(Names(Q)))
<1> DEFINE P == SubSeq(Q, k + 1, Len(Q))
           n == IF k <= Len(Q) THEN Len(Q) - k ELSE 0
<1>1. Len(Q) \in Nat /\ n \in Nat /\ \A i \in 1 .. n : i + k \in 1 .. Len(Q)
  OBVIOUS
<1>2. P \in Seq(Task) /\ Len(P) = n /\ \A i \in 1 .. n : P[i] = Q[i + k]
  OBVIOUS
<1> HIDE DEF P
<1>3. /\ Names(Q) \in Seq(TaskId) /\ Len(Names(Q)) = Len(Q) /\ \A i \in 1 .. Len(Q) : Names(Q)[i] = Q[i].id
      /\ Names(P) \in Seq(TaskId) /\ Len(Names(P)) = Len(P) /\ \A i \in 1 .. Len(P) : Names(P)[i] = P[i].id
  BY <1>2, NamesOf
<1> DEFINE N == SubSeq(Names(Q), k + 1, Len(Names(Q)))
<1>4. N \in Seq(TaskId) /\ Len(N) = n /\ \A i \in 1 .. n : N[i] = Names(Q)[i + k]
  BY <1>3
<1> HIDE DEF N, n
<1>5. \A i \in 1 .. n : Names(P)[i] = N[i]
  BY <1>1, <1>2, <1>3, <1>4
<1>6. Names(P) = N
  BY <1>2, <1>3, <1>4, <1>5
<1>7. QED BY <1>6 DEF N, P

\* The steps of the abstract scheduler, of this one's queue and threads.
Takes(Q) ==
    \E k \in 1 .. Len(Q) + 1 :
        /\ queue' = SubSeq(Q, k + 1, Len(Q))
        /\ IF k <= Len(Q) THEN activeId' = Q[k].id /\ Executing' = {Q[k].id}
                          ELSE activeId' = 0 /\ Executing' = {}

NamesTaken(N) ==
    \E k \in 1 .. Len(N) + 1 :
        /\ Names(queue)' = SubSeq(N, k + 1, Len(N))
        /\ IF k <= Len(N) THEN activeId' = N[k] /\ Executing' = {N[k]}
                          ELSE activeId' = 0 /\ Executing' = {}

LEMMA TakesNames ==
    ASSUME NEW Q \in Seq(Task), Takes(Q) PROVE NamesTaken(Names(Q))
<1>1. PICK k \in 1 .. Len(Q) + 1 :
        /\ queue' = SubSeq(Q, k + 1, Len(Q))
        /\ IF k <= Len(Q) THEN activeId' = Q[k].id /\ Executing' = {Q[k].id}
                          ELSE activeId' = 0 /\ Executing' = {}
  BY DEF Takes
<1>2. /\ Len(Names(Q)) = Len(Q)
      /\ k <= Len(Q) => Names(Q)[k] = Q[k].id
  BY NamesOf
<1>3. Names(queue') = SubSeq(Names(Q), k + 1, Len(Names(Q)))
  BY <1>1, NamesEnd
<1>4. Names(queue)' = Names(queue')
  BY DEF Names
<1>5. QED BY <1>1, <1>2, <1>3, <1>4 DEF NamesTaken

\* A step of the abstract scheduler, or none.
Promised == OneTask!QueueNext \/ UNCHANGED OneTask!qvars

LEMMA Stays == ASSUME UNCHANGED <<queue, activeId>>, Executing' = Executing PROVE Promised
  BY DEF Promised, OneTask!qvars, Executing, Live

LEMMA Accepts ==
    ASSUME queue \in Seq(Task), NEW t \in Task, t.id # activeId, t.id \notin Ids(queue),
           queue' = Append(queue, t), activeId' = activeId, Executing' = Executing
    PROVE  Promised
<1>1. Names(queue') = Append(Names(queue), t.id)
  BY NamesAppended
<1>2. t.id \in TaskId
  BY DEF Task
<1>3. OneTask!Accept(t.id)
  BY <1>1 DEF OneTask!Accept, OneTask!Waits, Names, Ids, Executing, Live
<1>4. QED BY <1>2, <1>3 DEF Promised, OneTask!QueueNext

LEMMA TakesNext == ASSUME queue \in Seq(Task), Executing = {}, Takes(queue) PROVE Promised
<1>1. NamesTaken(Names(queue))
  BY TakesNames
<1>2. OneTask!Take
  BY <1>1 DEF NamesTaken, OneTask!Take, OneTask!TakeFrom, Names, Executing, Live
<1>3. QED BY <1>2 DEF Promised, OneTask!QueueNext

LEMMA AcceptsAndTakes ==
    ASSUME queue \in Seq(Task), NEW t \in Task, activeId = 0, t.id \notin Ids(queue), Executing = {},
           Takes(Append(queue, t))
    PROVE  Promised
<1>1. t.id \in TaskId /\ Append(queue, t) \in Seq(Task)
  BY DEF Task
<1>2. NamesTaken(Names(Append(queue, t)))
  BY <1>1, TakesNames
<1>3. Names(Append(queue, t)) = Append(Names(queue), t.id)
  BY NamesAppended
<1>4. NamesTaken(Append(Names(queue), t.id))
  BY <1>2, <1>3 DEF NamesTaken
<1>5. OneTask!AcceptAndTake(t.id)
  BY <1>4 DEF NamesTaken, OneTask!AcceptAndTake, OneTask!TakeFrom, OneTask!Waits, Names, Ids,
     Executing, Live
<1>6. QED BY <1>1, <1>5 DEF Promised, OneTask!QueueNext

LEMMA RunsSingle ==
    ASSUME NEW id \in TaskId, activeId \in {0, id}, activeId' = id, Executing' = {id}, queue' = queue
    PROVE  Promised
<1>1. OneTask!Single(id)
  BY DEF OneTask!Single, Executing, Live
<1>2. QED BY <1>1 DEF Promised, OneTask!QueueNext

LEMMA Ends ==
    ASSUME Executing' \in {Executing, {}}, UNCHANGED <<queue, activeId>> PROVE Promised
<1>1. CASE Executing' = Executing
  BY <1>1, Stays
<1>2. CASE Executing' = {} /\ Executing # {}
  <2>1. OneTask!ThreadEnds
    BY <1>2 DEF OneTask!ThreadEnds, Executing, Live
  <2>2. QED BY <2>1 DEF Promised, OneTask!QueueNext
<1>3. QED BY <1>1, <1>2

LEMMA Releases ==
    ASSUME Executing = {}, activeId' \in {0, activeId}, UNCHANGED <<queue, worker>> PROVE Promised
<1>1. Executing' = Executing
  BY DEF Executing, Live
<1>2. CASE activeId' = activeId
  BY <1>1, <1>2, Stays
<1>3. CASE activeId' = 0
  <2>1. OneTask!Release
    BY <1>1, <1>3 DEF OneTask!Release, Executing, Live
  <2>2. QED BY <2>1 DEF Promised, OneTask!QueueNext
<1>4. QED BY <1>2, <1>3

LEMMA Cancels ==
    ASSUME queue' = <<>>, activeId' = activeId, Executing' = Executing PROVE Promised
<1>1. Names(queue') = <<>>
  BY DEF Names
<1>2. OneTask!Cancel
  BY <1>1 DEF OneTask!Cancel, Names, Executing, Live
<1>3. QED BY <1>2 DEF Promised, OneTask!QueueNext

\* What the invariant says of the threads.
LEMMA ExecutingFacts ==
    ASSUME Inv
    PROVE  /\ Executing \subseteq {activeId}
           /\ ~Running => Executing = {} /\ activeId = 0
           /\ (\A s \in Slot : worker[s] = Gone) => Executing = {}
           /\ worker' = worker => Executing' = Executing
           /\ queue \in Seq(Task) /\ worker \in [Slot -> Thread \union {Gone}]
           /\ activeId \in TaskId \union {0}
<1>1. Slots /\ Base
  BY DEF Inv, Runs
<1>2. Executing \subseteq {activeId} /\ (~Running => Executing = {} /\ activeId = 0)
  BY <1>1 DEF Slots, Executing, Live, Running
<1>3. (\A s \in Slot : worker[s] = Gone) => Executing = {}
  BY DEF Executing, Live
<1>4. worker' = worker => Executing' = Executing
  BY DEF Executing, Live
<1>5. QED BY <1>1, <1>2, <1>3, <1>4, TypeFacts

LEMMA StartTakes ==
    ASSUME Inv, NEW T \in Seq(Task), Distinct(T), NEW A, Used(A) = {},
           \A s \in Slot : worker[s] = Gone,
           NEW Q \in Seq(Task), NEW box, NEW win, StartNext(T, A, Q, box, win)
    PROVE  Takes(Q)
<1>1. Launched(T, A, Q) \/ Exhausted(A)
  BY StartNextEnds
<1>2. worker \in [Slot -> Thread \union {Gone}] /\ Len(Q) \in Nat
  BY ExecutingFacts
<1>3. CASE Launched(T, A, Q)
  <2>1. PICK k \in 1 .. Len(Q), s \in Slot :
          /\ queue' = SubSeq(Q, k + 1, Len(Q)) /\ activeId' = Q[k].id
          /\ BeginsIn(s, T, A, Q[k], 0)
    BY <1>3 DEF Launched
  <2>2. worker' = [worker EXCEPT ![s] = StartedThread(Q[k], 0)]
    BY <2>1 DEF BeginsIn
  <2>3. worker'[s] = StartedThread(Q[k], 0) /\ \A u \in Slot : u # s => worker'[u] = Gone
    BY <1>2, <2>2
  <2>4. StartedThread(Q[k], 0).id = Q[k].id /\ Q[k].id # 0 /\ Gone.id = 0
    <3>1. Q[k].id \in TaskId
      BY DEF Task
    <3>2. Q[k].id # 0
      BY <3>1, BatchAssumption DEF TaskId
    <3>3. QED BY <3>2 DEF StartedThread, Gone
  <2>5. Live' = {s} /\ worker'[s].id = Q[k].id
    BY <2>3, <2>4 DEF Live
  <2>6. Executing' = {Q[k].id}
    BY <2>5 DEF Executing
  <2>7. k \in 1 .. Len(Q) + 1 /\ k <= Len(Q)
    BY <1>2
  <2>8. QED BY <2>1, <2>6, <2>7 DEF Takes
<1>4. CASE Exhausted(A)
  <2>1. queue' = <<>> /\ activeId' = 0 /\ worker' = worker
    BY <1>4 DEF Exhausted
  <2>2. Executing' = {}
    BY <2>1, ExecutingFacts
  <2>3. /\ Len(Q) + 1 \in 1 .. Len(Q) + 1 /\ SubSeq(Q, (Len(Q) + 1) + 1, Len(Q)) = <<>>
        /\ ~(Len(Q) + 1 <= Len(Q))
    BY <1>2
  <2>4. QED BY <2>1, <2>2, <2>3 DEF Takes
<1>5. QED BY <1>1, <1>3, <1>4

\* Commands that leave the scheduler alone.
LEMMA EditsPromised ==
    ASSUME \/ SaveRefused \/ Save \/ AskFolder \/ AskDelete \/ Open \/ NewTask \/ RemoveRow \/ Progress
           \/ UNCHANGED vars
           \/ \E d \in Step \union {0} : Type(d) \/ AddRow(d)
           \/ \E i \in Slot : SelectRow(i) \/ \E j \in Slot : MoveRow(i, j)
           \/ \E t \in 1 .. TaskLimit : SelectTask(t)
           \/ \E sure \in BOOLEAN : DeleteTask(sure)
    PROVE  Promised
<1>1. UNCHANGED <<queue, activeId, worker>>
  BY DEF SaveRefused, Save, AskFolder, AskDelete, Open, NewTask, RemoveRow, Progress, Type, AddRow,
     SelectRow, MoveRow, SelectTask, DeleteTask, vars, queueVars
<1>2. Executing' = Executing
  BY <1>1 DEF Executing, Live
<1>3. QED BY <1>1, <1>2, Stays

LEMMA CancelsPromised == ASSUME Inv, CancelAll \/ CancelStep \/ Leave PROVE Promised
<1>1. PICK S \in SUBSET Slot : Signal(S)
  <2>1. Used(active) \in SUBSET Slot /\ \A s \in SlotOf(row) : {s} \in SUBSET Slot
    BY DEF Used, SlotOf
  <2>2. QED BY <2>1 DEF CancelAll, CancelStep, Leave
<1>2. worker \in [Slot -> Thread \union {Gone}]
  BY ExecutingFacts
<1>3. ASSUME NEW s \in Slot PROVE worker'[s].id = worker[s].id /\ (worker'[s] # Gone <=> worker[s] # Gone)
  <2>1. worker'[s] = IF s \in S /\ worker[s] # Gone THEN [worker[s] EXCEPT !.cancel = TRUE] ELSE worker[s]
    BY <1>1 DEF Signal
  <2>2. CASE s \in S /\ worker[s] # Gone
    <3>1. worker[s] \in Thread
      BY <1>2, <2>2
    <3>2. worker'[s].cancel = TRUE /\ worker'[s].id = worker[s].id
      BY <2>1, <2>2, <3>1 DEF Thread
    <3>3. QED BY <2>2, <3>2 DEF Gone
  <2>3. CASE ~(s \in S /\ worker[s] # Gone)
    BY <2>1, <2>3
  <2>4. QED BY <2>2, <2>3
<1>4. Live' = Live
  BY <1>3 DEF Live
<1>5. Executing' = Executing
  BY <1>3, <1>4 DEF Executing, Live
<1>6. activeId' = activeId /\ queue' \in {<<>>, queue}
  BY DEF CancelAll, CancelStep, Leave, queueVars
<1>7. QED BY <1>5, <1>6, Stays, Cancels

LEMMA RunStepPromised == ASSUME Inv, RunStep PROVE Promised
<1>1. Base /\ Slots /\ Singles
  BY DEF Inv, Runs
<1>2. /\ SaveKeeps /\ row \in 1 .. Len(Rows) /\ ~StepRunning(row)
      /\ tasks # <<>> /\ sel \in DOMAIN tasks /\ tasks[sel].id \in TaskId
      /\ queue' = queue
      /\ \/ /\ BeginsIn(FreeSlot(active), SavedTasks, active, SavedTasks[sel], row)
            /\ activeId' = tasks[sel].id
         \/ /\ activeId' = IF Running THEN tasks[sel].id ELSE 0
            /\ worker' = worker
  BY <1>1, RunStepWays
<1>3. ~WholeRunning /\ SlotOf(row) = {}
  BY <1>2 DEF StepRunning
<1>4. Running => activeId = tasks[sel].id
  BY <1>1, <1>3 DEF Running, WholeRunning, Singles, HoldsRow
<1>5. ~Running => activeId = 0
  BY ExecutingFacts
<1>6. CASE activeId' = (IF Running THEN tasks[sel].id ELSE 0) /\ worker' = worker
  <2>1. activeId' = activeId /\ Executing' = Executing
    BY <1>4, <1>5, <1>6, ExecutingFacts
  <2>2. QED BY <1>2, <2>1, Stays
<1>7. CASE BeginsIn(FreeSlot(active), SavedTasks, active, SavedTasks[sel], row) /\ activeId' = tasks[sel].id
  <2>1. PICK s \in Slot : s = FreeSlot(active) /\ active[s] = Free
    BY <1>2, <1>3, SlotLeft, FreeSlotIsFree
  <2>2. worker' = [worker EXCEPT ![s] = StartedThread(SavedTasks[sel], row)]
    BY <1>7, <2>1 DEF BeginsIn
  <2>3. worker \in [Slot -> Thread \union {Gone}] /\ Executing \subseteq {activeId}
    BY ExecutingFacts
  <2>4. StartedThread(SavedTasks[sel], row).id = tasks[sel].id /\ tasks[sel].id # 0 /\ Gone.id = 0
    <3>1. SavedTasks[sel].id = tasks[sel].id
      BY <1>1, <1>2, SavedRows
    <3>2. tasks[sel].id # 0
      BY <1>2, BatchAssumption DEF TaskId
    <3>3. QED BY <3>1, <3>2 DEF StartedThread, Gone
  <2>5. worker'[s].id = tasks[sel].id /\ worker'[s] # Gone /\ \A u \in Slot : u # s => worker'[u] = worker[u]
    BY <2>2, <2>3, <2>4
  <2>6. \A u \in Slot : worker'[u] # Gone => worker'[u].id = tasks[sel].id
    BY <1>1, <1>4, <2>5 DEF Slots, Running
  <2>7. Executing' = {tasks[sel].id}
    BY <2>5, <2>6 DEF Executing, Live
  <2>8. QED BY <1>2, <1>4, <1>5, <1>7, <2>7, RunsSingle
<1>8. QED BY <1>2, <1>6, <1>7

LEMMA LaunchPromised == ASSUME Inv, NEW id \in TaskId, Launch(id) PROVE Promised
<1>1. /\ LaunchTasks \in Seq(Task) /\ Distinct(LaunchTasks)
      /\ LaunchTask(id) \in Task /\ LaunchQueue(id) \in Seq(Task)
      /\ LaunchWaits(id) \/ LaunchStarts(id) \/ (~Running /\ SecondSaveFails(LaunchQueue(id)))
  BY LaunchWays DEF Inv
<1>2. \/ LaunchQueue(id) = queue
      \/ /\ LaunchQueue(id) = Append(queue, LaunchTask(id))
         /\ LaunchTask(id).id # activeId /\ LaunchTask(id).id \notin Ids(queue)
  BY DEF LaunchQueue, Queued
<1>3. CASE LaunchWaits(id) \/ SecondSaveFails(LaunchQueue(id))
  <2>1. queue' = LaunchQueue(id) /\ UNCHANGED <<activeId, worker>>
    BY <1>3 DEF LaunchWaits, SecondSaveFails
  <2>2. Executing' = Executing /\ queue \in Seq(Task)
    BY <2>1, ExecutingFacts
  <2>3. QED BY <1>1, <1>2, <2>1, <2>2, Stays, Accepts
<1>4. CASE LaunchStarts(id)
  <2>1. ~Running /\ StartNext(LaunchTasks, active, LaunchQueue(id), LaunchBox, "open")
    BY <1>4 DEF LaunchStarts
  <2>2. /\ Used(active) = {} /\ Executing = {} /\ activeId = 0 /\ queue \in Seq(Task)
        /\ \A s \in Slot : worker[s] = Gone
    BY <2>1, ExecutingFacts DEF Running, Inv, Runs, Slots
  <2>3. Takes(LaunchQueue(id))
    BY <1>1, <2>1, <2>2, StartTakes
  <2>4. QED BY <1>1, <1>2, <2>2, <2>3, TakesNext, AcceptsAndTakes
<1>5. QED BY <1>1, <1>3, <1>4

LEMMA ClosePromised == ASSUME Inv, Close PROVE Promised
<1>1. SavedTasks \in Seq(Task) /\ Distinct(SavedTasks)
  BY SavingKeeps DEF Close, Inv, Base, SaveKeeps
<1>2. queue \in Seq(Task)
  BY ExecutingFacts
<1>3. CASE ~Running /\ queue # <<>>
  <2>1. StartNext(SavedTasks, active, queue, Undelivered(inbox), "closed")
    BY <1>3 DEF Close
  <2>2. Used(active) = {} /\ Executing = {} /\ \A s \in Slot : worker[s] = Gone
    BY <1>3, ExecutingFacts DEF Running, Inv, Runs, Slots
  <2>3. Takes(queue)
    BY <1>1, <1>2, <2>1, <2>2, StartTakes
  <2>4. QED BY <1>2, <2>2, <2>3, TakesNext
<1>4. CASE ~(~Running /\ queue # <<>>)
  <2>1. UNCHANGED <<queue, activeId, worker>>
    BY <1>4 DEF Close, queueVars
  <2>2. QED BY <2>1, ExecutingFacts, Stays
<1>5. QED BY <1>3, <1>4

LEMMA TryPromised ==
    ASSUME Inv, NEW A, Used(A) = {}, \A s \in Slot : worker[s] = Gone, TryNext(A)
    PROVE  Promised
<1>1. Executing = {} /\ queue \in Seq(Task)
  BY ExecutingFacts
<1>2. CASE TryFails(A)
  BY <1>1, <1>2, Releases DEF TryFails
<1>3. ASSUME NEW T \in Seq(Task), NEW win, Distinct(T), StartNext(T, A, queue, Tail(inbox), win)
      PROVE  Promised
  BY <1>1, <1>3, StartTakes, TakesNext
<1>4. QED BY <1>2, <1>3, TryWays DEF Inv

LEMMA EventsPromised == ASSUME Inv, Left \/ Finished \/ Resumed PROVE Promised
<1>1. Slots /\ Fitting
  BY DEF Inv, Runs, Messages
<1>2. CASE Left
  <2>1. activeId' = 0 /\ UNCHANGED <<queue, worker>> /\ \A s \in Slot : worker[s] = Gone
    BY <1>1, <1>2 DEF Left, Slots
  <2>2. QED BY <2>1, ExecutingFacts, Releases
<1>3. CASE Finished
  <2> DEFINE e == Head(inbox)
             A == [active EXCEPT ![e.slot] = Free]
  <2>1. /\ inbox # <<>> /\ e.type = "FINISHED"
        /\ IF Used(A) = {} /\ queue # <<>> THEN TryNext(A)
           ELSE /\ activeId' = (IF Used(A) = {} THEN 0 ELSE activeId)
                /\ UNCHANGED <<queue, worker>>
    BY <1>3 DEF Finished, Listening
  <2>2. e.slot \in Used(active) /\ worker[e.slot] = Gone
    <3>1. inbox \in Seq(Message)
      BY TypeFacts DEF Inv
    <3>2. 1 \in DOMAIN inbox /\ e = inbox[1]
      BY <2>1, <3>1
    <3>3. QED BY <1>1, <2>1, <3>2 DEF Fitting, Fits
  <2>3. Used(active) \subseteq Used(A) \union {e.slot}
    <3>1. active \in [Slot -> RunRecord] /\ e.slot \in Slot
      BY <2>2, TypeFacts DEF Inv, Used
    <3>2. \A s \in Slot : s # e.slot => A[s] = active[s]
      BY <3>1
    <3> HIDE DEF A
    <3>3. QED BY <3>2 DEF Used
  <2> HIDE DEF A, e
  <2>4. CASE Used(A) = {}
    <3>1. \A s \in Slot : worker[s] = Gone
      BY <1>1, <2>2, <2>3, <2>4 DEF Slots
    <3>2. CASE queue # <<>>
      BY <2>1, <2>4, <3>1, <3>2, TryPromised
    <3>3. CASE queue = <<>>
      BY <2>1, <2>4, <3>1, <3>3, ExecutingFacts, Releases
    <3>4. QED BY <3>2, <3>3
  <2>5. CASE Used(A) # {}
    BY <2>1, <2>5, ExecutingFacts, Stays
  <2>6. QED BY <2>4, <2>5
<1>4. CASE Resumed
  <2>1. CASE ~Running /\ queue # <<>>
    <3>1. TryNext(active) /\ Used(active) = {} /\ \A s \in Slot : worker[s] = Gone
      BY <1>1, <1>4, <2>1 DEF Resumed, Running, Slots
    <3>2. QED BY <3>1, TryPromised
  <2>2. CASE ~(~Running /\ queue # <<>>)
    <3>1. UNCHANGED <<queue, activeId, worker>>
      BY <1>4, <2>2 DEF Resumed, queueVars
    <3>2. QED BY <3>1, ExecutingFacts, Stays
  <2>3. QED BY <2>1, <2>2
<1>5. QED BY <1>2, <1>3, <1>4

LEMMA ThreadPromised == ASSUME Inv, NEW s \in Slot, Threads(s) PROVE Promised
<1>1. UNCHANGED <<queue, activeId>> /\ worker \in [Slot -> Thread \union {Gone}] /\ Executing \subseteq {activeId}
  BY ThreadWays, ExecutingFacts DEF Inv
<1>2. ASSUME NEW i \in DOMAIN worker[s].at, NEW to, worker' = [worker EXCEPT ![s].at[i] = to]
      PROVE  Promised
  <2>1. worker[s] # Gone
    <3>1. DOMAIN Gone.at = {}
      BY DEF Gone
    <3>2. QED BY <1>2, <3>1
  <2>2. /\ worker'[s].id = worker[s].id /\ worker'[s].id # Gone.id
        /\ \A u \in Slot : u # s => worker'[u] = worker[u]
    <3>1. worker[s] \in Thread
      BY <1>1, <2>1
    <3>2. worker[s].id \in TaskId /\ worker[s].id # 0
      BY <3>1, BatchAssumption DEF Thread, TaskId
    <3>3. worker' = [worker EXCEPT ![s] = [worker[s] EXCEPT !.at = [worker[s].at EXCEPT ![i] = to]]]
      BY <1>2
    <3>4. worker'[s] = [worker[s] EXCEPT !.at = [worker[s].at EXCEPT ![i] = to]]
          /\ \A u \in Slot : u # s => worker'[u] = worker[u]
      BY <1>1, <3>3
    <3>5. worker'[s].id = worker[s].id
      BY <3>1, <3>4 DEF Thread
    <3>6. QED BY <3>2, <3>4, <3>5 DEF Gone
  <2>3. worker'[s] # Gone
    BY <2>2
  <2>4. \A u \in Slot : worker'[u].id = worker[u].id /\ (worker'[u] # Gone <=> worker[u] # Gone)
    BY <2>1, <2>2, <2>3
  <2>5. Live' = Live
    BY <2>4 DEF Live
  <2>6. Executing' = Executing
    BY <2>4, <2>5 DEF Executing, Live
  <2>7. QED BY <1>1, <2>6, Stays
<1>3. ASSUME worker' = [worker EXCEPT ![s] = Gone], worker[s] # Gone PROVE Promised
  <2>1. worker'[s] = Gone /\ \A u \in Slot : u # s => worker'[u] = worker[u]
    BY <1>1, <1>3
  <2>2. Executing' \subseteq Executing /\ Executing = {worker[s].id}
    BY <1>1, <1>3, <2>1 DEF Executing, Live
  <2>3. Executing' \in {Executing, {}}
    BY <2>2
  <2>4. QED BY <1>1, <2>3, Ends
<1>4. QED BY <1>2, <1>3, ThreadWays DEF Inv, Reports, Exits

LEMMA PromisedNext == Inv /\ [Next]_vars => [OneTask!QueueNext]_(OneTask!qvars)
<1> SUFFICES ASSUME Inv, [Next]_vars PROVE Promised
  BY DEF Promised
<1>1. CASE User
  BY <1>1, EditsPromised, CancelsPromised, RunStepPromised, LaunchPromised, ClosePromised DEF User
<1>2. QED BY <1>1, EditsPromised, EventsPromised, ThreadPromised DEF Next

LEMMA PromisedInit == Init => OneTask!QueueInit
<1> SUFFICES ASSUME Init PROVE OneTask!QueueInit
  OBVIOUS
<1>1. queue = <<>> /\ activeId = 0 /\ worker = [s \in Slot |-> Gone]
  BY DEF Init
<1>2. Names(queue) = <<>> /\ Executing = {}
  BY <1>1 DEF Names, Executing, Live
<1>3. QED BY <1>1, <1>2 DEF OneTask!QueueInit, Names, Executing, Live

\* README, "NOVA runs one saved task at a time": the scheduler, with its saves
\* that fail, its threads that cannot be created and the resumptions it posts,
\* implements a queue of launches without duplicates that runs one task at a
\* time.
THEOREM SchedulerIsOneTaskQueue == Spec => OneTaskAtATime
<1>1. BatchInv => Inv
  BY DEF BatchInv
<1>2. QED BY <1>1, PromisedInit, PromisedNext, BatchInvAlways, PTL DEF Spec, OneTaskAtATime, OneTask!QueueSpec
=============================================================================
