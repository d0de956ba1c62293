----------------------------- MODULE TaskQueue ------------------------------
(***************************************************************************)
(* What the scheduler of saved batch tasks promises (README, "NOVA runs    *)
(* one saved task at a time"; "Repeated launches of an active or queued    *)
(* task are ignored"): launches wait in order and without duplicates, one  *)
(* task is current, and commands of no other task execute.  A waiting      *)
(* launch may be dropped because its thread cannot be created, and all of  *)
(* them by Cancel all or the end of the program.                           *)
(***************************************************************************)
EXTENDS Naturals, Sequences

CONSTANTS Task,    \* identifiers of saved tasks
          NoTask   \* none of them

VARIABLES waiting,     \* accepted launches, in order
          current,     \* the task that holds the scheduler, or NoTask
          executing    \* tasks with a live thread

qvars == <<waiting, current, executing>>

Waits(t) == \E i \in DOMAIN waiting : waiting[i] = t

QueueInit == waiting = <<>> /\ current = NoTask /\ executing = {}

Accept(t) ==
    /\ t # current /\ ~Waits(t)
    /\ waiting' = Append(waiting, t)
    /\ UNCHANGED <<current, executing>>

\* The first launch of q that can start does, those before it are dropped.
TakeFrom(q) ==
    \E k \in 1 .. Len(q) + 1 :
        /\ waiting' = SubSeq(q, k + 1, Len(q))
        /\ IF k <= Len(q) THEN current' = q[k] /\ executing' = {q[k]}
                          ELSE current' = NoTask /\ executing' = {}

\* The scheduler passes on only when nothing of the current task executes.
Take == executing = {} /\ TakeFrom(waiting)
AcceptAndTake(t) ==
    /\ current = NoTask /\ executing = {} /\ ~Waits(t)
    /\ TakeFrom(Append(waiting, t))

\* One subtask, beside those of the same task.
Single(t) ==
    /\ current \in {NoTask, t}
    /\ current' = t /\ executing' = {t}
    /\ UNCHANGED waiting

ThreadEnds ==
    /\ executing' = {} /\ executing # {}
    /\ UNCHANGED <<waiting, current>>

Release == executing = {} /\ current' = NoTask /\ UNCHANGED <<waiting, executing>>

\* Cancel all; at the end of the program the scheduler is released as well.
Cancel ==
    /\ waiting' = <<>>
    /\ UNCHANGED <<current, executing>>

QueueNext ==
    \/ \E t \in Task : Accept(t) \/ AcceptAndTake(t) \/ Single(t)
    \/ Take \/ ThreadEnds \/ Release \/ Cancel

QueueSpec == QueueInit /\ [][QueueNext]_qvars
=============================================================================
