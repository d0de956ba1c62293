---------------------------- MODULE MCBatchTasks ----------------------------
EXTENDS BatchTasks

\* Two subtasks at once, and a task that shares a subtask with it.
MCSaved == <<[id |-> 1, rows |-> <<1, 2>>, mode |-> "PARALLEL"],
             [id |-> 2, rows |-> <<2>>, mode |-> "SEQUENTIAL"]>>
=============================================================================
