------------------------------ MODULE TaskTable ------------------------------
(***************************************************************************)
(* One row of the tasks table and the statements of TaskRepository         *)
(* (internal/repository/task_postgres.go) as functions from the row before *)
(* to the row after.  Each method runs in a transaction of its own that    *)
(* touches this row alone, so each is one atomic step of its caller.       *)
(*                                                                         *)
(* Of a time the model keeps what the queries ask: next_run_after is null, *)
(* still ahead ("wait") or passed ("due"); timeout_after is null, ahead    *)
(* ("armed") or passed ("expired").  Of the state JSON it keeps how many   *)
(* units of work the processor has behind it, Fresh before it has run.     *)
(***************************************************************************)
EXTENDS Integers

CONSTANT MaxRetries   \* max_retries column (3 for every task of the code)

ASSUME MaxRetriesAssumption == MaxRetries \in Nat

Fresh == -1

TaskStatus == {"absent", "pending", "running", "paused", "completed", "failed"}

Task == [status  : TaskStatus,
         next    : {"null", "wait", "due"},
         timeout : {"null", "armed", "expired"},
         retries : Nat,
         cursor  : Int]

NoTask == [status |-> "absent", next |-> "null", timeout |-> "null", retries |-> 0, cursor |-> Fresh]

Exists(t) == t.status # "absent"

\* CreateTask: pending, to run at once (next_run_after null) or later.
Create(next) == [NoTask EXCEPT !.status = "pending", !.next = next]

\* Seeded fault: a task stuck in 'running' is never taken up again.
DispatchableNoReap(t) ==
  \/ t.status = "pending" /\ t.next # "wait"
  \/ t.status = "paused" /\ t.next = "due"

\* The WHERE clause of GetNextBatch.
Dispatchable(t) ==
  \/ t.status = "pending" /\ t.next # "wait"
  \/ t.status = "paused" /\ t.next = "due"
  \/ t.status = "running" /\ t.timeout = "expired"

\* Seeded fault: no look at timeout_after.
RunnableAnyTime(t) == t.status \in {"pending", "paused", "running"}

\* The WHERE clause of MarkAsRunningTx: unlike GetNextBatch it does not look
\* at next_run_after.
Runnable(t) ==
  \/ t.status \in {"pending", "paused"}
  \/ t.status = "running" /\ t.timeout = "expired"

MarkAsRunning(t) == [t EXCEPT !.status = "running", !.timeout = "armed"]

\* SaveStateTx is the only statement that asks whether the task still runs.
SaveState(t, cursor) == IF t.status = "running" THEN [t EXCEPT !.cursor = cursor] ELSE t

\* UPDATE ... WHERE id = $1 of a row that was deleted changes nothing.
Update(t, new) == IF Exists(t) THEN new ELSE t

MarkAsCompleted(t, cursor) ==
  Update(t, [t EXCEPT !.status = "completed", !.timeout = "null", !.cursor = cursor])

\* Seeded fault: one retry fewer than max_retries.
MarkAsFailedEarly(t) ==
  Update(t, IF t.retries + 1 < MaxRetries
            THEN [t EXCEPT !.status = "pending", !.next = "wait", !.timeout = "null", !.retries = @ + 1]
            ELSE [t EXCEPT !.status = "failed", !.next = "null", !.timeout = "null", !.retries = @ + 1])

MarkAsFailed(t) ==
  Update(t, IF t.retries < MaxRetries
            THEN [t EXCEPT !.status = "pending", !.next = "wait", !.timeout = "null", !.retries = @ + 1]
            ELSE [t EXCEPT !.status = "failed", !.next = "null", !.timeout = "null", !.retries = @ + 1])

\* A pause costs a retry.
MarkAsPaused(t, cursor) ==
  Update(t, [t EXCEPT !.status = "paused", !.next = "wait", !.timeout = "null",
                      !.retries = @ + 1, !.cursor = cursor])

MarkAsPending(t, next, cursor) ==
  Update(t, [t EXCEPT !.status = "pending", !.next = next, !.timeout = "null", !.cursor = cursor])
===============================================================================
