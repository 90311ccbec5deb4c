---------------------------- MODULE BroadcastTask ----------------------------
(***************************************************************************)
(* The life of one single-template broadcast: the BroadcastService calls   *)
(* of its users (internal/service/broadcast_service.go), the event handlers *)
(* of TaskService that follow them (internal/service/task_service.go), the *)
(* dispatch and execution of the broadcast's task, and the                 *)
(* BroadcastOrchestrator that enqueues the audience batch by batch         *)
(* (internal/service/broadcast/orchestrator.go).                           *)
(*                                                                         *)
(* The broadcast and its queue rows live in the workspace database, the    *)
(* task in the system database: no transaction spans the two.  A service   *)
(* call reads the broadcast without a lock, updates it (which locks the    *)
(* broadcast row until the commit), publishes an event whose handler       *)
(* commits its own change of the task, and only then commits.              *)
(*                                                                         *)
(* The email workers of module EmailQueue are left out: a queue row is     *)
(* here what the producers make of it, live or paused.                     *)
(***************************************************************************)
EXTENDS TaskTable

CONSTANTS
  Executor,     \* goroutines that serve /api/tasks.execute for this task
  Client,       \* concurrent service calls and event goroutines
  Total,        \* batches in the audience
  Overruns,     \* TRUE: an execution may outlive its timeout_after
  HandlerFails, \* TRUE: an event handler's write of the task may fail
  MaxCopies,    \* bound on the times a batch is enqueued
  MaxRetryCount,\* bound on retry_count of a task that is run once more
  MaxCommands,  \* bound on service calls and feed failures (both change the broadcast)
  MaxFaults     \* bound on crashes, rollbacks and database failures

ASSUME BroadcastAssumption ==
  /\ Total \in Nat \ {0}
  /\ Overruns \in BOOLEAN
  /\ HandlerFails \in BOOLEAN
  /\ MaxCopies \in Nat
  /\ MaxRetryCount \in Nat
  /\ MaxCommands \in Nat
  /\ MaxFaults \in Nat

Batch == 1 .. Total

VARIABLES
  bc,        \* broadcasts row: status, and done (completed_at is set)
  task,      \* tasks row of the broadcast
  live,      \* queue rows the workers may send, as <<batch, copy>>
  paused,    \* queue rows with status 'paused'
  enq,       \* times each batch was enqueued
  dropped,   \* batches counted as failed and passed over
  pc,        \* where ExecuteTask / Process is
  pos,       \* batches behind the in-memory task.State
  out,       \* what Process returned
  last,      \* isLastRetry
  cpc,       \* where the service call or event goroutine is
  cop,       \* which call
  cbc,       \* its copy of the broadcast
  csnap,     \* its event handler's copy of the task
  chit,      \* queue rows its transaction has updated
  cmds,      \* service calls and feed failures so far
  faults     \* faults injected

rowVars    == <<live, paused>>
execVars   == <<pc, pos, out, last>>
clientVars == <<cpc, cop, cbc, csnap, chit>>
vars == <<bc, task, rowVars, enq, dropped, execVars, clientVars, cmds, faults>>

BroadcastStatus ==
  {"draft", "scheduled", "processing", "paused", "processed", "cancelled", "failed"}
Broadcast == [status : BroadcastStatus, done : BOOLEAN]
Op        == {"sendNow", "sendLater", "pause", "resume", "cancel"}
ExecPC    == {"idle", "dispatched", "count", "loop", "ready", "fetched", "sent", "pausing",
              "deleting", "completing", "failing", "finish"}
ClientPC  == {"idle", "checked", "locked", "handled", "event", "eventRead"}
QueueRow  == Batch \X (Nat \ {0})

TypeOK ==
  /\ bc \in Broadcast
  /\ task \in Task
  /\ live \subseteq QueueRow
  /\ paused \subseteq QueueRow
  /\ enq \in [Batch -> Nat]
  /\ dropped \subseteq Batch
  /\ pc \in [Executor -> ExecPC]
  /\ pos \in [Executor -> Fresh .. Total]
  /\ out \in [Executor -> {"done", "more", "error"}]
  /\ last \in [Executor -> BOOLEAN]
  /\ cpc \in [Client -> ClientPC]
  /\ cop \in [Client -> Op]
  /\ cbc \in [Client -> Broadcast]
  /\ csnap \in [Client -> Task]
  /\ chit \in [Client -> SUBSET QueueRow]
  /\ cmds \in Nat
  /\ faults \in Nat

\* CreateBroadcast without a schedule.
Draft == [status |-> "draft", done |-> FALSE]

Init ==
  /\ bc = Draft
  /\ task = NoTask
  /\ live = {} /\ paused = {}
  /\ enq = [b \in Batch |-> 0]
  /\ dropped = {}
  /\ pc = [x \in Executor |-> "idle"]
  /\ pos = [x \in Executor |-> Fresh]
  /\ out = [x \in Executor |-> "more"]
  /\ last = [x \in Executor |-> FALSE]
  /\ cpc = [c \in Client |-> "idle"]
  /\ cop = [c \in Client |-> "sendNow"]
  /\ cbc = [c \in Client |-> Draft]
  /\ csnap = [c \in Client |-> NoTask]
  /\ chit = [c \in Client |-> {}]
  /\ cmds = 0
  /\ faults = 0

Fault == faults < MaxFaults /\ faults' = faults + 1

\* A goroutine ends and its locals are gone.
CallEnds(c) ==
  /\ cpc' = [cpc EXCEPT ![c] = "idle"]
  /\ cop' = [cop EXCEPT ![c] = "sendNow"]
  /\ cbc' = [cbc EXCEPT ![c] = Draft]
  /\ csnap' = [csnap EXCEPT ![c] = NoTask]
  /\ chit' = [chit EXCEPT ![c] = {}]

ExecutionEnds(x) ==
  /\ pc' = [pc EXCEPT ![x] = "idle"]
  /\ pos' = [pos EXCEPT ![x] = Fresh]
  /\ out' = [out EXCEPT ![x] = "more"]
  /\ last' = [last EXCEPT ![x] = FALSE]

-----------------------------------------------------------------------------
(* Service calls: ScheduleBroadcast, PauseBroadcast, ResumeBroadcast and   *)
(* CancelBroadcast.                                                        *)

\* The status switch at the head of each call.
Allowed(op, status) ==
  CASE op \in {"sendNow", "sendLater"} -> status = "draft"
    [] op = "pause"  -> status \in {"processing", "processed"}
    [] op = "resume" -> status = "paused"
    [] op = "cancel" -> status \in {"scheduled", "paused", "processing", "processed"}

\* The status each call writes; a resume goes back to processed when the
\* orchestrator had finished.  Its way back to scheduled is not taken: a
\* broadcast nobody edits is paused only once started or when its time has come.
Target(op, copy) ==
  CASE op = "sendNow"   -> "processing"
    [] op = "sendLater" -> "scheduled"
    [] op = "pause"     -> "paused"
    [] op = "resume"    -> IF copy.done THEN "processed" ELSE "processing"
    [] op = "cancel"    -> "cancelled"

Busy(c) == cpc[c] \in {"locked", "handled"}

\* No transaction holds the row lock of the broadcast.
Unlocked == \A c \in Client : ~Busy(c)

\* GetBroadcastTx reads without FOR UPDATE.
Check(c, op) ==
  /\ cpc[c] = "idle"
  /\ cmds < MaxCommands
  /\ Allowed(op, bc.status)
  /\ cmds' = cmds + 1
  /\ cop' = [cop EXCEPT ![c] = op]
  /\ cbc' = [cbc EXCEPT ![c] = bc]
  /\ cpc' = [cpc EXCEPT ![c] = "checked"]
  /\ UNCHANGED <<bc, task, rowVars, enq, dropped, execVars, csnap, chit, faults>>

\* UpdateBroadcastTx refuses a terminal broadcast.
Updatable == bc.status \notin {"cancelled", "processed"}

\* The queue rows each call updates: PauseBySourceTx, ResumeBySourceTx,
\* DeleteBySourceTx.
Hit(op) ==
  CASE op = "pause"  -> live
    [] op = "resume" -> paused
    [] op = "cancel" -> live \cup paused
    [] OTHER         -> {}

\* The UPDATE of the broadcast and of the queue rows, and the first read of
\* the event handler (GetTaskByBroadcastID, a transaction of its own).
Lock(c) ==
  /\ cpc[c] = "checked"
  /\ Unlocked
  /\ \/ /\ cop[c] \in {"pause", "resume", "cancel"} \/ Updatable
        /\ csnap' = [csnap EXCEPT ![c] = task]
        /\ chit' = [chit EXCEPT ![c] = Hit(cop[c])]
        /\ cpc' = [cpc EXCEPT ![c] = "locked"]
        /\ UNCHANGED <<cop, cbc>>
     \/ cop[c] \in {"sendNow", "sendLater"} /\ ~Updatable /\ CallEnds(c)
  /\ UNCHANGED <<bc, task, rowVars, enq, dropped, execVars, cmds, faults>>

\* Seeded fault: no task for a broadcast scheduled for later.
HandleScheduledNow(snap, now) ==
  IF Exists(snap)
  THEN IF now THEN Update(task, [snap EXCEPT !.status = "pending", !.next = "due"]) ELSE task
  ELSE IF Exists(task) \/ ~now THEN task ELSE Create("null")

\* handleBroadcastScheduled: the unique index on (workspace, broadcast)
\* refuses a second task.
HandleScheduled(snap, now) ==
  IF Exists(snap)
  THEN IF now THEN Update(task, [snap EXCEPT !.status = "pending", !.next = "due"]) ELSE task
  ELSE IF Exists(task) THEN task ELSE Create(IF now THEN "null" ELSE "wait")

\* The three handlers leave a task alone that was completed when they read it.
LeaveAlone(snap) == ~Exists(snap) \/ snap.status = "completed"

\* Seeded fault: the handler stores a finished state.
HandlePausedAtEnd(snap) == IF LeaveAlone(snap) THEN task ELSE MarkAsPaused(task, Total)

HandlePaused(snap) == IF LeaveAlone(snap) THEN task ELSE MarkAsPaused(task, snap.cursor)

\* TaskRepository.Update writes every column of the handler's copy.
HandleResumed(snap) ==
  IF LeaveAlone(snap) THEN task
  ELSE Update(task, [snap EXCEPT !.status = "pending", !.next = "due"])

HandleCancelled(snap) == IF LeaveAlone(snap) THEN task ELSE MarkAsFailed(task)

Handler(op, snap) ==
  CASE op = "sendNow"   -> HandleScheduled(snap, TRUE)
    [] op = "sendLater" -> HandleScheduled(snap, FALSE)
    [] op = "pause"     -> HandlePaused(snap)
    [] op = "resume"    -> HandleResumed(snap)
    [] op = "cancel"    -> HandleCancelled(snap)

\* The handler's write, whose error is logged and not reported; a call then
\* goes on to its commit, an event goroutine ends.
Handle(c) ==
  /\ cpc[c] \in {"locked", "eventRead"}
  /\ \/ task' = Handler(cop[c], csnap[c]) /\ UNCHANGED faults
     \/ HandlerFails /\ Fault /\ UNCHANGED task
  /\ IF cpc[c] = "locked"
     THEN cpc' = [cpc EXCEPT ![c] = "handled"] /\ UNCHANGED <<cop, cbc, csnap, chit>>
     ELSE CallEnds(c)
  /\ UNCHANGED <<bc, rowVars, enq, dropped, execVars, cmds>>

\* UpdateBroadcastStatusTx also writes completed_at from the call's copy.
Commit(c) ==
  /\ cpc[c] = "handled"
  /\ bc' = [status |-> Target(cop[c], cbc[c]), done |-> cbc[c].done]
  /\ CASE cop[c] = "pause"  -> live' = live \ chit[c] /\ paused' = paused \cup (chit[c] \cap live)
       [] cop[c] = "resume" -> live' = live \cup (chit[c] \cap paused) /\ paused' = paused \ chit[c]
       [] cop[c] = "cancel" -> live' = live \ chit[c] /\ paused' = paused \ chit[c]
       [] OTHER -> UNCHANGED rowVars
  /\ CallEnds(c)
  /\ UNCHANGED <<task, enq, dropped, execVars, cmds, faults>>

\* The acknowledgement times out, the caller goes away, the commit fails or
\* the process dies: the workspace transaction is undone, the handler's
\* write stays or is still on its way; an event goroutine is gone with its
\* event.
Rollback(c) ==
  /\ cpc[c] # "idle"
  /\ Fault
  /\ \/ CallEnds(c)
     \/ /\ cpc[c] = "locked"
        /\ cpc' = [cpc EXCEPT ![c] = "eventRead"]
        /\ chit' = [chit EXCEPT ![c] = {}]
        /\ UNCHANGED <<cop, cbc, csnap>>
  /\ UNCHANGED <<bc, task, rowVars, enq, dropped, execVars, cmds>>

\* Publish without acknowledgement: the handler runs in a goroutine.
ReadEvent(c) ==
  /\ cpc[c] = "event"
  /\ csnap' = [csnap EXCEPT ![c] = task]
  /\ cpc' = [cpc EXCEPT ![c] = "eventRead"]
  /\ UNCHANGED <<bc, task, rowVars, enq, dropped, execVars, cop, cbc, chit, cmds, faults>>

-----------------------------------------------------------------------------
(* Dispatch and ExecuteTask.                                               *)

Goto(x, where) == pc' = [pc EXCEPT ![x] = where]

\* ExecutePendingTasks: GetNextBatch returns the task and a request for it
\* is on its way; the row is not locked meanwhile.
Dispatch(x) ==
  /\ pc[x] = "idle"
  /\ Dispatchable(task)
  /\ task.retries <= MaxRetryCount
  /\ Goto(x, "dispatched")
  /\ UNCHANGED <<bc, task, rowVars, enq, dropped, pos, out, last, clientVars, cmds, faults>>

\* The first transaction of ExecuteTask: GetTx and MarkAsRunningTx; 409 when
\* the task is not there to be run.
Claim(x) ==
  /\ pc[x] = "dispatched"
  /\ \/ /\ Runnable(task)
        /\ task' = MarkAsRunning(task)
        /\ pos' = [pos EXCEPT ![x] = task.cursor]
        /\ last' = [last EXCEPT ![x] = task.retries >= MaxRetries - 1]
        /\ Goto(x, IF task.cursor = Fresh THEN "count" ELSE "loop")
        /\ UNCHANGED out
     \/ ~Runnable(task) /\ ExecutionEnds(x) /\ UNCHANGED task
  /\ UNCHANGED <<bc, rowVars, enq, dropped, clientVars, cmds, faults>>

Return(x, result) == out' = [out EXCEPT ![x] = result] /\ Goto(x, "finish")

\* The first execution counts the audience and returns.
Count(x) ==
  /\ pc[x] = "count"
  /\ pos' = [pos EXCEPT ![x] = 0]
  /\ Return(x, "more")
  /\ UNCHANGED <<bc, task, rowVars, enq, dropped, last, clientVars, cmds, faults>>

\* The head of Process's loop: look at the broadcast again, or go on without
\* when it cannot be read.
Refresh(x) ==
  /\ pc[x] = "loop"
  /\ \/ bc.status = "cancelled" /\ out' = [out EXCEPT ![x] = "done"] /\ Goto(x, "deleting")
        /\ UNCHANGED faults
     \/ bc.status = "paused" /\ out' = [out EXCEPT ![x] = "more"] /\ Goto(x, "pausing")
        /\ UNCHANGED faults
     \/ bc.status \notin {"cancelled", "paused"} /\ Goto(x, "ready") /\ UNCHANGED <<out, faults>>
     \/ Fault /\ Goto(x, "ready") /\ UNCHANGED out
  /\ UNCHANGED <<bc, task, rowVars, enq, dropped, pos, last, clientVars, cmds>>

\* deleteQueueEntries; an error is only logged.
DeleteQueueEntries(x) ==
  /\ pc[x] = "deleting"
  /\ \/ live' = {} /\ paused' = {} /\ UNCHANGED faults
     \/ Fault /\ UNCHANGED rowVars
  /\ Goto(x, "finish")
  /\ UNCHANGED <<bc, task, enq, dropped, pos, out, last, clientVars, cmds>>

\* pauseQueueEntries, after a look at the broadcast that may be out of date
\* by now and whose error is only logged; after a feed failure the paused
\* event is published too.
PauseQueueEntries(x) ==
  /\ pc[x] = "pausing"
  /\ \/ live' = {} /\ paused' = paused \cup live /\ UNCHANGED faults
     \/ Fault /\ UNCHANGED rowVars
  /\ Goto(x, "finish")
  /\ IF out[x] = "error"
     THEN \E c \in Client :
            /\ cpc[c] = "idle"
            /\ cpc' = [cpc EXCEPT ![c] = "event"]
            /\ cop' = [cop EXCEPT ![c] = "pause"]
            /\ UNCHANGED <<cbc, csnap, chit>>
     ELSE UNCHANGED clientVars
  /\ UNCHANGED <<bc, task, enq, dropped, pos, out, last, cmds>>

\* timeoutAt has passed.
Yield(x) ==
  /\ pc[x] = "ready"
  /\ Return(x, "more")
  /\ UNCHANGED <<bc, task, rowVars, enq, dropped, pos, last, clientVars, cmds, faults>>

\* FetchBatch looks at the broadcast once more.
FetchBatch(x) ==
  /\ pc[x] = "ready"
  /\ pos[x] < Total
  /\ \/ bc.status = "cancelled" /\ Return(x, "done")
     \/ bc.status # "cancelled" /\ Goto(x, "fetched") /\ UNCHANGED out
  /\ UNCHANGED <<bc, task, rowVars, enq, dropped, pos, last, clientVars, cmds, faults>>

\* SendBatch: the whole batch in one Enqueue.
SendBatch(x) ==
  LET b == pos[x] + 1 IN
  /\ pc[x] = "fetched"
  /\ enq[b] < MaxCopies
  /\ enq' = [enq EXCEPT ![b] = @ + 1]
  /\ live' = live \cup {<<b, enq[b] + 1>>}
  /\ Goto(x, "sent")
  /\ UNCHANGED <<bc, task, paused, dropped, pos, out, last, clientVars, cmds, faults>>

\* SendBatch is out of time before its first entry: nothing is enqueued and
\* the cursor stays.
OutOfTime(x) ==
  /\ pc[x] = "fetched"
  /\ Goto(x, "loop")
  /\ UNCHANGED <<bc, task, rowVars, enq, dropped, pos, out, last, clientVars, cmds, faults>>

\* SendBatch returns an error other than a pause: the batch is counted as
\* failed and the loop goes on behind it.
SendBatchFails(x) ==
  /\ pc[x] = "fetched"
  /\ Fault
  /\ dropped' = dropped \cup {pos[x] + 1}
  /\ Goto(x, "sent")
  /\ UNCHANGED <<bc, task, rowVars, enq, pos, out, last, clientVars, cmds>>

\* ErrBroadcastShouldPause: Process pauses the broadcast itself, if
\* UpdateBroadcast lets it, and returns the error.
FeedFails(x) ==
  /\ pc[x] = "fetched"
  /\ Unlocked
  /\ cmds < MaxCommands
  /\ cmds' = cmds + 1
  /\ out' = [out EXCEPT ![x] = "error"]
  /\ \/ Updatable /\ bc' = [bc EXCEPT !.status = "paused"] /\ Goto(x, "pausing") /\ UNCHANGED faults
     \/ ~Updatable /\ Goto(x, "finish") /\ UNCHANGED <<bc, faults>>
     \/ Fault /\ Goto(x, "finish") /\ UNCHANGED bc
  /\ UNCHANGED <<task, rowVars, enq, dropped, pos, last, clientVars>>

\* Seeded fault: the recipients of a failed batch are counted twice.
AdvanceFailedTwice(x) ==
  LET n == pos[x] + IF pos[x] + 1 \in dropped THEN 2 ELSE 1 IN
  /\ pc[x] = "sent"
  /\ pos' = [pos EXCEPT ![x] = n]
  /\ Goto(x, "loop")
  /\ task' = SaveState(task, n)
  /\ UNCHANGED <<bc, rowVars, enq, dropped, out, last, clientVars, cmds, faults>>

\* Seeded fault: the cursor stays where it was.
AdvanceStuck(x) ==
  /\ pc[x] = "sent"
  /\ Goto(x, "loop")
  /\ task' = SaveState(task, pos[x])
  /\ UNCHANGED <<bc, rowVars, enq, dropped, pos, out, last, clientVars, cmds, faults>>

\* Counters, cursor and SaveProgressState; a failed save is only logged.
Advance(x) ==
  /\ pc[x] = "sent"
  /\ pos' = [pos EXCEPT ![x] = @ + 1]
  /\ Goto(x, "loop")
  /\ \/ task' = SaveState(task, pos[x] + 1) /\ UNCHANGED faults
     \/ Fault /\ UNCHANGED task
  /\ UNCHANGED <<bc, rowVars, enq, dropped, out, last, clientVars, cmds>>

AllDone(x) ==
  /\ pc[x] = "ready"
  /\ pos[x] = Total
  /\ Goto(x, "completing")
  /\ UNCHANGED <<bc, task, rowVars, enq, dropped, pos, out, last, clientVars, cmds, faults>>

\* Process is about to return an error; its deferred function marks the
\* broadcast failed on what it takes for the last retry.
Failing(x) == out' = [out EXCEPT ![x] = "error"] /\ Goto(x, IF last[x] THEN "failing" ELSE "finish")

\* Seeded fault: the audience need not be finished.
CompleteEarly(x) ==
  /\ pc[x] \in {"ready", "completing"}
  /\ Unlocked
  /\ bc' = [status |-> "processed", done |-> TRUE]
  /\ Return(x, "done")
  /\ UNCHANGED <<task, rowVars, enq, dropped, pos, last, clientVars, cmds, faults>>

\* The final UpdateBroadcast, from the copy of the last Refresh.
Complete(x) ==
  /\ pc[x] = "completing"
  /\ Unlocked
  /\ \/ Updatable /\ bc' = [status |-> "processed", done |-> TRUE] /\ Return(x, "done")
     \/ ~Updatable /\ Failing(x) /\ UNCHANGED bc
  /\ UNCHANGED <<task, rowVars, enq, dropped, pos, last, clientVars, cmds, faults>>

\* Any other error of Process: workspace, provider, templates, audience, the
\* final UpdateBroadcast.
ProcessFails(x) ==
  /\ pc[x] \in {"count", "loop", "ready", "completing"}
  /\ Fault
  /\ Failing(x)
  /\ UNCHANGED <<bc, task, rowVars, enq, dropped, pos, last, clientVars, cmds>>

MarkBroadcastFailed(x) ==
  /\ pc[x] = "failing"
  /\ Unlocked
  /\ \/ bc' = [bc EXCEPT !.status = IF Updatable THEN "failed" ELSE @] /\ UNCHANGED faults
     \/ Fault /\ UNCHANGED bc
  /\ Goto(x, "finish")
  /\ UNCHANGED <<task, rowVars, enq, dropped, pos, out, last, clientVars, cmds>>

\* The select of ExecuteTask: one statement with no condition on the row.
Finish(x) ==
  /\ pc[x] = "finish"
  /\ task' = CASE out[x] = "done"  -> MarkAsCompleted(task, pos[x])
               [] out[x] = "more"  -> MarkAsPending(task, "due", pos[x])
               [] out[x] = "error" -> MarkAsFailed(task)
  /\ ExecutionEnds(x)
  /\ UNCHANGED <<bc, rowVars, enq, dropped, clientVars, cmds, faults>>

\* The request is lost or the process dies.
Crash(x) ==
  /\ pc[x] # "idle"
  /\ Fault
  /\ ExecutionEnds(x)
  /\ UNCHANGED <<bc, task, rowVars, enq, dropped, clientVars, cmds>>

Active(x) == pc[x] \notin {"idle", "dispatched"}

-----------------------------------------------------------------------------
(* Time.                                                                   *)

NextRunComes ==
  /\ task.next = "wait"
  /\ task' = [task EXCEPT !.next = "due"]
  /\ UNCHANGED <<bc, rowVars, enq, dropped, execVars, clientVars, cmds, faults>>

\* Process checks timeoutAt between batches and records its outcome after
\* that, so with Overruns the timeout may pass under a live execution.
TimeoutPasses ==
  /\ task.timeout = "armed"
  /\ Overruns \/ \A x \in Executor : ~Active(x)
  /\ task' = [task EXCEPT !.timeout = "expired"]
  /\ UNCHANGED <<bc, rowVars, enq, dropped, execVars, clientVars, cmds, faults>>

-----------------------------------------------------------------------------
\* Steps that a running process takes by itself.
Progress(x) ==
  \/ Claim(x) \/ Count(x) \/ Refresh(x) \/ DeleteQueueEntries(x) \/ PauseQueueEntries(x)
  \/ Yield(x) \/ FetchBatch(x) \/ SendBatch(x) \/ OutOfTime(x) \/ Advance(x) \/ AllDone(x) \/ Complete(x)
  \/ MarkBroadcastFailed(x) \/ Finish(x)

Mishap(x) == SendBatchFails(x) \/ FeedFails(x) \/ ProcessFails(x) \/ Crash(x)

CallStep(c) == Lock(c) \/ Handle(c) \/ Commit(c) \/ ReadEvent(c)

Next ==
  \/ \E x \in Executor : Dispatch(x) \/ Progress(x) \/ Mishap(x)
  \/ \E c \in Client : (\E op \in Op : Check(c, op)) \/ CallStep(c) \/ Rollback(c)
  \/ NextRunComes \/ TimeoutPasses

Spec == Init /\ [][Next]_vars

\* The scheduler keeps ticking, executions and calls go on, time passes, and
\* not every execution finds its 50 seconds over before its first batch.
Fairness ==
  /\ \A x \in Executor :
       /\ WF_vars(Dispatch(x)) /\ WF_vars(Progress(x))
       /\ SF_vars(FetchBatch(x)) /\ SF_vars(SendBatch(x)) /\ SF_vars(AllDone(x))
  /\ \A c \in Client : WF_vars(CallStep(c))
  /\ WF_vars(NextRunComes) /\ WF_vars(TimeoutPasses)

FairSpec == Spec /\ Fairness
-----------------------------------------------------------------------------
(* Properties.                                                             *)

Handled(b) == enq[b] > 0 \/ b \in dropped

\* A broadcast marked processed has had every batch of its audience enqueued
\* or counted as failed, whatever crashes, stale handler copies, pauses and
\* overlapping executions came before (the cursor of Process, SaveState and
\* the handlers' copies of the task state never get ahead of the queue).
AudienceCovered ==
  bc.status = "processed" => \A b \in Batch : Handled(b)

\* The cursor stored in the tasks row never points past a batch that nobody
\* handled: a resumed or retried task skips nobody.
CursorSound == \A b \in Batch : b <= task.cursor => Handled(b)

\* One execution at a time (MarkAsRunningTx, GetNextBatch).
AtMostOneRunner ==
  \A x, y \in Executor : Active(x) /\ Active(y) => x = y

\* A batch is enqueued a second time only after a crash or a failed save.
EnqueuedOncePerFault == \A b \in Batch : enq[b] <= 1 + faults

\* Nothing of a cancelled broadcast is left in the queue once its task is
\* over: a batch enqueued behind DeleteBySourceTx is deleted by the
\* deleteQueueEntries of the execution that sees the cancellation.
CancelEmptiesQueue ==
  /\ bc.status = "cancelled"
  /\ task.status \in {"completed", "failed"}
  /\ \A x \in Executor : ~Active(x)
  /\ faults = 0
  => live \cup paused = {}

\* While the broadcast is not paused and nobody is at work on it, no queue
\* row of it is paused: ResumeBySource has given the workers everything back.
NoStrandedPause ==
  /\ bc.status \in {"processing", "processed"}
  /\ \A x \in Executor : ~Active(x)
  /\ \A c \in Client : cpc[c] \in {"idle", "checked"}
  => paused = {}

\* A completed task stays completed: it is not run again.
CompletedIsFinal ==
  [][task.status = "completed" => task'.status = "completed"]_vars

\* A broadcast reported failed is enqueued no further.
FailedIsFinal ==
  [][bc.status = "failed" => enq' = enq]_vars

\* A cancelled broadcast stays cancelled.
CancelIsFinal ==
  [][bc.status = "cancelled" => bc'.status = "cancelled"]_vars

\* Nothing is enqueued for a broadcast that is still a draft: a schedule call
\* that was rolled back leaves nothing behind.
DraftIsNotSent ==
  bc.status = "draft" /\ Unlocked => \A b \in Batch : enq[b] = 0

\* A broadcast that ScheduleBroadcast made scheduled or sending has a task:
\* the call commits only behind its handler (PublishWithAck).
SendingHasTask ==
  bc.status \in {"scheduled", "processing"} => Exists(task)

\* A task that nobody interfered with fails for good only after max_retries
\* + 1 failed executions, unless its broadcast is already processed (the
\* crash between Complete and Finish: UpdateBroadcast then refuses every
\* further execution).
RetriesAreUsed ==
  task.status = "failed" /\ cmds = 1 /\ ~bc.done => faults >= MaxRetries + 1

\* A scheduled broadcast reaches an end by itself unless its users pause it.
BroadcastSettles ==
  (bc.status \in {"processing", "scheduled"})
    ~> (bc.status \in {"processed", "cancelled", "paused", "failed"} \/ task.status = "failed")

\* The inductive strengthening of AudienceCovered and CursorSound: no copy of
\* the task state, in the row, in an execution or in a handler, is ahead of
\* the queue, and no copy of the broadcast claims a completion that was not.
Covered == \A b \in Batch : Handled(b)

StateSound(cursor) ==
  /\ cursor \in Fresh .. Total
  /\ \A b \in Batch : b <= cursor => Handled(b)

ExecInv(x) ==
  /\ StateSound(pos[x])
  /\ pc[x] \in {"loop", "ready", "fetched", "sent"} => pos[x] >= 0
  /\ pc[x] \in {"fetched", "sent"} => pos[x] < Total
  /\ pc[x] = "sent" => Handled(pos[x] + 1)
  /\ pc[x] = "completing" => pos[x] = Total

ClientInv(c) ==
  /\ StateSound(csnap[c].cursor)
  /\ cbc[c].done => Covered

IInv ==
  /\ TypeOK
  /\ StateSound(task.cursor)
  /\ \A x \in Executor : ExecInv(x)
  /\ \A c \in Client : ClientInv(c)
  /\ bc.done => Covered
  /\ bc.status = "processed" => bc.done
===============================================================================
