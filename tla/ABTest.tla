------------------------------- MODULE ABTest --------------------------------
(***************************************************************************)
(* One A/B test broadcast from the start of its sending to its end: the    *)
(* phases of BroadcastOrchestrator.Process                                 *)
(* (internal/service/broadcast/orchestrator.go), the automatic choice of   *)
(* the winner (ab_test_evaluator.go) and BroadcastService.SelectWinner     *)
(* (internal/service/broadcast_service.go).                                *)
(*                                                                         *)
(* The first Sample recipients get a variation at random; the others wait  *)
(* for a winner.  The broadcast row says how far the test is (status,      *)
(* winning_template, test_sent_at); the task's state says in which phase   *)
(* and at which recipient an execution goes on.  The two are in different  *)
(* databases, both are written whole from copies read earlier, and the     *)
(* templates an execution sends are loaded once at its start.              *)
(*                                                                         *)
(* Pauses and cancellations, which the service allows only before the test *)
(* begins and after the broadcast is processed, are in BroadcastTask.      *)
(***************************************************************************)
EXTENDS TaskTable

CONSTANTS
  Executor,     \* goroutines that serve /api/tasks.execute for this task
  User,         \* concurrent SelectWinner calls
  Template,     \* the template of each variation
  None,         \* winning_template null
  Total,        \* recipients
  Percentage,   \* SamplePercentage
  BatchSize,    \* FetchBatchSize
  MaxPicks,     \* bound on SelectWinner calls
  MaxFaults     \* bound on crashes and database failures

ASSUME ABTestAssumption ==
  /\ None \notin Template
  /\ Total \in Nat \ {0}
  /\ Percentage \in 1 .. 100
  /\ BatchSize \in Nat \ {0}
  /\ MaxPicks \in Nat
  /\ MaxFaults \in Nat

Recipient == 1 .. Total

\* testRecipientCount: rounded down, one at least.
Sample == IF (Total * Percentage) \div 100 < 1 THEN 1 ELSE (Total * Percentage) \div 100

VARIABLES
  auto,      \* test_settings.auto_send_winner
  bc,        \* broadcasts row: status, winning_template, test_sent_at
  task,      \* tasks row; its state is the phase and RecipientOffset
  sent,      \* templates enqueued for each recipient
  dropped,   \* recipients counted as failed
  pc,        \* where ExecuteTask / Process is
  copy,      \* Process's copy of the broadcast
  st,        \* its task.State
  tmpl,      \* the templates it loaded
  out,       \* what it returned
  last,      \* isLastRetry
  upc,       \* where the SelectWinner call is
  ucopy,     \* its copy of the broadcast
  usnap,     \* its copy of the task
  upick,     \* its winner
  picks,     \* SelectWinner calls so far
  chosen,    \* every template that was made the winner
  faults     \* faults injected

execVars == <<pc, copy, st, tmpl, out, last>>
userVars == <<upc, ucopy, usnap, upick>>
vars == <<auto, bc, task, sent, dropped, execVars, userVars, picks, chosen, faults>>

Status == {"processing", "testing", "test_completed", "winner_selected", "processed", "failed"}

\* Of test_sent_at: null, less or more than TestDurationHours ago.
Broadcast == [status : Status, winner : Template \cup {None}, sentAt : {"null", "recent", "ripe"}]
State == [phase : {"unset", "test", "winner"}, offset : Fresh .. Total]
ABTask == [status : TaskStatus, next : {"null", "wait", "due"}, timeout : {"null", "armed", "expired"},
           retries : Nat, cursor : State]
ExecPC == {"idle", "dispatched", "count", "read", "evaluate", "elected", "reread", "begin", "load",
           "loop", "ready", "sent", "testDone", "completing", "failing", "finish"}

TypeOK ==
  /\ auto \in BOOLEAN
  /\ bc \in Broadcast
  /\ task \in ABTask
  /\ sent \in [Recipient -> SUBSET Template]
  /\ dropped \subseteq Recipient
  /\ pc \in [Executor -> ExecPC]
  /\ copy \in [Executor -> Broadcast]
  /\ st \in [Executor -> State]
  /\ tmpl \in [Executor -> SUBSET Template]
  /\ out \in [Executor -> {"done", "more", "error"}]
  /\ last \in [Executor -> BOOLEAN]
  /\ upc \in [User -> {"idle", "chosen", "locked", "handled"}]
  /\ ucopy \in [User -> Broadcast]
  /\ usnap \in [User -> ABTask]
  /\ upick \in [User -> Template \cup {None}]
  /\ picks \in Nat
  /\ chosen \subseteq Template
  /\ faults \in Nat

\* The row ScheduleBroadcast leaves, and the task state its handler creates:
\* no phase yet, the audience not yet counted.
Started == [status |-> "processing", winner |-> None, sentAt |-> "null"]
NoState == [phase |-> "unset", offset |-> Fresh]
NewTask == [Create("null") EXCEPT !.cursor = NoState]

Init ==
  /\ auto \in BOOLEAN
  /\ bc = Started
  /\ task = NewTask
  /\ sent = [r \in Recipient |-> {}]
  /\ dropped = {}
  /\ pc = [x \in Executor |-> "idle"]
  /\ copy = [x \in Executor |-> Started]
  /\ st = [x \in Executor |-> NoState]
  /\ tmpl = [x \in Executor |-> {}]
  /\ out = [x \in Executor |-> "more"]
  /\ last = [x \in Executor |-> FALSE]
  /\ upc = [u \in User |-> "idle"]
  /\ ucopy = [u \in User |-> Started]
  /\ usnap = [u \in User |-> NewTask]
  /\ upick = [u \in User |-> None]
  /\ picks = 0
  /\ chosen = {}
  /\ faults = 0

Fault == faults < MaxFaults /\ faults' = faults + 1

\* The test has a winner, as far as this copy of the broadcast tells.
Won(c) == c.winner # None \/ c.status = "winner_selected"

WithWinner(c, t) == [c EXCEPT !.status = "winner_selected", !.winner = t]

\* No SelectWinner transaction holds the row lock of the broadcast.
Unlocked == \A u \in User : upc[u] \notin {"locked", "handled"}

\* UpdateBroadcastTx refuses a terminal broadcast.
Updatable == bc.status # "processed"

-----------------------------------------------------------------------------
(* SelectWinner: the broadcast is read without a lock and updated; the     *)
(* task is read and updated in the other database; then the commit.        *)

Selectable(c) ==
  \/ c.status = "test_completed"
  \/ c.status \in {"testing", "processing"} /\ ~auto

CallEnds(u) ==
  /\ upc' = [upc EXCEPT ![u] = "idle"]
  /\ ucopy' = [ucopy EXCEPT ![u] = Started]
  /\ usnap' = [usnap EXCEPT ![u] = NewTask]
  /\ upick' = [upick EXCEPT ![u] = None]

SelectWinner(u, t) ==
  /\ upc[u] = "idle"
  /\ picks < MaxPicks
  /\ Selectable(bc)
  /\ picks' = picks + 1
  /\ upc' = [upc EXCEPT ![u] = "chosen"]
  /\ ucopy' = [ucopy EXCEPT ![u] = bc]
  /\ upick' = [upick EXCEPT ![u] = t]
  /\ UNCHANGED <<auto, bc, task, sent, dropped, execVars, usnap, chosen, faults>>

\* UpdateBroadcastTx, then GetTaskByBroadcastID; a task that cannot be read
\* is taken for absent.
LockBroadcast(u) ==
  /\ upc[u] = "chosen"
  /\ Unlocked
  /\ \/ /\ Updatable
        /\ upc' = [upc EXCEPT ![u] = "locked"]
        /\ usnap' = [usnap EXCEPT ![u] = task]
        /\ UNCHANGED <<ucopy, upick, faults>>
     \/ /\ Updatable /\ Fault
        /\ upc' = [upc EXCEPT ![u] = "handled"]
        /\ UNCHANGED <<ucopy, usnap, upick>>
     \/ ~Updatable /\ CallEnds(u) /\ UNCHANGED faults
  /\ UNCHANGED <<auto, bc, task, sent, dropped, execVars, picks, chosen>>

\* TaskRepository.Update writes every column of the call's copy, whether or
\* not the task is running.
ResumeTask(u) ==
  /\ upc[u] = "locked"
  /\ task' = Update(task, [usnap[u] EXCEPT !.status = "pending", !.next = "due"])
  /\ upc' = [upc EXCEPT ![u] = "handled"]
  /\ UNCHANGED <<auto, bc, sent, dropped, execVars, ucopy, usnap, upick, picks, chosen, faults>>

CommitWinner(u) ==
  /\ upc[u] = "handled"
  /\ bc' = WithWinner(ucopy[u], upick[u])
  /\ chosen' = chosen \cup {upick[u]}
  /\ CallEnds(u)
  /\ UNCHANGED <<auto, task, sent, dropped, execVars, picks, faults>>

\* A statement or the commit fails, or the process dies.
Rollback(u) ==
  /\ upc[u] # "idle"
  /\ Fault
  /\ CallEnds(u)
  /\ UNCHANGED <<auto, bc, task, sent, dropped, execVars, picks, chosen>>

-----------------------------------------------------------------------------
(* Dispatch, claim and the first execution, as in BroadcastTask.           *)

Goto(x, where) == pc' = [pc EXCEPT ![x] = where]

SetPhase(x, phase) == st' = [st EXCEPT ![x].phase = phase]

SetOffset(x, n) == st' = [st EXCEPT ![x].offset = n]

Return(x, result) == out' = [out EXCEPT ![x] = result] /\ Goto(x, "finish")

ExecutionEnds(x) ==
  /\ pc' = [pc EXCEPT ![x] = "idle"]
  /\ copy' = [copy EXCEPT ![x] = Started]
  /\ st' = [st EXCEPT ![x] = NoState]
  /\ tmpl' = [tmpl EXCEPT ![x] = {}]
  /\ out' = [out EXCEPT ![x] = "more"]
  /\ last' = [last EXCEPT ![x] = FALSE]

Dispatch(x) ==
  /\ pc[x] = "idle"
  /\ Dispatchable(task)
  /\ Goto(x, "dispatched")
  /\ UNCHANGED <<auto, bc, task, sent, dropped, copy, st, tmpl, out, last, userVars, picks, chosen, faults>>

Claim(x) ==
  /\ pc[x] = "dispatched"
  /\ \/ /\ Runnable(task)
        /\ task' = MarkAsRunning(task)
        /\ st' = [st EXCEPT ![x] = task.cursor]
        /\ last' = [last EXCEPT ![x] = task.retries >= MaxRetries - 1]
        /\ Goto(x, IF task.cursor.offset = Fresh THEN "count" ELSE "read")
        /\ UNCHANGED <<copy, tmpl, out>>
     \/ ~Runnable(task) /\ ExecutionEnds(x) /\ UNCHANGED task
  /\ UNCHANGED <<auto, bc, sent, dropped, userVars, picks, chosen, faults>>

Count(x) ==
  /\ pc[x] = "count"
  /\ SetOffset(x, 0)
  /\ Return(x, "more")
  /\ UNCHANGED <<auto, bc, task, sent, dropped, copy, tmpl, last, userVars, picks, chosen, faults>>

-----------------------------------------------------------------------------
(* Process: the automatic winner, the phase, the templates.                *)

\* shouldEvaluateWinner: TestDurationHours after test_sent_at.
ShouldEvaluate(c) == auto /\ c.sentAt = "ripe"

ReadBroadcast(x) ==
  /\ pc[x] = "read"
  /\ copy' = [copy EXCEPT ![x] = bc]
  /\ Goto(x, IF st[x].phase = "test" /\ bc.status = "test_completed" /\ ShouldEvaluate(bc)
             THEN "evaluate" ELSE "begin")
  /\ UNCHANGED <<auto, bc, task, sent, dropped, st, tmpl, out, last, userVars, picks, chosen, faults>>

\* EvaluateAndSelectWinner reads the broadcast once more; an error is only
\* logged.
Evaluate(x) ==
  /\ pc[x] = "evaluate"
  /\ \/ bc.status = "test_completed" /\ auto /\ Goto(x, "elected") /\ UNCHANGED faults
     \/ bc.status # "test_completed" /\ Goto(x, "reread") /\ UNCHANGED faults
     \/ Fault /\ Goto(x, "reread")
  /\ copy' = [copy EXCEPT ![x] = bc]
  /\ UNCHANGED <<auto, bc, task, sent, dropped, st, tmpl, out, last, userVars, picks, chosen>>

\* Seeded fault: the winner is stored and the phase left as it was.
ElectInRowOnly(x) ==
  /\ pc[x] = "elected"
  /\ Unlocked /\ Updatable
  /\ \E t \in Template :
       /\ bc' = WithWinner(copy[x], t)
       /\ chosen' = chosen \cup {t}
  /\ Goto(x, "reread")
  /\ UNCHANGED <<auto, task, sent, dropped, copy, st, tmpl, out, last, userVars, picks, faults>>

\* selectBestVariation over the message history (any variation may lead),
\* updateBroadcastWithWinner, and the phase of the state.
Elect(x) ==
  /\ pc[x] = "elected"
  /\ Unlocked
  /\ \/ /\ Updatable
        /\ \E t \in Template :
             /\ bc' = WithWinner(copy[x], t)
             /\ chosen' = chosen \cup {t}
        /\ SetPhase(x, "winner")
        /\ UNCHANGED faults
     \/ ~Updatable /\ UNCHANGED <<bc, chosen, st, faults>>
     \/ Fault /\ UNCHANGED <<bc, chosen, st>>
  /\ Goto(x, "reread")
  /\ UNCHANGED <<auto, task, sent, dropped, copy, tmpl, out, last, userVars, picks>>

Reread(x) ==
  /\ pc[x] = "reread"
  /\ copy' = [copy EXCEPT ![x] = bc]
  /\ Goto(x, "begin")
  /\ UNCHANGED <<auto, bc, task, sent, dropped, st, tmpl, out, last, userVars, picks, chosen, faults>>

\* A state without a phase gets one from the status; testing has none.
InitialPhase(c) ==
  CASE c.status = "processing" -> IF c.winner = None THEN "test" ELSE "winner"
    [] c.status = "winner_selected" -> "winner"
    [] OTHER -> "unset"

StartsTest(x) == st[x].phase = "unset" /\ InitialPhase(copy[x]) = "test"

\* The test phase is stored in the row, from the copy, before anything else.
BeginTest(x) ==
  /\ pc[x] = "begin"
  /\ StartsTest(x)
  /\ Unlocked
  /\ \/ /\ Updatable
        /\ bc' = [copy[x] EXCEPT !.status = "testing"]
        /\ copy' = [copy EXCEPT ![x].status = "testing"]
        /\ SetPhase(x, "test")
        /\ Goto(x, "load")
        /\ UNCHANGED <<out, faults>>
     \/ ~Updatable /\ Return(x, "error") /\ UNCHANGED <<bc, copy, st, faults>>
     \/ Fault /\ Return(x, "error") /\ UNCHANGED <<bc, copy, st>>
  /\ UNCHANGED <<auto, task, sent, dropped, tmpl, last, userVars, picks, chosen>>

Begin(x) ==
  /\ pc[x] = "begin"
  /\ ~StartsTest(x)
  /\ SetPhase(x, IF st[x].phase = "unset" THEN InitialPhase(copy[x]) ELSE st[x].phase)
  /\ Goto(x, "load")
  /\ UNCHANGED <<auto, bc, task, sent, dropped, copy, tmpl, out, last, userVars, picks, chosen, faults>>

\* The winner alone in the winner phase, every variation otherwise; only
\* then a test that is already won goes on to the winner phase.
LoadTemplates(x) ==
  /\ pc[x] = "load"
  /\ IF st[x].phase = "winner" /\ copy[x].winner = None
     THEN Return(x, "error") /\ UNCHANGED <<st, tmpl>>
     ELSE /\ tmpl' = [tmpl EXCEPT ![x] = IF st[x].phase = "winner" THEN {copy[x].winner} ELSE Template]
          /\ SetPhase(x, IF st[x].phase = "test" /\ Won(copy[x]) THEN "winner" ELSE st[x].phase)
          /\ Goto(x, "loop")
          /\ UNCHANGED out
  /\ UNCHANGED <<auto, bc, task, sent, dropped, copy, last, userVars, picks, chosen, faults>>

-----------------------------------------------------------------------------
(* Process: the loop over the recipients.                                  *)

\* recipientLimit.
Limit(x) == IF st[x].phase = "test" THEN Sample ELSE Total

\* The broadcast is looked at again, or the old copy kept when it cannot be
\* read; a winner ends the test phase.
Refresh(x) ==
  /\ pc[x] = "loop"
  /\ \/ /\ copy' = [copy EXCEPT ![x] = bc]
        /\ SetPhase(x, IF st[x].phase = "test" /\ Won(bc) THEN "winner" ELSE st[x].phase)
        /\ UNCHANGED faults
     \/ Fault /\ UNCHANGED <<copy, st>>
  /\ Goto(x, "ready")
  /\ UNCHANGED <<auto, bc, task, sent, dropped, tmpl, out, last, userVars, picks, chosen>>

\* timeoutAt has passed.
Yield(x) ==
  /\ pc[x] = "ready"
  /\ Return(x, "more")
  /\ UNCHANGED <<auto, bc, task, sent, dropped, copy, st, tmpl, last, userVars, picks, chosen, faults>>

\* The recipients FetchBatch returns behind the cursor.
NextBatch(x) ==
  st[x].offset + 1 .. IF st[x].offset + BatchSize < Limit(x) THEN st[x].offset + BatchSize ELSE Limit(x)

\* Seeded fault: the cursor moves behind the batch that was fetched, not
\* behind what was processed of it.
SendBatchWhole(x) ==
  LET first == st[x].offset + 1 IN
  /\ pc[x] = "ready"
  /\ st[x].offset < Limit(x)
  /\ \E end \in {st[x].offset} \cup NextBatch(x), pick \in [Recipient -> tmpl[x]] :
       sent' = [r \in Recipient |-> IF r \in first .. end THEN sent[r] \cup {pick[r]} ELSE sent[r]]
  /\ \E end \in NextBatch(x) :
       /\ \A r \in NextBatch(x) : r <= end
       /\ SetOffset(x, end)
  /\ Goto(x, "sent")
  /\ UNCHANGED <<auto, bc, task, dropped, copy, tmpl, out, last, userVars, picks, chosen, faults>>

\* SendBatch: each entry with one of the loaded templates (selectTemplate),
\* as many as the time allows, all in one Enqueue; the cursor moves behind
\* them.
SendBatch(x) ==
  LET first == st[x].offset + 1 IN
  /\ pc[x] = "ready"
  /\ st[x].offset < Limit(x)
  /\ \E end \in {st[x].offset} \cup NextBatch(x) :
       /\ \E pick \in [first .. end -> tmpl[x]] :
            sent' = [r \in Recipient |-> IF r \in first .. end THEN sent[r] \cup {pick[r]} ELSE sent[r]]
       /\ SetOffset(x, end)
  /\ Goto(x, "sent")
  /\ UNCHANGED <<auto, bc, task, dropped, copy, tmpl, out, last, userVars, picks, chosen, faults>>

\* The broadcast cannot be read or Enqueue fails: the batch counts as failed.
SendBatchFails(x) ==
  /\ pc[x] = "ready"
  /\ st[x].offset < Limit(x)
  /\ Fault
  /\ dropped' = dropped \cup NextBatch(x)
  /\ \E end \in NextBatch(x) :
       /\ \A r \in NextBatch(x) : r <= end
       /\ SetOffset(x, end)
  /\ Goto(x, "sent")
  /\ UNCHANGED <<auto, bc, task, sent, copy, tmpl, out, last, userVars, picks, chosen>>

\* SaveProgressState; a failed save is only logged.
SaveProgress(x) ==
  /\ pc[x] = "sent"
  /\ \/ task' = SaveState(task, st[x]) /\ UNCHANGED faults
     \/ Fault /\ UNCHANGED task
  /\ Goto(x, "loop")
  /\ UNCHANGED <<auto, bc, sent, dropped, copy, st, tmpl, out, last, userVars, picks, chosen>>

\* The first half of handleTestPhaseCompletion: a winner selected meanwhile
\* ends the execution in the winner phase; a row that cannot be read is
\* taken to have none.
TestDone(x) ==
  /\ pc[x] = "ready"
  /\ st[x].phase = "test" /\ st[x].offset >= Sample
  /\ \/ /\ Won(bc)
        /\ SetPhase(x, "winner")
        /\ Return(x, "more")
        /\ UNCHANGED faults
     \/ ~Won(bc) /\ Goto(x, "testDone") /\ UNCHANGED <<st, out, faults>>
     \/ Fault /\ Goto(x, "testDone") /\ UNCHANGED <<st, out>>
  /\ UNCHANGED <<auto, bc, task, sent, dropped, copy, tmpl, last, userVars, picks, chosen>>

TestSent(c) == [c EXCEPT !.status = "test_completed", !.sentAt = IF @ = "null" THEN "recent" ELSE @]

\* Seeded fault: test_sent_at is not stored.
MarkTestCompletedUndated(x) ==
  /\ pc[x] = "testDone"
  /\ Unlocked
  /\ bc' = IF Updatable THEN [copy[x] EXCEPT !.status = "test_completed"] ELSE bc
  /\ Return(x, "more")
  /\ UNCHANGED <<auto, task, sent, dropped, copy, st, tmpl, last, userVars, picks, chosen, faults>>

\* The second half: the whole row is written from the copy of the last
\* Refresh; an error is only logged.
MarkTestCompleted(x) ==
  /\ pc[x] = "testDone"
  /\ Unlocked
  /\ \/ /\ bc' = IF Updatable
                 THEN TestSent(copy[x])
                 ELSE bc
        /\ UNCHANGED faults
     \/ Fault /\ UNCHANGED bc
  /\ Return(x, "more")
  /\ UNCHANGED <<auto, task, sent, dropped, copy, st, tmpl, last, userVars, picks, chosen>>

AllDone(x) ==
  /\ pc[x] = "ready"
  /\ st[x].phase # "test" /\ st[x].offset >= Total
  /\ Goto(x, "completing")
  /\ UNCHANGED <<auto, bc, task, sent, dropped, copy, st, tmpl, out, last, userVars, picks, chosen, faults>>

\* An error that the deferred function of Process sees: on what it takes for
\* the last retry it marks the broadcast failed.
Failing(x) == out' = [out EXCEPT ![x] = "error"] /\ Goto(x, IF last[x] THEN "failing" ELSE "finish")

\* The final UpdateBroadcast; a state without a phase changes no status.
Complete(x) ==
  /\ pc[x] = "completing"
  /\ Unlocked
  /\ \/ /\ Updatable
        /\ bc' = [copy[x] EXCEPT !.status = IF st[x].phase = "winner" THEN "processed" ELSE @]
        /\ Return(x, "done")
     \/ ~Updatable /\ Failing(x) /\ UNCHANGED bc
  /\ UNCHANGED <<auto, task, sent, dropped, copy, st, tmpl, last, userVars, picks, chosen, faults>>

\* Workspace, provider, audience, broadcast or templates cannot be read, or
\* the final update fails.
ProcessFails(x) ==
  /\ pc[x] \in {"count", "read", "reread", "load", "ready", "completing"}
  /\ Fault
  /\ Failing(x)
  /\ UNCHANGED <<auto, bc, task, sent, dropped, copy, st, tmpl, last, userVars, picks, chosen>>

MarkBroadcastFailed(x) ==
  /\ pc[x] = "failing"
  /\ Unlocked
  /\ \/ bc' = [bc EXCEPT !.status = IF Updatable THEN "failed" ELSE @] /\ UNCHANGED faults
     \/ Fault /\ UNCHANGED bc
  /\ Goto(x, "finish")
  /\ UNCHANGED <<auto, task, sent, dropped, copy, st, tmpl, out, last, userVars, picks, chosen>>

\* The select of ExecuteTask.
Finish(x) ==
  /\ pc[x] = "finish"
  /\ task' = CASE out[x] = "done"  -> MarkAsCompleted(task, st[x])
               [] out[x] = "more"  -> MarkAsPending(task, "due", st[x])
               [] out[x] = "error" -> MarkAsFailed(task)
  /\ ExecutionEnds(x)
  /\ UNCHANGED <<auto, bc, sent, dropped, userVars, picks, chosen, faults>>

\* The request is lost or the process dies.
Crash(x) ==
  /\ pc[x] # "idle"
  /\ Fault
  /\ ExecutionEnds(x)
  /\ UNCHANGED <<auto, bc, task, sent, dropped, userVars, picks, chosen>>

Active(x) == pc[x] \notin {"idle", "dispatched"}

-----------------------------------------------------------------------------
(* Time.                                                                   *)

NextRunComes ==
  /\ task.next = "wait"
  /\ task' = [task EXCEPT !.next = "due"]
  /\ UNCHANGED <<auto, bc, sent, dropped, execVars, userVars, picks, chosen, faults>>

\* An execution records its outcome before its timeout.
TimeoutPasses ==
  /\ task.timeout = "armed"
  /\ \A x \in Executor : ~Active(x)
  /\ task' = [task EXCEPT !.timeout = "expired"]
  /\ UNCHANGED <<auto, bc, sent, dropped, execVars, userVars, picks, chosen, faults>>

\* The hours of the test: the row and the copies of it grow old together.
TestRipens ==
  LET Older(c) == [c EXCEPT !.sentAt = IF @ = "recent" THEN "ripe" ELSE @] IN
  /\ bc.sentAt = "recent"
  /\ bc' = Older(bc)
  /\ copy' = [x \in Executor |-> Older(copy[x])]
  /\ ucopy' = [u \in User |-> Older(ucopy[u])]
  /\ UNCHANGED <<auto, task, sent, dropped, pc, st, tmpl, out, last, upc, usnap, upick, picks, chosen, faults>>

-----------------------------------------------------------------------------
Progress(x) ==
  \/ Claim(x) \/ Count(x) \/ ReadBroadcast(x) \/ Evaluate(x) \/ Elect(x) \/ Reread(x)
  \/ BeginTest(x) \/ Begin(x) \/ LoadTemplates(x) \/ Refresh(x) \/ Yield(x) \/ SendBatch(x)
  \/ SaveProgress(x) \/ TestDone(x) \/ MarkTestCompleted(x) \/ AllDone(x) \/ Complete(x)
  \/ MarkBroadcastFailed(x) \/ Finish(x)

Mishap(x) == SendBatchFails(x) \/ ProcessFails(x) \/ Crash(x)

CallStep(u) == LockBroadcast(u) \/ ResumeTask(u) \/ CommitWinner(u)

Next ==
  \/ \E x \in Executor : Dispatch(x) \/ Progress(x) \/ Mishap(x)
  \/ \E u \in User : (\E t \in Template : SelectWinner(u, t)) \/ CallStep(u) \/ Rollback(u)
  \/ NextRunComes \/ TimeoutPasses \/ TestRipens

Spec == Init /\ [][Next]_vars

Moves(x) == SendBatch(x) /\ st'[x] # st[x]

\* As in BroadcastTask; and not every execution finds its 50 seconds over
\* before it has sent, completed its test or finished.  Nobody has to
\* select a winner.
Fairness ==
  /\ \A x \in Executor :
       /\ WF_vars(Dispatch(x)) /\ WF_vars(Progress(x))
       /\ SF_vars(Moves(x)) /\ SF_vars(TestDone(x)) /\ SF_vars(AllDone(x))
  /\ \A u \in User : WF_vars(CallStep(u))
  /\ WF_vars(NextRunComes) /\ WF_vars(TimeoutPasses) /\ WF_vars(TestRipens)

FairSpec == Spec /\ Fairness
-----------------------------------------------------------------------------
(* Properties.                                                             *)

Rest == {r \in Recipient : r > Sample}

Handled(r) == sent[r] # {} \/ r \in dropped

\* A broadcast is marked processed, and its task completed, only when every
\* recipient was enqueued or counted as failed: nobody falls between the
\* sample and the rest, whatever transitions, timeouts, crashes, stale task
\* copies of SelectWinner and overlapping executions came before.
NobodyForgotten ==
  bc.status = "processed" \/ task.status = "completed" => \A r \in Recipient : Handled(r)

\* Where the winner is chosen automatically, by an orchestrator that nothing
\* interrupts, the recipients outside the sample get no template that was not
\* made the winner: the test does not outgrow its sample and the winner phase
\* sends the winner alone, across every timeout and batch boundary.
RestGetsWinner ==
  auto /\ picks = 0 /\ faults = 0 => \A r \in Rest : sent[r] \subseteq chosen

\* The same, whoever chose the winner: "The winning variation will be sent to
\* the remaining audience" (selectWinner in openapi.json).
WinnerGoesToTheRest ==
  faults = 0 => \A r \in Rest : sent[r] \subseteq chosen

\* Nobody outside the sample is written to before a winner is known, after a
\* retry of an execution that failed too.
RestWaitsForWinner ==
  chosen = {} => \A r \in Rest : sent[r] = {}

\* A winner that was stored stays the winner until the broadcast is over.
WinnerIsKept ==
  [][bc.winner # None => bc'.winner = bc.winner]_vars

\* Where the winner is chosen automatically the broadcast's task comes to its
\* end without anybody's help.
TestEnds == auto => <>(task.status \in {"completed", "failed"})

\* The inductive strengthening of NobodyForgotten: no copy of the task state,
\* in the row, in an execution or in a SelectWinner call, is ahead of the
\* queue, and no copy of the broadcast claims an end that was not reached.
Covered == \A r \in Recipient : Handled(r)

StateSound(s) == \A r \in Recipient : r <= s.offset => Handled(r)

CopySound(c) == c.status = "processed" => Covered

ExecInv(x) ==
  /\ StateSound(st[x])
  /\ CopySound(copy[x])
  /\ pc[x] \notin {"idle", "dispatched", "count", "failing", "finish"} => st[x].offset # Fresh
  /\ pc[x] = "completing" => st[x].offset = Total
  /\ out[x] = "done" => Covered

UserInv(u) ==
  /\ StateSound(usnap[u].cursor)
  /\ CopySound(ucopy[u])
  /\ upc[u] # "idle" => upick[u] \in Template

IInv ==
  /\ TypeOK
  /\ StateSound(task.cursor)
  /\ task.status = "completed" => Covered
  /\ CopySound(bc)
  /\ \A x \in Executor : ExecInv(x)
  /\ \A u \in User : UserInv(u)
===============================================================================
