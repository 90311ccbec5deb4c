# Broadsheet: a TLA+ development of its delivery engine

Broadsheet is an email platform written in Go. A user schedules a *broadcast*; a
*task* in the system database drives an *orchestrator* that turns the audience into
rows of an *email queue*, batch by batch; *workers* of every app instance send those
rows through an email provider. *Automations* lead contacts through a graph of nodes,
*segments* keep the set of contacts that meet a condition, *webhooks* tell other
systems what happened. Users issue commands at any moment, app instances crash and
restart, and no transaction spans the system database (tasks) and the workspace
database (everything else). This development models these engines, checks them with
TLC and proves their main safety properties with TLAPS.

## Inventory

| Part | Source | State it keeps | Operations | What makes it correct |
|---|---|---|---|---|
| Email queue | `internal/repository/email_queue_postgres.go`, `internal/domain/email_queue.go` | rows with status, attempts, next_retry_at, updated_at | enqueue, fetch, claim, mark sent/failed, defer, pause/resume/delete by source | no email lost silently, none sent twice without a fault, pause and cancel effective, no row stuck |
| Queue workers | `internal/service/queue/worker.go` | snapshot of fetched rows, context | poll, processEntry, handleError, start, stop | one sender per row, history tells the truth, every row settles |
| Circuit breaker | `internal/service/queue/circuit_breaker.go`, `pkg/emailerror` | failure count, open flag, last failure | IsOpen, RecordSuccess, RecordFailure | the provider is called only while the breaker is closed |
| Task table | `internal/repository/task_postgres.go`, `internal/domain/task.go` | status, next_run_after, timeout_after, retry_count, state | create, claim, save, complete, fail, pause, pending, update | one runner, no lost state, retries used as configured |
| Task service and scheduler | `internal/service/task_service.go`, `task_scheduler.go`, `internal/http/task_handler.go` | running executions | dispatch by HTTP request, ExecuteTask, event handlers | every due task is run, completion is final |
| Broadcast service | `internal/service/broadcast_service.go`, `internal/repository/broadcast_postgres.go` | broadcast status, completed_at | schedule, pause, resume, cancel | a cancelled broadcast stays cancelled, a sending one has a task |
| Orchestrator | `internal/service/broadcast/orchestrator.go`, `queue_message_sender.go` | cursor and counters in the task state | Process: count, refresh, fetch, enqueue, save, complete | nobody in the audience is skipped |
| Event bus | `internal/domain/event.go` | subscriptions | Publish, PublishWithAck | the publisher learns whether the handlers did their work |
| A/B tests | `orchestrator.go`, `internal/service/broadcast/ab_test_evaluator.go`, `broadcast_service.go` | phase and offset in the task state; status, winner, test_sent_at of the broadcast | test phase, evaluation, winner phase, SelectWinner | nobody falls between the phases, the winner goes to everyone outside the test, the test ends |
| Recurring tasks | `internal/service/integration_sync_processor.go` | integration state, retry_count | sync, reset, trigger | a recurring task goes on after an error |
| Automations | `internal/service/automation_*.go`, `internal/repository/automation_postgres.go`, the enrolment function of `internal/database/init.go` | status, nodes and trigger; journeys with node, schedule, retries | edit, activate, pause, delete; enrol; tick, execute node, retry | each email once per journey, a stopped automation sends nothing, every journey ends |
| Outgoing webhooks | `internal/service/webhook_delivery_worker.go`, `webhook_subscription_service.go`, their repositories, the triggers of `init.go` | subscriptions, delivery rows | subscribe, toggle, renew secret, delete; fetch, post, back off, clean up | at least once, given up only after all attempts, disabled means silent |
| Segments | `internal/service/segment_service.go`, `segment_build_processor.go`, `contact_segment_queue_processor.go`, `internal/repository/segment_postgres.go` | version, status and members of a segment, queue of contacts | create, edit, rename, rebuild, delete; build, daily recomputation, recompute a contact | members are the contacts that meet the tree, no change falls between an evaluation and the queue |
| Rate limiter, cache, connection manager | `pkg/ratelimiter`, `pkg/cache`, `pkg/database` | windows, entries, pools | allow, get/set, acquire | limits hold |
| Migrations, setup | `internal/migrations/manager.go`, `internal/service/setup_service.go` | schema version | migrate, initialise | a failed migration can be run again |
| The rest | auth, users, contacts, lists, templates, rendering, providers, HTTP, console | - | request/response, rendering, I/O | not a matter of interleaving; not modelled |

How they interact: a service call updates the broadcast inside a workspace
transaction, publishes an event while that transaction is open, and commits after the
acknowledgement. The event's handler in the task service changes the task in a
transaction of its own. The scheduler's tick selects due tasks and sends one HTTP
request per task; the execution claims the task, runs `Process` in a goroutine and
writes the outcome. `Process` polls the broadcast between batches and inserts queue
rows. Workers poll the queue table. Everything is coordinated through rows of two
databases, so what is hard here is: state that is read in one transaction and used in
another; unconditional updates; crashes between two statements; timeouts that reclaim
work from somebody who is slow and not dead. `PROJECT.json` lists each of these
hazards at its line with the properties that watch it, and says where none does.

## Modules

    Delivery <--- EmailDelivery ---> EmailQueue        (EmailDelivery implements Delivery)
    TaskTable <--- BroadcastTask
    TaskTable <--- ABTest
    Automation <--- AutomationJourney
    Segment <--- SegmentWorkers
    WebhookDelivery

An arrow leads to the module that is extended (or, for `Delivery`, instantiated). Each
`MC...` module adds what the configurations need (symmetry sets, graphs); each
`...Proofs` module holds the theorems about the module it is named after
(`SegmentProofs` about `SegmentWorkers`).

**EmailQueue** models the table, any number of workers and one breaker per worker.
Each SQL statement is one action. `FetchPending` runs outside a transaction, so its
row locks end with the statement and a worker goes on with a snapshot (`todo`, `snap`);
the exclusion between workers is the conditional `UPDATE` of `MarkAsProcessing`
(`Claimable`). `pc` follows `processEntry`: `entry` (row chosen), `claimed` (rate limiter
and send), `sent`, `marked` (row deleted, history still to write), `errored`, `disposing`
(history written, row still to decide). Time is what the queries ask: `retry` is null,
ahead or due; `stale` says that `updated_at` is more than two minutes old; `cooled`
that the breaker's cooldown is over. Errors are the classes the code tells apart:
transient provider errors (retried, counted), configuration errors (not retried,
counted), recipient errors (not retried, not counted), and a missing integration
(retried, never reaches the breaker). `CallFails` is a database call that returns an
error, which the code logs and passes over; with a cancelled context every call fails.
`src`, `tail`, `delivered`, `hard` and `faults` are history variables: what the user
last asked, the rows a halt could not reach, what the provider accepted or refused,
and the faults injected.

**Delivery** is what the queue promises of a message, without tables, snapshots,
timers or a breaker: it is submitted, tried by senders, and settles for one of four
reasons only; a cancellation withdraws at least what was never tried. **EmailDelivery**
gives the refinement mapping (a row is *queued* while it is in the table and *settled*
once deleted, a worker *tries* it while it holds the claim and has not heard from the
provider) and states `ImplementsDelivery`.

**TaskTable** has no variables: it gives each statement of `TaskRepository` as a
function from the row before to the row after, and the two `WHERE` clauses
`Dispatchable` (`GetNextBatch`) and `Runnable` (`MarkAsRunningTx`). Of the state JSON it
keeps the cursor, in batches; `Fresh` stands for no state yet.

**BroadcastTask** composes the table with the broadcast row, the queue rows as far as
the producers are concerned (live or paused), executions and service calls. A call
(`Client`) goes `checked` (unlocked read), `locked` (the UPDATE holds the row lock and
the handler has read the task), `handled` (the handler has written the task), then
`Commit` or `Rollback`; `event` and `eventRead` are handlers that run on their own. An
execution (`Executor`) goes `dispatched`, claims the task, then follows `Process` to
`finish`, where `ExecuteTask` writes the outcome without a condition. Queue rows are
pairs of batch and copy, so that a batch enqueued twice is visible; `enq` counts the
copies and `dropped` holds batches counted as failed. Only the bound constants
(`MaxCopies`, `MaxRetryCount`, `MaxCommands`, `MaxFaults`) have no counterpart in the
code.

**ABTest** follows an A/B broadcast from the start of its sending, recipient by
recipient: the audience is `1..Total` in the order of the cursor, `Sample` of them are the
test. An execution reads the broadcast, may evaluate the test and store a winner,
re-reads, decides its phase, loads the templates of that phase *once*, and sends batches
of which the timeout may cut off any tail; `sent` holds the templates each recipient was
queued with. `SelectWinner` goes `chosen` (unlocked read and checks), `locked`, `handled`
(the task written from a copy), then commits or rolls back. Both databases are written whole
from copies, so the copies (`copy`, `st`, `ucopy`, `usnap`) are state.

**Automation** has the automation's row, its database trigger and the commands, one
action per statement: `Activate` sets live, then creates the trigger, then perhaps rolls
back; `Pause` drops the trigger, then sets paused; `Delete` drops it, exits the journeys,
then sets `deleted_at`. An enrolment is two steps of one transaction, and `DROP TRIGGER`
waits for those under way. **AutomationJourney** composes it with schedulers: a tick
reads due rows (the locks end with the statement), and `Execute` works on copies, node
by node, persisting after each. `sched` is null, ahead or due.

**Segment** has the segment's row, memberships with their version, contacts, and the
queue that the trigger on contact changes fills; a tree of conditions is a value and
`fits[c]` the trees contact `c` meets. **SegmentWorkers** composes it with the executions
of build tasks (by offset, in batches, with timeouts, aborts for an outdated version,
failures and crashes) and with queue workers, which hold their row locks to the commit
but evaluate and write memberships on other connections. `stale` and `discarded` are history
variables: the contacts nobody has evaluated since they changed, and those among the
changed that a worker took off the queue unlooked-at because no segment was active
(`QueueDiscard`); a contact leaves `discarded` when it is queued again.

**WebhookDelivery** has subscriptions and their commands, the rows the triggers insert,
and one worker per instance, which reads a batch without any claim, looks each
subscription up once per batch, posts, and writes the outcome from its copy of
`attempts`. An answer that is lost or later than the client's timeout is an error to the worker
though the receiver has accepted; such an answer is charged as a fault. `due` is the order of `next_attempt_at` among due rows.

The definitions named `...Late`, `...Early`, `...NoReap` and so on, each under a
*Seeded fault* comment, are wrong variants of the definition that follows them. No
action uses them; they are the mutants of `PROJECT.json`, which show that each checked
property can be broken by a plausible slip in the code.

## Runs

All but `AutomationJourney_alone` have `CHECK_DEADLOCK FALSE`: these systems legitimately
come to rest (the queue is empty, the broadcast is over, the bound on commands and
faults is used up). An automation can always be edited.

Passing:

| Run | Instance | What it shows |
|---|---|---|
| `EmailQueue_single` | 2 rows, 1 worker, 2 attempts, threshold 2, 1 fault, fair | no stranded row, truthful history, breaker, cancellation, every row settles |
| `EmailQueue_pair` | 1 row, 2 workers, breaker out of reach, 2 faults | no silent loss, one sender, no duplicate without a fault, pause and cancel effective, `Delivery` implemented |
| `BroadcastTask_commands` | 2 executions, 1 caller, 3 calls, 1 fault, handlers may fail | audience covered, cursor sound |
| `BroadcastTask_alone` | 2 executions, 1 schedule call, 3 batches, 3 faults, fair | one runner, re-enqueue needs a fault, retries used, scheduled broadcast has a task, completion final, the broadcast ends |
| `ABTest_alone` | 3 recipients, sample 1, batch 2, 2 variations, 1 SelectWinner, 1 fault, fair | nobody forgotten, an automatic winner alone goes to the rest, the test ends |
| `AutomationJourney_alone` | 1 scheduler, 1 journey over 4 nodes (email, delay), 2 retries, 1 user, 1 fault, fair | repeats need faults, one end event, failure is exhaustion, pause freezes, enrolment only while live, journeys end |
| `Segment_exact` | 2 contacts, 2 trees, 2 versions, 2 builds, batch 1, 1 queue worker, 1 change, 1 fault | a build is exact |
| `Segment_settles` | 1 contact, a tree with relative dates, 2 builds, 2 queue workers, 2 changes, 1 fault, fair | no change is lost between an evaluation and the queue, changes are looked at or discarded with a batch that found no active segment, builds end |
| `WebhookDelivery_alone` | 1 event, 2 subscriptions, 2 attempts, 1 user, 1 worker, 1 fault, fair | given up only exhausted, accepted once per fault, disabled left alone, deliveries settle |

Why the bounds suffice: with two rows one can be paused, deferred or retried while the
other is being sent; two workers or executions make every race of a pair; two attempts
and one retry are the smallest budgets with a first, a last and a too-many; two batches
have a position between the first and the last; three calls are schedule, pause,
resume (or cancel). Three recipients with a sample of one and batches of two put the
phase boundary, the batch boundary and the end of the audience in three different
places. Two versions of a segment are an edit, and two builds of batch size one over
two contacts can be interrupted between their first and their last batch. `MaxCopies` and
`MaxRetryCount` are above what the other bounds let happen in the runs about
duplicates and liveness, and cut only repetitions in the others. Of the larger
instances the theorems speak.

Violations. Each of these runs states what a comment or the API description says and
TLC shows an execution of the code that contradicts it; the quotations are in the
findings of `PROJECT.json`. None of them needs a fault.

| Run | Property | In short |
|---|---|---|
| `AutomationJourney_tick_limit` | `JourneysRecover` | after `maxNodesPerTick` nodes `scheduled_at` is null, and the due-row query never selects null |
| `Segment_no_match` | `NoMatchNoMembers` | a build that matched nobody keeps the members of the version before |
| `ABTest_winner` | `WinnerGoesToTheRest` | templates are loaded before the phase moves to winner, so the rest gets any variation |

Further counterexamples. These configurations are kept for whoever changes the code in
question (`tlc -config X.cfg M`, where `M` is the `MC` module of that name); each checks one
property and TLC refutes it.

| Configuration | Property | In short |
|---|---|---|
| `EmailQueue_pause_breaker.cfg` | `HaltStopsDelivery` | a row paused after it was fetched is set back to pending by a worker with an open breaker (`email_queue_postgres.go:280`) |
| `BroadcastTask_late_batch.cfg` | `CancelEmptiesQueue` | a batch enqueued beside the cancellation stays when `FetchBatch` sees it first (`orchestrator.go:1006`) |
| `BroadcastTask_last_retry.cfg` | `FailedIsFinal` | broadcast marked failed one execution too early (`orchestrator.go:452`, `task_postgres.go:863`) |
| `BroadcastTask_rolled_back.cfg` | `DraftIsNotSent` | the task of a rolled-back schedule call stays (`broadcast_service.go:406`) |
| `BroadcastTask_stale_completion.cfg` | `BroadcastSettles` | a stale pause clears `completed_at`, the resume leaves the broadcast processing for ever (`broadcast_postgres.go:306`) |
| `BroadcastTask_late_pause.cfg` | `NoStrandedPause` | an execution that saw the pause pauses rows after the resume (`orchestrator.go:896`) |
| `BroadcastTask_lost_handler.cfg` | `SendingHasTask` | a handler's failed write is acknowledged as success (`broadcast_service.go:429`) |
| `BroadcastTask_cancel_resume.cfg` | `CancelIsFinal` | a resume checked before a cancellation overwrites it (`broadcast_service.go:581`) |
| `ABTest_lost_winner.cfg` | `WinnerIsKept` | the completion of the test, written from a copy, erases a winner selected beside it (`orchestrator.go:1404`) |
| `ABTest_retry.cfg` | `RestWaitsForWinner` | an execution that fails once the test has begun comes back without its phase and sends to everybody (`orchestrator.go:728`) |
| `AutomationJourney_crash.cfg` | `JourneysRecover` | a crash between two nodes leaves `scheduled_at` null (`automation_executor.go:164`: "critical for crash recovery") |
| `AutomationJourney_once.cfg` | `EnrolledOnce` | two concurrent events both miss the trigger log, whose insert ignores the conflict (`init.go:1218`) |
| `AutomationJourney_pair.cfg` | `OneExecutor` | two schedulers read the same due row (`automation_postgres.go:797`) |
| `AutomationJourney_revived.cfg` | `ExitedIsFinal` | a scheduler's copy brings a journey back that `Delete` has exited |
| `Segment_early.cfg` | `FirstIsExact` | after an edit the segment is still active, so a queue worker adds members of the new version before its first build; those that stop matching then are not old and stay (`segment_build_processor.go:220`) |
| `Segment_daily.cfg` | `RefreshIsExact` | the daily build has the same version, so members who no longer match are not old |
| `Segment_rename.cfg` | `BuildingEnds` | a rename beside the end of a build puts the status building back |
| `Segment_discarded.cfg` | `DiscardsAreHarmless` | a contact that changes after its batch of a running build is deleted from the queue unlooked-at, since no segment is active, and keeps a wrong membership of the active segment (`contact_segment_queue_processor.go:91`: "there are no segments to update"); no fault is needed |
| `Segment_deleted.cfg` | `DeletedIsFinal` | the end of a build brings a deleted segment back |
| `WebhookDelivery_pair.cfg` | `DeliveredIsFinal` | of two workers with the same row the late one marks a delivered row failed |
| `WebhookDelivery_starved.cfg` | `DeliveriesSettle` | a batch full of rows of disabled subscriptions starves the others |
| `WebhookDelivery_secret.cfg` | `SecretIsKnown` | an update from an older copy puts the old secret back |

Variations of these, by changing constants: with two rows, `BatchSize = 2` and
`Threshold = 1`, `EmailQueue_pair.cfg` refutes `DuplicatesNeedFaults` (`SetNextRetry` frees a
row that another worker is sending); with its own constants it refutes `NoStrandedRow` (two
workers spend the attempts of a row that the retry decision counts from a copy); with
two executions `BroadcastTask_late_pause.cfg` refutes `AtMostOneRunner`, and as it is
`CompletedIsFinal` (a pause and a resume make a running or completed task claimable);
`Segment_no_match.cfg` refutes the action property `EditsSurvive` as well (under `PROPERTIES`: the
end of a build writes the version before an edit back).

## Fairness

`EmailQueue`: weak fairness of each worker's own steps (the ticker polls for ever,
calls return), of `Start` (a deployment restarts its instances), of the breaker's
cooldown and of the row clocks. Nothing is assumed of users or of the provider: it may
fail every time. `WorkerStep` is one action, so fairness does not force the provider
to succeed.

`BroadcastTask`: weak fairness of dispatch (the scheduler ticks every few seconds), of
an execution's steps, of calls already begun, and of the clocks; strong fairness of
`FetchBatch`, `SendBatch` and `AllDone`, because an execution has 50 seconds and one that
always found its time over before the first batch is the only thing they exclude.

`ABTest`: as `BroadcastTask`; strong fairness of a batch that moves the cursor, of `TestDone`
and of `AllDone`; weak fairness of `TestRipens` (the hours of the test pass). Nobody has to
select a winner.

`AutomationJourney`: weak fairness of each scheduler's steps (the ticker fires, calls
return; one action, so a node may fail every time), of the clock of a scheduled row, of a
command or enrolment already begun. Nobody has to activate anything.

`SegmentWorkers`: weak fairness of the steps of builds and queue workers; strong fairness
of taking each queued contact, since `SKIP LOCKED` passes over a contact only as long as
another worker holds it and the order is by `queued_at`. An execution of a build does at
least one batch before its time is over (`moved` in `BuildTimeout`): a batch is a hundred
contacts and the time most of a minute.

`WebhookDelivery`: weak fairness of each worker and of `next_attempt_at` passing; receivers
may refuse for ever.

## Proofs

`EmailQueueProofs` proves for every set of rows, sources and workers, every number of
attempts and threshold, with slow sends and any number of faults:

- `TypeCorrect`, in which the breaker's count is bounded by its threshold;
- `BreakerGuard` (`BreakerGuardsProvider`): open exactly when the count has reached the
  threshold, and never open while a worker is at the provider. The type bound alone is
  not inductive: that the count never passes the threshold needs that a sender's
  breaker is closed, and that a closed breaker is below the threshold;
- `NoSilentLossHolds` (`NoSilentLoss`). A worker deletes a row by what it remembers, so
  the invariant `IInv` adds `WorkerInv`: the remembered count is behind the column while
  the row is to be claimed and strictly behind once it is; a send about to be recorded
  did happen; an error taken for final was final. Since attempts only grow, the
  decision `snap + 1 >= MaxAttempts` then implies `attempts >= MaxAttempts`, whatever other
  workers did meanwhile.

Its second half is about rows in hand. `Undisturbed` says that there is one worker, or that
no send outlives the two-minute reclaim window and no breaker is open. Neither half can
be dropped: behind an open breaker `SetNextRetry` writes a row whatever its status and
whoever has claimed it, and a send that outlives the window is claimed again by another
worker. From `[]Undisturbed` follows `HandsAreExclusive`, that a row in hand is
'processing', one worker's, and not up for reclaiming; and with it, for any number of
rows and workers, crashes and faults included:

- `OneHandlerPerRow` (`SingleSender`);
- `CopiesNeedFaults` (`DuplicatesNeedFaults`). `Account` says which fault pays for which
  copy: all but one are paid, and the unpaid one belongs to a row that is gone or about
  to be deleted; a worker that has been told to stop pays before it sends;
- `HistoryIsTrue` (`HistoryMatchesOutcome`), by `Recorded`: an accepted row is recorded or in
  the hands of the worker about to record it;
- `CancellationHolds` (`CancelStopsDelivery`), and `PauseHolds` (`HaltStopsDelivery`) where no
  breaker opens at all: the retry behind an open breaker is what revives a paused row
  (`EmailQueue_pause_breaker.cfg`).

`RetryIsPossible` (`NoStrandedRow`) needs one worker and nothing else: its snapshot plus one
is the column. With two workers a claim between the snapshot and the decision can leave
a row 'failed' with its attempts used up.

`BroadcastTaskProofs` proves for every number of executions, callers, batches, calls,
retries and faults, overruns and failing handlers included:

- `TypeCorrect`;
- `NobodyIsSkipped` (`AudienceCovered`) and `StoredCursorIsSound` (`CursorSound`). Cursors
  travel: from the row to an execution, to a handler's copy, and back in any order and
  at any age. `IInv` says that none of these copies is ahead of what was enqueued
  (`StateSound` for the row, each `pos` and each `csnap`), that an execution is past its
  batch only after it handled it, and that any copy of the broadcast that claims
  completion is right. It is inductive because handled batches stay handled, so old
  copies only get safer; the lemmas say once for each kind of step what it leaves
  alone, and one lemma per action does the rest;
- `SendingIsBacked` (`SendingHasTask`), where no handler of a schedule event fails: the call
  commits behind its handler, and a rolled-back call leaves a draft.

The properties of the run `BroadcastTask_alone` are proved for a broadcast that is
scheduled once and then left alone (`[]Alone`: no second call) and executions that end
before their timeout (`~Overruns`), for any number of executions, batches, retries and
faults: `OneRunner` (`AtMostOneRunner`), `EnqueuedOncePerFault`, `AllRetriesAreUsed`
(`RetriesAreUsed`) and `CompletionIsFinal` (`CompletedIsFinal`). Both hypotheses are needed. A
pause, a resume or a second schedule writes the task row back from a copy and makes a
running task runnable again (`BroadcastTask_late_pause.cfg`), and the task of an execution
that overruns is claimed a second time. The invariant
`AloneInv` follows the one execution at work: its claim is armed, its cursor is not behind
the stored one, it fails only through a fault (`RunInv`), and a batch behind the stored
cursor that was enqueued already has a fault of its own (`Owed`).

`EmailDeliveryProofs` proves `QueueImplementsDelivery` (`ImplementsDelivery`): with `IInv` of the
queue and `Counted` (a row never enqueued was never claimed, a row being processed was), every action of
`EmailQueue` is mapped to a step of `Delivery` or a stutter, for any number of workers, slow
sends and open breakers included; and `CopiesAreClaimed`, a property that needs only the
abstraction's counters: no more copies than claims.

`AutomationJourneyProofs` proves, for any graph and any number of schedulers, users and
contacts, `TypeCorrect`, `FailureIsExhaustion` (`FailedIsExhausted`) and `StoppedIsFrozen`
(`PauseFreezesJourneys`). Schedulers overwrite each other's rows with copies of any age, so
the invariant speaks of every copy: an active one has a retry left, a failed one has none
(`RetriesFit`), and a scheduler between two nodes of an automation that is not live was
there when it stopped. Three more results need a hypothesis that the code does not
enforce:

- `EnrolmentNeedsLive` (`EnrolsWhileLive`), with one user at a time: each command has made
  sure, step by step, that the trigger stands only while the automation is live
  (`TriggerInv`). The editor of a second user writes back the status it read, and may
  write 'draft' under a standing trigger;
- `EndIsReportedOnce` (`OneEndEvent`), with one scheduler: a journey that may still end has
  no event to spare (`OpenInv`). Two schedulers read the same due row;
- `RepeatsAreFaults` (`RepeatsNeedFaults`), with one scheduler and an automation without
  loops. The nodes of such a graph can be ranked so that every step leads down
  (`Ranked`); the theorem holds for every ranking, and its invariant says that nothing at
  or below the node a row stands on was sent without a fault.

`SegmentProofs` proves `TypeCorrect`, for which a worker about to write must be known to
have a contact in hand, and `ChangesStayQueued` (`NoLostRecompute`) from `LockInv`: a row lock has one
owner, the trigger of a change waits for it, hence what the owner has evaluated is not
stale when it deletes the queue row at its commit. The theorem promises no more than the
code: a changed contact is in the queue until it is evaluated after the change, *or* was
discarded with a batch that found no active segment. That the second case is not
harmless is `Segment_discarded.cfg`.

It also proves `BuildsAreExact` (`BuildIsExact`), for any number of contacts, trees, users,
queue workers, builds and faults and any batch size. `CalmInv` is its invariant, about the
build that nothing has disturbed since it began alone (`calm`); a batch of the queue that is
discarded beside a build is such a disturbance:

- `MembersInv`: a membership of the build's version is true, and a contact the build has
  *passed* (`Passed`: its place among the emails is below the offset, or it is in the batch
  and not among the hits still to be added) or a queue worker has *seen* has the one it
  should have. It leaves out contacts that a queue worker still has to look at;
- `CopiesInv`: every copy of the segment in a build or a worker has its version and tree,
  and hits and matches found earlier still hold;
- `ProgressInv` and `VersionInv`: a saved offset is never ahead of the one in memory, and
  memberships of version 0 are none.

That an offset passes only contacts that were in the batch is a fact about the
cardinality of initial parts of a finite ordered set (`BatchAdvances`), and that an empty
batch leaves nobody out needs the least contact that is not passed (`LastBatch`).
The exception in the property, `calm.kept`, is a fact about the code: an edit leaves the
segment active with its new version, so a queue worker can add members of that version
before the build of it begins. If one of them stops matching by then (a relative date
moves on, or the removal fails), the build does not remove it, because its membership is
not of an earlier version. `Segment_early.cfg` shows it; the daily build, which has the
version of the one before, meets the same (`Segment_daily.cfg`).

`WebhookDeliveryProofs` proves `GivenUpAfterAllAttempts` (`GivenUpIsExhausted`): every count of
attempts, in the row or in any worker's copy, is at most the number of attempts that came
to an end, and old copies only undercount. For any number of workers it also proves
`TypeCorrect` (the due rows stay a sequence without strangers through every cleanup, for
which the lemmas about `Rest` say what a reordering of a finite set keeps) and
`NothingToTheDisabled` (`DisabledIsLeftAlone`): what a batch's cache holds was enabled after
the batch was read. With one worker (`SoleWorker`) the row in hand is undelivered, in no
place of the batch twice and not due again, which gives `OneCopyPerFault`
(`AcceptedOncePerFault`: the account of accepted copies is paid by failed writes, crashes and
answers that did not arrive) and `DeliveredStaysDelivered`; two workers share no claim, read the
same due row and post it twice (`WebhookDelivery_pair.cfg`).

`ABTestProofs` proves `EverybodyReached` (`NobodyForgotten`), for any audience, sample, batch
size, number of executions, SelectWinner calls and faults: as for `BroadcastTask`, no copy
of the task state is ahead of the queue, and no copy of the broadcast claims an end that
was not reached. The case that needs the most care is a batch cut short, whose cursor
stands on the last recipient that was handled and not on the last one fetched.
`WinnerAloneToTheRest` (`RestGetsWinner`) is about automatic tests without faults and manual
selections, which is what the property is about, for any number of executions. Mutual
exclusion is part of its invariant `QuietInv`: an execution at work has the armed claim of
the task row, so nobody else gets one; between executions the row's phase and the
broadcast's status are in step (`PhaseInv`), and the templates an execution sends in the
winner phase are the winner alone.

Assumptions: the named `ASSUME`s on the constants of each module, which TLC evaluates in
every run, and the hypotheses that the theorems above name. `SoleWorker`, `SoleUser`,
`SoleScheduler`, `~Overruns`, `~SlowSends` and `~HandlerFails` are about constants;
`Undisturbed`, `BreakersClosed` and `Alone` are about states and stand under a box, so a
theorem that uses them is about the behaviours that satisfy them throughout. They are
how the passing runs are set up, or weaker.

Model-checked only are the liveness properties (`EveryRowSettles`, `BroadcastSettles`,
`TestEnds`, `JourneysEnd`, `BuildsEnd`, `ChangesAreSeen`, `DeliveriesSettle`): fairness and
enabledness are out of the prover's reach.

## Not modelled

- An audience of nobody: such a broadcast ends in its first execution. In `BroadcastTask`
  a batch is one unit; `ABTest` cuts batches in two. In both the audience is fixed when the
  sending begins, while the code asks for each batch anew: contacts that join, leave or
  unsubscribe meanwhile are not in the models.
- The pause of the direct sender's breaker in `Process`, which the queue sender of
  `internal/app/app.go` never triggers. `ABTest` has no pause and cancel: the service
  refuses them while a test runs.
- `CreateBroadcast` with a schedule, user edits (`UpdateBroadcast`), deletion of a broadcast
  or task, `ResetTask`, `TriggerTask`, integration sync, and the sent and failed events,
  which nothing in the modelled path publishes.
- The rate limiter's pace, priorities of queue rows, more than one integration per
  worker, and several workspaces: rows of different workspaces share no state.
- In `BroadcastTask` and `AutomationJourney` the workers that consume queue rows.
- The conditions of branch, filter and A/B nodes of an automation (a choice among the
  successors), the SQL a segment's tree is compiled to (`fits`), webhook payloads,
  signatures and event filters.
- Two executions of one build or queue task at a time; what the task table grants is the
  subject of `BroadcastTask`.
- Rendering (MJML, Liquid, blog), provider clients, SMTP bridge, HTTP handlers, analytics,
  LLM and console: text and I/O without state of their own that interleaves. The list of
  disposable domains in `pkg/disposable_emails`, more than half of the repository's lines,
  is a table of data. Authentication, workspaces, contact and list commands are single
  statements or request/response code; migrations and setup run once, alone.

## Plan

Done: the email queue with its abstract specification and refinement; the task table with
the single and the A/B broadcast; automations; segments; outgoing webhooks; each with its
proofs.

Left, in this order:

1. The composition of producer and queue, in which pause, resume and cancel act on both.
2. Creation with a schedule, edits and deletion of broadcasts; `ResetTask`, `TriggerTask` and
   the recurring columns of the task table with integration sync.
3. Rate limiter, cache and connection manager; sessions and invitations.
