------------------------------ MODULE EmailQueue ------------------------------
(***************************************************************************)
(* The email_queue table of one workspace                                  *)
(* (internal/repository/email_queue_postgres.go) and the EmailQueueWorker  *)
(* of each app instance that drains it (internal/service/queue/worker.go,  *)
(* circuit_breaker.go).                                                    *)
(*                                                                         *)
(* Every SQL statement is one atomic step: FetchPending runs outside a     *)
(* transaction, so its FOR UPDATE SKIP LOCKED locks are gone before the    *)
(* first row is processed, and a worker goes on from a snapshot.  A worker *)
(* handles the rows of its snapshot one after the other; the rows of one   *)
(* batch share created_at, so their order is arbitrary.                    *)
(*                                                                         *)
(* Time is abstracted to what the code asks of it: whether next_retry_at   *)
(* has passed, whether updated_at is more than two minutes old, and        *)
(* whether the breaker's cooldown is over.                                 *)
(***************************************************************************)
EXTENDS Integers, FiniteSets

CONSTANTS
  Entry,        \* queue rows that may ever be enqueued
  NoEntry,      \* "no current row"
  Source,       \* broadcasts and automations that enqueue rows
  SourceOf,     \* source_id of each row
  Worker,       \* app instances running an EmailQueueWorker
  MaxAttempts,  \* max_attempts of a row (3 in the code)
  BatchSize,    \* effectiveBatchSize of a poll
  Threshold,    \* CircuitBreakerThreshold
  SlowSends,    \* TRUE: a send may outlive the two-minute reclaim window
  MaxFaults     \* bound on crashes, shutdowns, database and provider faults

ASSUME ConstantsAssumption ==
  /\ NoEntry \notin Entry
  /\ IsFiniteSet(Worker)
  /\ SourceOf \in [Entry -> Source]
  /\ MaxAttempts \in Nat \ {0}
  /\ BatchSize \in Nat \ {0}
  /\ Threshold \in Nat \ {0}
  /\ SlowSends \in BOOLEAN
  /\ MaxFaults \in Nat

VARIABLES
  \* the table
  status,       \* "absent" before the INSERT, "gone" after a DELETE
  attempts,     \* attempts column
  retry,        \* next_retry_at: "null", "wait" (in the future) or "due"
  stale,        \* updated_at is older than two minutes
  hist,         \* message_history row: "none", "failed" or "sent"
  \* the workers
  pc,           \* where processLoop / processEntry is
  stopping,     \* w.ctx is cancelled
  todo,         \* fetched rows not yet handled
  snap,         \* attempts of each row as fetched (entry.Attempts)
  cur,          \* row being processed
  err,          \* class of the error being handled
  failures,     \* breaker: consecutive provider failures
  isOpen,       \* breaker: open
  cooled,       \* breaker: more than the cooldown since lastFailure
  \* the world around them
  src,          \* what the user last asked of the source
  tail,         \* rows a pause or cancel of the source could not reach
  delivered,    \* times the provider accepted the row's email
  hard,         \* the provider refused the row's email for good
  faults        \* faults injected so far

queueVars   == <<status, attempts, retry, stale>>
workerVars  == <<pc, stopping, todo, snap, cur, err>>
breakerVars == <<failures, isOpen, cooled>>
sourceVars  == <<src, tail>>
vars == <<queueVars, hist, workerVars, breakerVars, sourceVars, delivered, hard, faults>>

Status == {"absent", "pending", "processing", "failed", "paused", "gone"}
PC     == {"stopped", "idle", "entry", "claimed", "sent", "marked", "errored", "disposing"}

\* Outcome classes of SendEmail as the classifier and the breaker tell them
\* apart; "noIntegration" is the unclassified internal error.
SendError  == {"transient", "config", "recipient"}
ErrorClass == SendError \cup {"noIntegration"}

Retryable(c)    == c \in {"transient", "noIntegration"}
TripsBreaker(c) == c \in {"transient", "config"}

Live(e) == status[e] \notin {"absent", "gone"}

\* Worker w is between the claim of row e and the outcome of SendEmail.
Sending(w, e) == pc[w] = "claimed" /\ cur[w] = e

InFlight(w, e) == pc[w] \in {"claimed", "sent", "errored", "disposing"} /\ cur[w] = e

TypeOK ==
  /\ status \in [Entry -> Status]
  /\ attempts \in [Entry -> Nat]
  /\ retry \in [Entry -> {"null", "wait", "due"}]
  /\ stale \in [Entry -> BOOLEAN]
  /\ hist \in [Entry -> {"none", "failed", "sent"}]
  /\ pc \in [Worker -> PC]
  /\ stopping \in [Worker -> BOOLEAN]
  /\ todo \in [Worker -> SUBSET Entry]
  /\ snap \in [Worker -> [Entry -> Nat]]
  /\ cur \in [Worker -> Entry \cup {NoEntry}]
  /\ err \in [Worker -> ErrorClass]
  /\ failures \in [Worker -> 0 .. Threshold]
  /\ isOpen \in [Worker -> BOOLEAN]
  /\ cooled \in [Worker -> BOOLEAN]
  /\ src \in [Source -> {"live", "paused", "cancelled"}]
  /\ tail \in [Source -> SUBSET Entry]
  /\ delivered \in [Entry -> Nat]
  /\ hard \in [Entry -> BOOLEAN]
  /\ faults \in Nat

Init ==
  /\ status = [e \in Entry |-> "absent"]
  /\ attempts = [e \in Entry |-> 0]
  /\ retry = [e \in Entry |-> "null"]
  /\ stale = [e \in Entry |-> FALSE]
  /\ hist = [e \in Entry |-> "none"]
  /\ pc = [w \in Worker |-> "stopped"]
  /\ stopping = [w \in Worker |-> FALSE]
  /\ todo = [w \in Worker |-> {}]
  /\ snap = [w \in Worker |-> [e \in Entry |-> 0]]
  /\ cur = [w \in Worker |-> NoEntry]
  /\ err = [w \in Worker |-> "transient"]
  /\ failures = [w \in Worker |-> 0]
  /\ isOpen = [w \in Worker |-> FALSE]
  /\ cooled = [w \in Worker |-> FALSE]
  /\ src = [s \in Source |-> "live"]
  /\ tail = [s \in Source |-> {}]
  /\ delivered = [e \in Entry |-> 0]
  /\ hard = [e \in Entry |-> FALSE]
  /\ faults = 0

-----------------------------------------------------------------------------
(* Producers and the user: Enqueue and the BySource statements.            *)

\* Enqueue: one INSERT transaction.  The producer looked at the broadcast's
\* status before it built the batch, not when it inserts it.
Enqueue(s, S) ==
  /\ S # {}
  /\ \A e \in S : SourceOf[e] = s /\ status[e] = "absent"
  /\ status' = [e \in Entry |-> IF e \in S THEN "pending" ELSE status[e]]
  /\ UNCHANGED <<attempts, retry, stale, hist, workerVars, breakerVars, sourceVars, delivered, hard, faults>>

Of(s, statuses) == {e \in Entry : SourceOf[e] = s /\ status[e] \in statuses}

\* What a halt of s leaves behind: rows mid-send and rows not yet inserted.
OutOfReach(s) == Of(s, {"absent", "processing"})

\* Seeded fault: rows waiting for a retry are not paused.
PauseOnlyPending(s) ==
  /\ src[s] = "live"
  /\ src' = [src EXCEPT ![s] = "paused"]
  /\ tail' = [tail EXCEPT ![s] = OutOfReach(s)]
  /\ LET hit == Of(s, {"pending"}) IN
       status' = [e \in Entry |-> IF e \in hit THEN "paused" ELSE status[e]]
  /\ UNCHANGED <<attempts, retry, stale, hist, workerVars, breakerVars, delivered, hard, faults>>

PauseBySource(s) ==
  /\ src[s] = "live"
  /\ src' = [src EXCEPT ![s] = "paused"]
  /\ tail' = [tail EXCEPT ![s] = OutOfReach(s)]
  /\ LET hit == Of(s, {"pending", "failed"}) IN
       /\ status' = [e \in Entry |-> IF e \in hit THEN "paused" ELSE status[e]]
       /\ stale' = [e \in Entry |-> stale[e] /\ e \notin hit]
  /\ UNCHANGED <<attempts, retry, hist, workerVars, breakerVars, delivered, hard, faults>>

ResumeBySource(s) ==
  /\ src[s] = "paused"
  /\ src' = [src EXCEPT ![s] = "live"]
  /\ tail' = [tail EXCEPT ![s] = {}]
  /\ LET hit == Of(s, {"paused"}) IN
       /\ status' = [e \in Entry |-> IF e \in hit THEN "pending" ELSE status[e]]
       /\ retry' = [e \in Entry |-> IF e \in hit THEN "null" ELSE retry[e]]
       /\ stale' = [e \in Entry |-> stale[e] /\ e \notin hit]
  /\ UNCHANGED <<attempts, hist, workerVars, breakerVars, delivered, hard, faults>>

\* Seeded fault: rows waiting for a retry survive the cancellation.
DeleteAllButFailed(s) ==
  /\ src[s] # "cancelled"
  /\ src' = [src EXCEPT ![s] = "cancelled"]
  /\ tail' = [tail EXCEPT ![s] = OutOfReach(s)]
  /\ LET hit == Of(s, {"pending", "paused"}) IN
       status' = [e \in Entry |-> IF e \in hit THEN "gone" ELSE status[e]]
  /\ UNCHANGED <<attempts, retry, stale, hist, workerVars, breakerVars, delivered, hard, faults>>

DeleteBySource(s) ==
  /\ src[s] # "cancelled"
  /\ src' = [src EXCEPT ![s] = "cancelled"]
  /\ tail' = [tail EXCEPT ![s] = OutOfReach(s)]
  /\ LET hit == Of(s, {"pending", "failed", "paused"}) IN
       status' = [e \in Entry |-> IF e \in hit THEN "gone" ELSE status[e]]
  /\ UNCHANGED <<attempts, retry, stale, hist, workerVars, breakerVars, delivered, hard, faults>>

-----------------------------------------------------------------------------
(* The worker: Start, Stop, the poll and one row at a time.                *)

Start(w) ==
  /\ pc[w] = "stopped"
  /\ pc' = [pc EXCEPT ![w] = "idle"]
  /\ stopping' = [stopping EXCEPT ![w] = FALSE]
  /\ failures' = [failures EXCEPT ![w] = 0]
  /\ isOpen' = [isOpen EXCEPT ![w] = FALSE]
  /\ cooled' = [cooled EXCEPT ![w] = FALSE]
  /\ UNCHANGED <<queueVars, hist, todo, snap, cur, err, sourceVars, delivered, hard, faults>>

\* Stop cancels w.ctx; the goroutine sees it at its next check or call.
Stop(w) ==
  /\ pc[w] # "stopped"
  /\ ~stopping[w]
  /\ faults < MaxFaults
  /\ faults' = faults + 1
  /\ stopping' = [stopping EXCEPT ![w] = TRUE]
  /\ UNCHANGED <<queueVars, hist, pc, todo, snap, cur, err, breakerVars, sourceVars, delivered, hard>>

Halted(w) ==
  /\ pc' = [pc EXCEPT ![w] = "stopped"]
  /\ todo' = [todo EXCEPT ![w] = {}]
  /\ cur' = [cur EXCEPT ![w] = NoEntry]

\* The ctx.Done() cases of processLoop and processWorkspace.
LoopExits(w) ==
  /\ stopping[w]
  /\ pc[w] \in {"idle", "entry"}
  /\ Halted(w)
  /\ UNCHANGED <<queueVars, hist, stopping, snap, err, breakerVars, sourceVars, delivered, hard, faults>>

\* The process dies wherever it is.
Crash(w) ==
  /\ pc[w] # "stopped"
  /\ faults < MaxFaults
  /\ faults' = faults + 1
  /\ Halted(w)
  /\ UNCHANGED <<queueVars, hist, stopping, snap, err, breakerVars, sourceVars, delivered, hard>>

\* Seeded fault: no recovery of rows stuck in 'processing'.
FetchableNoRecovery ==
  {e \in Entry : \/ status[e] = "pending" /\ retry[e] # "wait"
                 \/ status[e] = "failed" /\ attempts[e] < MaxAttempts /\ retry[e] = "due"}

\* The WHERE clause of FetchPending.
Fetchable ==
  {e \in Entry : \/ status[e] = "pending" /\ retry[e] # "wait"
                 \/ status[e] = "failed" /\ attempts[e] < MaxAttempts /\ retry[e] = "due"
                 \/ status[e] = "processing" /\ stale[e]}

FetchPending(w, S) ==
  /\ pc[w] = "idle"
  /\ ~stopping[w]
  /\ S # {} /\ S \subseteq Fetchable
  /\ Cardinality(S) <= BatchSize
  /\ Cardinality(S) = BatchSize \/ S = Fetchable
  /\ todo' = [todo EXCEPT ![w] = S]
  /\ snap' = [snap EXCEPT ![w] = [e \in Entry |-> IF e \in S THEN attempts[e] ELSE 0]]
  /\ pc' = [pc EXCEPT ![w] = "entry"]
  /\ UNCHANGED <<queueVars, hist, stopping, cur, err, breakerVars, sourceVars, delivered, hard, faults>>

\* processWorkspace's loop variable moves past row e.
Skip(w, e) ==
  /\ todo' = [todo EXCEPT ![w] = @ \ {e}]
  /\ cur' = [cur EXCEPT ![w] = NoEntry]
  /\ pc' = [pc EXCEPT ![w] = IF todo[w] \ {e} = {} THEN "idle" ELSE "entry"]

\* CircuitBreaker.IsOpen: an open breaker whose cooldown is over resets.
BreakerOpen(w) == isOpen[w] /\ ~cooled[w]

\* Seeded fault: the breaker closes but keeps its count.
CloseKeepingCount(w) ==
  /\ isOpen' = [isOpen EXCEPT ![w] = FALSE]
  /\ UNCHANGED <<failures, cooled>>

\* Evaluated where BreakerOpen is false: open means open and cooled.
ResetIfCooled(w) ==
  /\ failures' = [failures EXCEPT ![w] = IF isOpen[w] THEN 0 ELSE @]
  /\ isOpen' = [isOpen EXCEPT ![w] = FALSE]
  /\ UNCHANGED cooled

\* Seeded fault: a 'processing' row is taken over whatever its age.
ClaimableAtAnyAge(e) == status[e] \in {"pending", "failed", "processing"}

\* The WHERE clause of MarkAsProcessing: it looks at neither next_retry_at
\* nor max_attempts.
Claimable(e) ==
  \/ status[e] \in {"pending", "failed"}
  \/ status[e] = "processing" /\ stale[e]

\* Seeded fault: the claim is not counted.
MarkAsProcessingUncounted(w, e, next) ==
  /\ status' = [status EXCEPT ![e] = "processing"]
  /\ stale' = [stale EXCEPT ![e] = FALSE]
  /\ todo' = [todo EXCEPT ![w] = @ \ {e}]
  /\ cur' = [cur EXCEPT ![w] = e]
  /\ pc' = [pc EXCEPT ![w] = next]
  /\ UNCHANGED <<attempts, retry, snap>>

MarkAsProcessing(w, e, next) ==
  /\ status' = [status EXCEPT ![e] = "processing"]
  /\ stale' = [stale EXCEPT ![e] = FALSE]
  /\ attempts' = [attempts EXCEPT ![e] = @ + 1]
  /\ todo' = [todo EXCEPT ![w] = @ \ {e}]
  /\ cur' = [cur EXCEPT ![w] = e]
  /\ pc' = [pc EXCEPT ![w] = next]
  /\ UNCHANGED <<retry, snap>>

\* SetNextRetry has no condition on the row's status.
DeferRow(e) ==
  /\ status' = [status EXCEPT ![e] = IF Live(e) THEN "pending" ELSE @]
  /\ retry' = [retry EXCEPT ![e] = IF Live(e) THEN "wait" ELSE @]
  /\ stale' = [stale EXCEPT ![e] = FALSE]
  /\ UNCHANGED attempts

\* processEntry with the breaker open.
Defer(w, e) ==
  /\ pc[w] = "entry" /\ e \in todo[w] /\ ~stopping[w]
  /\ BreakerOpen(w)
  /\ DeferRow(e)
  /\ Skip(w, e)
  /\ UNCHANGED <<hist, stopping, snap, err, breakerVars, sourceVars, delivered, hard, faults>>

\* processEntry up to the rate limiter.
Claim(w, e) ==
  /\ pc[w] = "entry" /\ e \in todo[w] /\ ~stopping[w]
  /\ ~BreakerOpen(w)
  /\ ResetIfCooled(w)
  /\ \/ Claimable(e) /\ MarkAsProcessing(w, e, "claimed")
     \/ ~Claimable(e) /\ Skip(w, e) /\ UNCHANGED <<queueVars, snap>>
  /\ UNCHANGED <<hist, stopping, err, sourceVars, delivered, hard, faults>>

\* processEntry when the row's integration is no longer in the workspace.
ClaimOrphan(w, e) ==
  /\ pc[w] = "entry" /\ e \in todo[w] /\ ~stopping[w]
  /\ \/ Claimable(e) /\ MarkAsProcessing(w, e, "errored")
     \/ ~Claimable(e) /\ Skip(w, e) /\ UNCHANGED <<queueVars, snap>>
  /\ err' = [err EXCEPT ![w] = "noIntegration"]
  /\ UNCHANGED <<hist, stopping, breakerVars, sourceVars, delivered, hard, faults>>

\* rateLimiter.Wait returns because w.ctx was cancelled: the row stays
\* 'processing'.
WaitCancelled(w) ==
  /\ pc[w] = "claimed"
  /\ stopping[w]
  /\ Skip(w, cur[w])
  /\ UNCHANGED <<queueVars, hist, stopping, snap, err, breakerVars, sourceVars, delivered, hard, faults>>

\* SendEmail returns nil; RecordSuccess closes the breaker.
SendSucceeds(w) ==
  /\ pc[w] = "claimed"
  /\ delivered' = [delivered EXCEPT ![cur[w]] = @ + 1]
  /\ pc' = [pc EXCEPT ![w] = "sent"]
  /\ failures' = [failures EXCEPT ![w] = 0]
  /\ isOpen' = [isOpen EXCEPT ![w] = FALSE]
  /\ UNCHANGED <<queueVars, hist, stopping, todo, snap, cur, err, cooled, sourceVars, hard, faults>>

\* Seeded fault: the breaker opens one failure late.
RecordFailureLate(w, c) ==
  IF TripsBreaker(c)
  THEN /\ failures' = [failures EXCEPT ![w] = @ + 1]
       /\ isOpen' = [isOpen EXCEPT ![w] = IF failures[w] + 1 > Threshold THEN TRUE ELSE @]
       /\ cooled' = [cooled EXCEPT ![w] = FALSE]
  ELSE UNCHANGED breakerVars

\* SendEmail returns an error of class c; RecordFailure counts all but
\* recipient errors.
RecordFailure(w, c) ==
  IF TripsBreaker(c)
  THEN /\ failures' = [failures EXCEPT ![w] = @ + 1]
       /\ isOpen' = [isOpen EXCEPT ![w] = IF failures[w] + 1 >= Threshold THEN TRUE ELSE @]
       /\ cooled' = [cooled EXCEPT ![w] = FALSE]
  ELSE UNCHANGED breakerVars

SendFails(w, c) ==
  /\ pc[w] = "claimed"
  /\ pc' = [pc EXCEPT ![w] = "errored"]
  /\ err' = [err EXCEPT ![w] = c]
  /\ hard' = [hard EXCEPT ![cur[w]] = IF Retryable(c) THEN @ ELSE TRUE]
  /\ RecordFailure(w, c)
  /\ UNCHANGED <<queueVars, hist, stopping, todo, snap, cur, sourceVars, delivered, faults>>

\* The provider accepted the email and its answer was lost.
AnswerLost(w) ==
  /\ pc[w] = "claimed"
  /\ faults < MaxFaults
  /\ faults' = faults + 1
  /\ delivered' = [delivered EXCEPT ![cur[w]] = @ + 1]
  /\ pc' = [pc EXCEPT ![w] = "errored"]
  /\ err' = [err EXCEPT ![w] = "transient"]
  /\ RecordFailure(w, "transient")
  /\ UNCHANGED <<queueVars, hist, stopping, todo, snap, cur, sourceVars, hard>>

\* DELETE FROM email_queue WHERE id = $1.
DeleteRow(e) ==
  /\ status' = [status EXCEPT ![e] = "gone"]
  /\ UNCHANGED <<attempts, retry, stale>>

MarkAsSent(w) ==
  /\ pc[w] = "sent" /\ ~stopping[w]
  /\ DeleteRow(cur[w])
  /\ pc' = [pc EXCEPT ![w] = "marked"]
  /\ UNCHANGED <<hist, stopping, todo, snap, cur, err, breakerVars, sourceVars, delivered, hard, faults>>

\* Seeded fault: ON CONFLICT DO NOTHING instead of DO UPDATE.
RecordSentOnce(w) ==
  /\ pc[w] = "marked" /\ ~stopping[w]
  /\ hist' = [hist EXCEPT ![cur[w]] = IF @ = "none" THEN "sent" ELSE @]
  /\ Skip(w, cur[w])
  /\ UNCHANGED <<queueVars, stopping, snap, err, breakerVars, sourceVars, delivered, hard, faults>>

\* upsertMessageHistory after a success, the last step of processEntry.
RecordSent(w) ==
  /\ pc[w] = "marked" /\ ~stopping[w]
  /\ hist' = [hist EXCEPT ![cur[w]] = "sent"]
  /\ Skip(w, cur[w])
  /\ UNCHANGED <<queueVars, stopping, snap, err, breakerVars, sourceVars, delivered, hard, faults>>

\* handleError: upsertMessageHistory first, ...
RecordFailed(w) ==
  /\ pc[w] = "errored" /\ ~stopping[w]
  /\ hist' = [hist EXCEPT ![cur[w]] = "failed"]
  /\ pc' = [pc EXCEPT ![w] = "disposing"]
  /\ UNCHANGED <<queueVars, stopping, todo, snap, cur, err, breakerVars, sourceVars, delivered, hard, faults>>

\* Seeded faults: the claim counted twice, and not at all.
IsPermanentEarly(w) ==
  \/ snap[w][cur[w]] + 2 >= MaxAttempts
  \/ ~Retryable(err[w])

IsPermanentLate(w) ==
  \/ snap[w][cur[w]] + 1 > MaxAttempts
  \/ ~Retryable(err[w])

\* ... then the row is deleted or scheduled for a retry, judged by the
\* attempts of the snapshot plus one.
IsPermanent(w) ==
  \/ snap[w][cur[w]] + 1 >= MaxAttempts
  \/ ~Retryable(err[w])

\* MarkAsFailed has no condition on the row's status.
FailRow(e) ==
  /\ status' = [status EXCEPT ![e] = IF Live(e) THEN "failed" ELSE @]
  /\ retry' = [retry EXCEPT ![e] = IF Live(e) THEN "wait" ELSE @]
  /\ stale' = [stale EXCEPT ![e] = FALSE]
  /\ UNCHANGED attempts

Dispose(w) ==
  /\ pc[w] = "disposing" /\ ~stopping[w]
  /\ IF IsPermanent(w) THEN DeleteRow(cur[w]) ELSE FailRow(cur[w])
  /\ Skip(w, cur[w])
  /\ UNCHANGED <<hist, stopping, snap, err, breakerVars, sourceVars, delivered, hard, faults>>

\* A database call of processEntry or handleError returns an error: the
\* error is logged and the code goes on as if the call were not there.
\* With w.ctx cancelled every call fails.
CallFails(w) ==
  /\ stopping[w] \/ faults < MaxFaults
  /\ faults' = IF stopping[w] THEN faults ELSE faults + 1
  /\ \/ pc[w] = "entry" /\ ~stopping[w] /\ \E e \in todo[w] : Skip(w, e)
     \/ pc[w] \in {"sent", "marked", "disposing"} /\ Skip(w, cur[w])
     \/ pc[w] = "errored" /\ pc' = [pc EXCEPT ![w] = "disposing"] /\ UNCHANGED <<todo, cur>>
  /\ UNCHANGED <<queueVars, hist, stopping, snap, err, breakerVars, sourceVars, delivered, hard>>

-----------------------------------------------------------------------------
(* Time.                                                                   *)

RetryComesDue(e) ==
  /\ retry[e] = "wait"
  /\ retry' = [retry EXCEPT ![e] = "due"]
  /\ UNCHANGED <<status, attempts, stale, hist, workerVars, breakerVars, sourceVars, delivered, hard, faults>>

\* A row has been 'processing' for two minutes.  Nothing bounds a send (the
\* SMTP conversation has a dial timeout only), so with SlowSends its worker
\* may still be at it.
ClaimGoesStale(e) ==
  /\ status[e] = "processing" /\ ~stale[e]
  /\ SlowSends \/ \A w \in Worker : ~InFlight(w, e)
  /\ stale' = [stale EXCEPT ![e] = TRUE]
  /\ UNCHANGED <<status, attempts, retry, hist, workerVars, breakerVars, sourceVars, delivered, hard, faults>>

CooldownEnds(w) ==
  /\ isOpen[w] /\ ~cooled[w]
  /\ cooled' = [cooled EXCEPT ![w] = TRUE]
  /\ UNCHANGED <<queueVars, hist, workerVars, failures, isOpen, sourceVars, delivered, hard, faults>>

-----------------------------------------------------------------------------
\* One step of worker w's goroutine.
WorkerStep(w) ==
  \/ LoopExits(w)
  \/ \E S \in SUBSET Entry : FetchPending(w, S)
  \/ \E e \in Entry : Defer(w, e) \/ Claim(w, e) \/ ClaimOrphan(w, e)
  \/ WaitCancelled(w) \/ SendSucceeds(w) \/ \E c \in SendError : SendFails(w, c)
  \/ MarkAsSent(w) \/ RecordSent(w) \/ RecordFailed(w) \/ Dispose(w) \/ CallFails(w)

UserStep(s) ==
  \/ \E S \in SUBSET Entry : Enqueue(s, S)
  \/ PauseBySource(s) \/ ResumeBySource(s) \/ DeleteBySource(s)

Fault(w) == Stop(w) \/ Crash(w) \/ AnswerLost(w)

TimePasses ==
  \/ \E e \in Entry : RetryComesDue(e) \/ ClaimGoesStale(e)
  \/ \E w \in Worker : CooldownEnds(w)

Next ==
  \/ \E w \in Worker : Start(w) \/ WorkerStep(w) \/ Fault(w)
  \/ \E s \in Source : UserStep(s)
  \/ TimePasses

Spec == Init /\ [][Next]_vars

\* The ticker keeps polling, calls return, an instance that went down is
\* started again, and time passes.
Fairness ==
  /\ \A w \in Worker : WF_vars(Start(w)) /\ WF_vars(WorkerStep(w)) /\ WF_vars(CooldownEnds(w))
  /\ \A e \in Entry : WF_vars(RetryComesDue(e)) /\ WF_vars(ClaimGoesStale(e))

FairSpec == Spec /\ Fairness
-----------------------------------------------------------------------------
(* Properties.                                                             *)

\* A row leaves the table only with a reason: the provider accepted the
\* email, refused it for good, max_attempts claims were spent on it, or its
\* source was cancelled (MarkAsSent, Delete and DeleteBySource are the only
\* deletions, and handleError judges by a snapshot that may be out of date).
NoSilentLoss ==
  \A e \in Entry :
    status[e] = "gone" =>
      \/ delivered[e] > 0
      \/ hard[e]
      \/ attempts[e] >= MaxAttempts
      \/ src[SourceOf[e]] = "cancelled"

\* A recipient gets the same email twice only where a crash, a shutdown, a
\* failed call or a lost answer came between the send and the DELETE of
\* MarkAsSent; each duplicate needs a fault of its own.
DuplicatesNeedFaults ==
  \A e \in Entry : delivered[e] <= 1 + faults

\* Every copy the provider accepted was counted as an attempt first: however
\* many workers, crashes and reclaims, a claim (MarkAsProcessing) is good for
\* one email, so the attempts column bounds what a recipient receives.
EveryCopyWasClaimed ==
  \A e \in Entry : delivered[e] <= attempts[e]

\* A row waiting for a retry still has an attempt left, so FetchPending will
\* see it again: handleError deletes a row whose attempts are exhausted.
NoStrandedRow ==
  \A e \in Entry : status[e] = "failed" => attempts[e] < MaxAttempts

\* No two workers are between MarkAsProcessing and the final statement of
\* the same row.
SingleSender ==
  \A v, w \in Worker, e \in Entry : InFlight(v, e) /\ InFlight(w, e) => v = w

\* Once a broadcast is paused or cancelled the provider is given no email of
\* it but those whose row was mid-send, or not yet enqueued, at that moment.
HaltStopsDelivery ==
  [][\A e \in Entry :
       delivered'[e] > delivered[e] /\ src[SourceOf[e]] # "live"
         => e \in tail[SourceOf[e]]]_vars

\* The same for a cancellation alone.
CancelStopsDelivery ==
  [][\A e \in Entry :
       delivered'[e] > delivered[e] /\ src[SourceOf[e]] = "cancelled"
         => e \in tail[SourceOf[e]]]_vars

\* While no fault has happened, message_history ends up telling the truth
\* about every row the workers are done with: "sent" exactly when the
\* provider accepted the email, whatever failed attempts came before.
HistoryMatchesOutcome ==
  \A e \in Entry :
    /\ faults = 0
    /\ status[e] = "gone"
    /\ \A w \in Worker : cur[w] # e
    => (hist[e] = "sent" <=> delivered[e] > 0)

\* A worker calls the provider only while its breaker is closed, and a closed
\* breaker has counted fewer failures than the threshold: at most Threshold
\* provider failures in a row reach the provider between two cooldowns.
BreakerGuardsProvider ==
  \A w \in Worker :
    /\ isOpen[w] <=> failures[w] >= Threshold
    /\ pc[w] = "claimed" => ~isOpen[w]

\* Every enqueued row is eventually sent, dropped or deleted, or its
\* broadcast is paused: crashes, retries and an open breaker only delay it.
EveryRowSettles ==
  \A e \in Entry : (status[e] # "absent") ~> (status[e] \in {"gone", "paused"})

\* The inductive strengthening of NoSilentLoss: what each worker knows about
\* the row in its hands.  Its snapshot is behind the attempts column, a send
\* it is about to record did happen, an error it treats as final was final.
WorkerInv(w) ==
  /\ \A e \in todo[w] : snap[w][e] <= attempts[e]
  /\ pc[w] \in {"claimed", "sent", "marked", "errored", "disposing"} =>
       cur[w] \in Entry /\ snap[w][cur[w]] < attempts[cur[w]]
  /\ pc[w] \in {"sent", "marked"} => delivered[cur[w]] > 0
  /\ pc[w] \in {"errored", "disposing"} /\ ~Retryable(err[w]) => hard[cur[w]]

IInv ==
  /\ TypeOK
  /\ BreakerGuardsProvider
  /\ \A w \in Worker : WorkerInv(w)
  /\ NoSilentLoss
===============================================================================
