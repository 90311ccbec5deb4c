--------------------------- MODULE WebhookDelivery ---------------------------
(***************************************************************************)
(* Outgoing webhooks of a workspace: subscriptions and the commands on     *)
(* them (internal/service/webhook_subscription_service.go), the rows the   *)
(* triggers of internal/database/init.go insert into webhook_deliveries,   *)
(* and the worker that posts them, one in each instance of the server      *)
(* (internal/service/webhook_delivery_worker.go,                           *)
(* internal/repository/webhook_delivery_postgres.go).                      *)
(*                                                                         *)
(* A delivery is an event paired with a subscription.  A row comes due at  *)
(* its next_attempt_at, so the order of next_attempt_at among due rows is  *)
(* the order in which they came due: the sequence due.  A secret is a      *)
(* number; the receiver accepts a request signed with the secret it was    *)
(* last given.                                                             *)
(***************************************************************************)
EXTENDS Integers, FiniteSets, SequencesExt

CONSTANTS
  Event,         \* events of the workspace
  Subscription,  \* webhook subscriptions
  User,          \* console sessions and API clients
  Worker,        \* instances of WebhookDeliveryWorker
  MaxAttempts,   \* max_attempts of a row (10 in the code)
  BatchSize,     \* rows of a batch (100 in the code)
  MaxCommands,   \* bound on changes of subscriptions and on weeks
  MaxFaults      \* bound on failed statements, lost answers and crashes

ASSUME WebhookAssumption ==
  /\ IsFiniteSet(Event) /\ IsFiniteSet(Subscription)
  /\ MaxAttempts \in Nat \ {0}
  /\ BatchSize \in Nat \ {0}
  /\ MaxCommands \in Nat
  /\ MaxFaults \in Nat

VARIABLES
  sub,           \* webhook_subscriptions
  known,         \* secret each receiver was last given
  row,           \* webhook_deliveries
  due,           \* rows whose next_attempt_at has passed, in its order
  old,           \* rows older than the retention period
  upc,           \* where each user's command is
  ucopy,         \* the subscription it read
  pc,            \* where each worker is
  batch,         \* rows it has still to process, as it read them
  cache,         \* subscriptions it has looked up for this batch
  accepted,      \* requests each receiver has accepted
  tried,         \* attempts that came to their end
  open,          \* subscriptions enabled at some time since the worker's batch
  commands,      \* changes so far
  faults         \* faults so far

subVars    == <<sub, known, upc, ucopy>>
tableVars  == <<row, due, old>>
workerVars == <<pc, batch, cache, open>>
countVars  == <<accepted, tried>>
vars == <<subVars, tableVars, workerVars, countVars, commands, faults>>

Delivery == Event \X Subscription
SubRow   == [state : {"none", "enabled", "disabled", "deleted"}, secret : Nat]
Row      == [status : {"none", "pending", "failed", "delivered", "gone"}, attempts : Nat]
Snapshot == [id : Delivery, attempts : Nat]

NoSub == [state |-> "none", secret |-> 0]

TypeOK ==
  /\ sub \in [Subscription -> SubRow] /\ known \in [Subscription -> Nat]
  /\ row \in [Delivery -> Row] /\ due \in Seq(Delivery) /\ old \subseteq Delivery
  /\ upc \in [User -> {"idle"} \cup Subscription] /\ ucopy \in [User -> SubRow]
  /\ pc \in [Worker -> {"idle", "batch", "ok", "error"}]
  /\ batch \in [Worker -> Seq(Snapshot)]
  /\ cache \in [Worker -> [Subscription -> SubRow]]
  /\ accepted \in [Delivery -> Nat] /\ tried \in [Delivery -> Nat]
  /\ open \in [Worker -> SUBSET Subscription]
  /\ commands \in Nat /\ faults \in Nat

Init ==
  /\ sub = [s \in Subscription |-> NoSub]
  /\ known = [s \in Subscription |-> 0]
  /\ row = [d \in Delivery |-> [status |-> "none", attempts |-> 0]]
  /\ due = <<>>
  /\ old = {}
  /\ upc = [u \in User |-> "idle"]
  /\ ucopy = [u \in User |-> NoSub]
  /\ pc = [w \in Worker |-> "idle"]
  /\ batch = [w \in Worker |-> <<>>]
  /\ cache = [w \in Worker |-> [s \in Subscription |-> NoSub]]
  /\ accepted = [d \in Delivery |-> 0]
  /\ tried = [d \in Delivery |-> 0]
  /\ open = [w \in Worker |-> {}]
  /\ commands = 0
  /\ faults = 0

Enabled == {s \in Subscription : sub[s].state = "enabled"}
Counted == commands < MaxCommands /\ commands' = commands + 1
Fault   == faults < MaxFaults /\ faults' = faults + 1

-----------------------------------------------------------------------------
(* Subscriptions.                                                          *)

\* A write of the row of s; the workers' batches have seen it enabled.
Put(s, r) ==
  /\ sub' = [sub EXCEPT ![s] = r]
  /\ open' = [w \in Worker |-> IF r.state = "enabled" THEN open[w] \cup {s} ELSE open[w]]

\* Create: enabled, with a secret that the receiver is given.
Create(s) ==
  /\ sub[s].state = "none"
  /\ Put(s, [state |-> "enabled", secret |-> 1])
  /\ known' = [known EXCEPT ![s] = 1]
  /\ UNCHANGED <<tableVars, upc, ucopy, pc, batch, cache, countVars, commands, faults>>

\* GetByID, with which Update, Toggle and RegenerateSecret begin.
Open(u, s) ==
  /\ upc[u] = "idle"
  /\ sub[s].state \in {"enabled", "disabled"}
  /\ upc' = [upc EXCEPT ![u] = s]
  /\ ucopy' = [ucopy EXCEPT ![u] = sub[s]]
  /\ UNCHANGED <<sub, known, tableVars, workerVars, countVars, commands, faults>>

\* The command is over.
Return(u) ==
  /\ upc' = [upc EXCEPT ![u] = "idle"]
  /\ ucopy' = [ucopy EXCEPT ![u] = NoSub]

\* The UPDATE of the whole row, from the copy; none is left to update once
\* the subscription is deleted, which is an error.
Save(u, r) ==
  /\ upc[u] # "idle"
  /\ Counted
  /\ LET s == upc[u] IN
       IF sub[s].state = "deleted" THEN UNCHANGED <<sub, open>> ELSE Put(s, r)
  /\ Return(u)
  /\ UNCHANGED <<tableVars, pc, batch, cache, countVars, faults>>

\* Toggle, and Update of anything but the secret.
Toggle(u, enabled) ==
  /\ Save(u, [ucopy[u] EXCEPT !.state = IF enabled THEN "enabled" ELSE "disabled"])
  /\ UNCHANGED known

\* RegenerateSecret: the receiver is given what the command returns.
RegenerateSecret(u) ==
  LET secret == commands + 2 IN
  /\ Save(u, [ucopy[u] EXCEPT !.secret = secret])
  /\ known' = IF sub[upc[u]].state = "deleted" THEN known ELSE [known EXCEPT ![upc[u]] = secret]

Delete(s) ==
  /\ sub[s].state \in {"enabled", "disabled"}
  /\ Counted
  /\ Put(s, [sub[s] EXCEPT !.state = "deleted"])
  /\ UNCHANGED <<known, tableVars, upc, ucopy, pc, batch, cache, countVars, faults>>

-----------------------------------------------------------------------------
(* Events and time.                                                        *)

\* A trigger inserts a row for each enabled subscription that asks for the
\* event, with the same next_attempt_at.
Fire(e, M) ==
  /\ \A s \in Subscription : row[<<e, s>>].status = "none"
  /\ M \cap Enabled # {}
  /\ row' = [d \in Delivery |-> IF d \in {e} \X (M \cap Enabled)
                                THEN [status |-> "pending", attempts |-> 0] ELSE row[d]]
  /\ \E q \in SetToSeqs({e} \X (M \cap Enabled)) : due' = due \o q
  /\ UNCHANGED <<old, subVars, workerVars, countVars, commands, faults>>

IsWaiting(d) ==
  row[d].status \in {"pending", "failed"} /\ row[d].attempts < MaxAttempts /\ ~Contains(due, d)

\* next_attempt_at passes.
ComesDue(d) ==
  /\ IsWaiting(d)
  /\ due' = Append(due, d)
  /\ UNCHANGED <<row, old, subVars, workerVars, countVars, commands, faults>>

WeekPasses ==
  /\ Counted
  /\ old' = {d \in Delivery : row[d].status # "none"}
  /\ UNCHANGED <<row, due, subVars, workerVars, countVars, faults>>

-----------------------------------------------------------------------------
(* The worker.                                                             *)

\* c came due before d.
Before(c, d) == \E i, j \in DOMAIN due : i < j /\ due[i] = c /\ due[j] = d

\* What is left of the due rows without those of S, in the same order.
Rest(S) ==
  {q \in SetToSeqs(ToSet(due) \ S) :
     \A i, j \in DOMAIN q : i < j => Before(q[i], q[j])}

\* cleanupOldDeliveries, whatever the status of the rows.
CleanupOldDeliveries(w) ==
  /\ pc[w] = "idle"
  /\ old # {}
  /\ row' = [d \in Delivery |-> IF d \in old THEN [status |-> "gone", attempts |-> 0] ELSE row[d]]
  /\ due' \in Rest(old)
  /\ old' = {}
  /\ UNCHANGED <<subVars, workerVars, countVars, commands, faults>>

\* Seeded fault: rows that are delivered are read again.
DueWhateverStatus(d) == row[d].attempts < MaxAttempts

\* Seeded fault: rows that failed are not read again.
NotYetTried(d) == row[d].status = "pending"

\* The WHERE of GetPendingForWorkspace.
IsPending(d) == row[d].status \in {"pending", "failed"} /\ row[d].attempts < MaxAttempts

Pending == {d \in Delivery : IsPending(d) /\ Contains(due, d)}

\* q is what ORDER BY next_attempt_at LIMIT returns.
IsBatch(q, n) ==
  /\ \A i, j \in 1 .. n : i < j => Before(q[i], q[j])
  /\ \A d \in Pending : (\E i \in 1 .. n : q[i] = d) \/ (n = BatchSize /\ Before(q[n], d))

\* A tick: GetPendingForWorkspace, and an empty cache of subscriptions.
Tick(w) ==
  /\ pc[w] = "idle"
  /\ \E n \in 1 .. BatchSize : \E q \in [1 .. n -> Pending] :
       /\ IsBatch(q, n)
       /\ batch' = [batch EXCEPT ![w] = [i \in 1 .. n |-> [id |-> q[i], attempts |-> row[q[i]].attempts]]]
  /\ cache' = [cache EXCEPT ![w] = [s \in Subscription |-> NoSub]]
  /\ open' = [open EXCEPT ![w] = Enabled]
  /\ pc' = [pc EXCEPT ![w] = "batch"]
  /\ UNCHANGED <<subVars, tableVars, countVars, commands, faults>>

InHand(w) == Head(batch[w])
Target(w) == InHand(w).id[2]

\* The worker is through with the row in hand.
NextRow(w) ==
  /\ batch' = [batch EXCEPT ![w] = Tail(@)]
  /\ pc' = [pc EXCEPT ![w] = IF Len(batch[w]) = 1 THEN "idle" ELSE "batch"]

\* The subscription is looked up once in a batch; that it is gone, or that
\* the query fails, is logged and the row left alone.
Lookup(w) ==
  /\ pc[w] = "batch" /\ cache[w][Target(w)] = NoSub
  /\ \/ /\ sub[Target(w)].state # "deleted"
        /\ cache' = [cache EXCEPT ![w][Target(w)] = sub[Target(w)]]
        /\ UNCHANGED <<pc, batch, faults>>
     \/ /\ IF sub[Target(w)].state = "deleted" THEN UNCHANGED faults ELSE Fault
        /\ NextRow(w)
        /\ UNCHANGED cache
  /\ UNCHANGED <<subVars, tableVars, countVars, open, commands>>

\* Seeded fault: the subscription's state is not looked at.
SkipsNone(w) == FALSE

\* A row of a disabled subscription is left alone.
Skips(w) == cache[w][Target(w)].state = "disabled"

Skip(w) ==
  /\ pc[w] = "batch" /\ cache[w][Target(w)] # NoSub
  /\ Skips(w)
  /\ NextRow(w)
  /\ UNCHANGED <<subVars, tableVars, countVars, cache, open, commands, faults>>

\* processDelivery up to the answer.  A request signed with another secret
\* than the receiver's is refused; any request may fail.  An answer that is
\* late or lost is an error to the worker, whatever the receiver did.
Post(w) ==
  /\ pc[w] = "batch" /\ cache[w][Target(w)] # NoSub
  /\ ~Skips(w)
  /\ \/ /\ cache[w][Target(w)].secret = known[Target(w)]
        /\ accepted' = [accepted EXCEPT ![InHand(w).id] = @ + 1]
        /\ \/ pc' = [pc EXCEPT ![w] = "ok"] /\ UNCHANGED faults
           \/ pc' = [pc EXCEPT ![w] = "error"] /\ Fault
     \/ /\ pc' = [pc EXCEPT ![w] = "error"]
        /\ UNCHANGED <<accepted, faults>>
  /\ UNCHANGED <<subVars, tableVars, batch, cache, open, tried, commands>>

\* An UPDATE of the row in hand changes nothing once the row is deleted.
Update(d, r) == row' = [row EXCEPT ![d] = IF @.status = "gone" THEN @ ELSE r]

\* The attempt is over; that its outcome is not written is logged.
Ended(w) ==
  /\ tried' = [tried EXCEPT ![InHand(w).id] = @ + 1]
  /\ NextRow(w)
  /\ UNCHANGED <<subVars, old, cache, open, accepted, commands>>

\* handleDeliverySuccess: MarkDelivered.
HandleDeliverySuccess(w) ==
  /\ pc[w] = "ok"
  /\ LET d == InHand(w).id IN
       \/ Update(d, [status |-> "delivered", attempts |-> row[d].attempts + 1]) /\ UNCHANGED faults
       \/ UNCHANGED row /\ Fault
  /\ UNCHANGED due
  /\ Ended(w)

\* Seeded fault: attempts are counted down.
FewerAttempts(w) == InHand(w).attempts - 1

\* Seeded fault: it is counted here and in the UPDATE.
TwoMoreAttempts(w) == InHand(w).attempts + 2

\* attempts := delivery.Attempts + 1, of the row as the batch read it.
NextAttempts(w) == InHand(w).attempts + 1

\* handleDeliveryFailure: MarkFailed, or ScheduleRetry, which moves
\* next_attempt_at; that either fails leaves the row due.
HandleDeliveryFailure(w) ==
  /\ pc[w] = "error"
  /\ LET d == InHand(w).id IN
       \/ /\ Update(d, [status |-> "failed", attempts |-> NextAttempts(w)])
          /\ IF NextAttempts(w) >= MaxAttempts THEN UNCHANGED due ELSE due' \in Rest({d})
          /\ UNCHANGED faults
       \/ UNCHANGED <<row, due>> /\ Fault
  /\ Ended(w)

\* The instance is stopped or dies.
Crash(w) ==
  /\ pc[w] # "idle"
  /\ Fault
  /\ pc' = [pc EXCEPT ![w] = "idle"]
  /\ batch' = [batch EXCEPT ![w] = <<>>]
  /\ UNCHANGED <<subVars, tableVars, countVars, cache, open, commands>>

-----------------------------------------------------------------------------
Command(u) ==
  \/ \E s \in Subscription : Open(u, s)
  \/ \E b \in BOOLEAN : Toggle(u, b)
  \/ RegenerateSecret(u)

Work(w) ==
  Tick(w) \/ Lookup(w) \/ Skip(w) \/ Post(w) \/ HandleDeliverySuccess(w) \/ HandleDeliveryFailure(w)

Next ==
  \/ \E s \in Subscription : Create(s) \/ Delete(s)
  \/ \E u \in User : Command(u)
  \/ \E e \in Event, M \in SUBSET Subscription : Fire(e, M)
  \/ \E d \in Delivery : ComesDue(d)
  \/ WeekPasses
  \/ \E w \in Worker : CleanupOldDeliveries(w) \/ Work(w) \/ Crash(w)

Spec == Init /\ [][Next]_vars

\* The worker's ticker runs for the life of the server and its requests time
\* out; time passes.
FairSpec ==
  /\ Spec
  /\ \A w \in Worker : WF_vars(Work(w))
  /\ \A d \in Delivery : WF_vars(ComesDue(d))
-----------------------------------------------------------------------------
(* Properties.                                                             *)

\* A delivery is given up only after max_attempts attempts came to their end,
\* however many workers count from rows they read earlier.
GivenUpIsExhausted ==
  \A d \in Delivery :
    row[d].status = "failed" /\ row[d].attempts >= MaxAttempts => tried[d] >= MaxAttempts

\* With one worker a receiver accepts a delivery twice only after a fault: an
\* answer that was lost, an outcome that was not written, or a crash between.
AcceptedOncePerFault == \A d \in Delivery : accepted[d] <= 1 + faults

\* With one worker a delivered row is not opened again.
DeliveredIsFinal ==
  [][\A d \in Delivery : row[d].status = "delivered" => row'[d].status \in {"delivered", "gone"}]_vars

\* A subscription that has been disabled, or deleted, since before a batch was
\* read receives nothing of the batch, cached rows and all.
DisabledIsLeftAlone ==
  [][\A w \in Worker : pc[w] = "batch" /\ pc'[w] \in {"ok", "error"} => Target(w) \in open[w]]_vars

\* Nothing more is due to be done for d.
Settled(d) ==
  \/ row[d].status \in {"none", "delivered", "gone"}
  \/ row[d].attempts >= MaxAttempts
  \/ d[2] \notin Enabled

\* Every delivery to an enabled subscription is accepted or exhausts its
\* attempts, as long as rows of disabled and deleted subscriptions do not
\* fill a batch.
DeliveriesSettle == \A d \in Delivery : ~Settled(d) ~> Settled(d)

\* The secret of a subscription is the one its owner was last given.
SecretIsKnown == \A s \in Subscription : sub[s].state \in {"enabled", "disabled"} => sub[s].secret = known[s]
==============================================================================
