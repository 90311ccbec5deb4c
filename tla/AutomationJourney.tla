-------------------------- MODULE AutomationJourney --------------------------
(***************************************************************************)
(* The journeys of contacts through an automation: the AutomationScheduler *)
(* of each app instance and AutomationExecutor                             *)
(* (internal/service/automation_scheduler.go, automation_executor.go,      *)
(* automation_node_executor.go), composed with the automation's users and  *)
(* its enrolments.                                                         *)
(*                                                                         *)
(* A scheduler reads due rows outside a transaction, so their locks are    *)
(* gone before the first is executed, and works on copies: mem[w][j] is    *)
(* the ContactAutomation in memory, written back with one UPDATE by id.    *)
(* Time is what the code asks of it: whether scheduled_at is set, and      *)
(* whether it has passed.  Statistics and node executions are write-only   *)
(* and left out; automation.end events are counted.                        *)
(***************************************************************************)
EXTENDS Automation

CONSTANTS
  Scheduler,    \* app instances running an AutomationScheduler
  NoJourney,    \* "no current row"
  Kind,         \* node type: "email", "delay" or "other"
  Succ,         \* next nodes a node may lead to
  Exits,        \* nodes that may exit the journey (filters, unsubscribed)
  MaxRetries,   \* max_retries of a row (3 in the schema)
  MaxNodesPerTick, \* maxNodesPerTick (10 in the code)
  BatchSize     \* rows read by one tick

ASSUME JourneyAssumption ==
  /\ NoJourney \notin Journey
  /\ Kind \in [Node -> {"email", "delay", "other"}]
  /\ Succ \in [Node -> (SUBSET (Node \cup {NoNode})) \ {{}}]
  /\ Exits \subseteq Node
  /\ MaxRetries \in Nat \ {0}
  /\ MaxNodesPerTick \in Nat \ {0}
  /\ BatchSize \in Nat \ {0}

VARIABLES
  pc,           \* where ProcessBatch / Execute is
  todo,         \* rows read and not yet executed
  mem,          \* the rows in memory
  cur,          \* row being executed
  graph,        \* automation.Nodes as Execute read them
  steps,        \* iterations of Execute's loop
  mid,          \* schedulers inside Execute when the automation stopped
  sent,         \* emails enqueued for each row and node
  ends          \* automation.end events of each row

schedulerVars == <<pc, todo, mem, cur, graph, steps>>
outVars       == <<sent, ends>>
vars == <<automationVars, enrolVars, row, userVars, faults, schedulerVars, mid, outVars>>

PC  == {"idle", "batch", "node", "persist", "end", "error", "save"}
Row == [status : JStatus, node : Node \cup {NoNode}, sched : {"null", "wait", "due"}, retries : 0 .. MaxRetries]

\* The scheduler goes on with a row it has begun to execute.
Executing(w) == pc[w] \in {"node", "persist", "end", "error", "save"}

TypeOK ==
  /\ astatus \in AStatus /\ nodes \in SUBSET Node /\ deleted \in BOOLEAN /\ trigger \in BOOLEAN
  /\ log \subseteq Contact /\ enrol \in [Journey -> {"none", "checked", "over"}]
  /\ row \in [Journey -> Row]
  /\ upc \in [User -> UPC] /\ ucopy \in [User -> [status : AStatus, nodes : SUBSET Node]]
  /\ faults \in Nat
  /\ pc \in [Scheduler -> PC] /\ todo \in [Scheduler -> SUBSET Journey]
  /\ mem \in [Scheduler -> [Journey -> Row]]
  /\ cur \in [Scheduler -> Journey \cup {NoJourney}]
  /\ graph \in [Scheduler -> SUBSET Node] /\ steps \in [Scheduler -> 0 .. MaxNodesPerTick]
  /\ mid \subseteq Scheduler
  /\ sent \in [Journey -> [Node -> Nat]] /\ ends \in [Journey -> Nat]

JInit ==
  /\ Init
  /\ pc = [w \in Scheduler |-> "idle"]
  /\ todo = [w \in Scheduler |-> {}]
  /\ mem = [w \in Scheduler |-> [j \in Journey |-> NoRow]]
  /\ cur = [w \in Scheduler |-> NoJourney]
  /\ graph = [w \in Scheduler |-> Node]
  /\ steps = [w \in Scheduler |-> 0]
  /\ mid = {}
  /\ sent = [j \in Journey |-> [n \in Node |-> 0]]
  /\ ends = [j \in Journey |-> 0]

-----------------------------------------------------------------------------
(* ProcessBatch.                                                           *)

\* Seeded fault: rows of any status are read.
DueWhateverStatus == {j \in Journey : row[j].sched = "due" /\ row[j].status # "absent" /\ Live}

\* The WHERE clause of GetScheduledContactAutomations: a row without a
\* scheduled_at is never due.
Due == {j \in Journey : row[j].status = "active" /\ row[j].sched = "due" /\ Live}

GetScheduled(w, S) ==
  /\ pc[w] = "idle"
  /\ S # {} /\ S \subseteq Due
  /\ Cardinality(S) <= BatchSize
  /\ Cardinality(S) = BatchSize \/ S = Due
  /\ todo' = [todo EXCEPT ![w] = S]
  /\ mem' = [mem EXCEPT ![w] = [j \in Journey |-> IF j \in S THEN row[j] ELSE NoRow]]
  /\ pc' = [pc EXCEPT ![w] = "batch"]
  /\ UNCHANGED <<automationVars, enrolVars, row, userVars, faults, cur, graph, steps, mid, outVars>>

\* The loop of ProcessBatch moves on, whatever Execute returned.
Leave(w, j) ==
  /\ todo' = [todo EXCEPT ![w] = @ \ {j}]
  /\ cur' = [cur EXCEPT ![w] = NoJourney]
  /\ mem' = [mem EXCEPT ![w][j] = NoRow]
  /\ steps' = [steps EXCEPT ![w] = 0]
  /\ pc' = [pc EXCEPT ![w] = IF todo[w] \ {j} = {} THEN "idle" ELSE "batch"]
  /\ mid' = mid \ {w}

Enter(w, j, step) ==
  /\ cur' = [cur EXCEPT ![w] = j]
  /\ todo' = [todo EXCEPT ![w] = @ \ {j}]
  /\ pc' = [pc EXCEPT ![w] = step]
  /\ UNCHANGED <<steps, mid>>

\* Seeded fault: the automation.end event is forgotten.
FinishSilently(w, j, status) ==
  /\ mem' = [mem EXCEPT ![w][j].status = status, ![w][j].sched = "null"]
  /\ UNCHANGED ends

\* markAsCompleted and markAsExited: the automation.end event, then the write.
Finish(w, j, status) ==
  /\ mem' = [mem EXCEPT ![w][j].status = status, ![w][j].sched = "null"]
  /\ ends' = [ends EXCEPT ![j] = @ + 1]

-----------------------------------------------------------------------------
(* Execute.                                                                *)

\* Seeded fault: the automation's status is not looked at again.
RunsWhateverStatus == ~deleted

\* automation.Status != live returns early: the row stays as it is.
Runs == Live

\* Execute up to its loop.  A deleted automation is an error of GetByID, and
\* the contact or the automation may fail to load.
Begin(w, j) ==
  /\ pc[w] = "batch" /\ j \in todo[w]
  /\ graph' = [graph EXCEPT ![w] = nodes]
  /\ \/ Enter(w, j, "error") /\ UNCHANGED <<mem, ends>>
     \/ ~deleted /\ ~Runs /\ Leave(w, j) /\ UNCHANGED ends
     \/ Runs /\ mem[w][j].node = NoNode /\ Enter(w, j, "save") /\ Finish(w, j, "completed")
     \/ Runs /\ mem[w][j].node # NoNode /\ Enter(w, j, "node") /\ UNCHANGED <<mem, ends>>
  /\ UNCHANGED <<automationVars, enrolVars, row, userVars, faults, sent>>

\* Only a delay node sets scheduled_at.
SchedAfter(n) == IF Kind[n] = "delay" THEN "wait" ELSE "null"

\* The end of a path completes the journey, unless it is a delay.
StatusAfter(n, next) == IF next = NoNode /\ Kind[n] # "delay" THEN "completed" ELSE "active"

\* One iteration up to the node's effect: the node is gone, its executor
\* fails, the journey exits, or it moves on.
ExecuteNode(w) ==
  /\ pc[w] = "node"
  /\ LET j == cur[w]
         n == mem[w][j].node
         Moved(next, status) ==
           /\ mem' = [mem EXCEPT ![w][j].node = next, ![w][j].sched = SchedAfter(n), ![w][j].status = status]
           /\ pc' = [pc EXCEPT ![w] = "persist"]
           /\ steps' = [steps EXCEPT ![w] = @ + 1]
           /\ UNCHANGED <<todo, cur, ends>>
     IN \/ /\ n \notin graph[w]
           /\ Finish(w, j, "exited")
           /\ pc' = [pc EXCEPT ![w] = "save"]
           /\ UNCHANGED <<todo, cur, steps, sent>>
        \/ /\ n \in graph[w]
           /\ pc' = [pc EXCEPT ![w] = "error"]
           /\ UNCHANGED <<todo, cur, mem, steps, sent, ends>>
        \/ /\ n \in graph[w] \cap Exits
           /\ Moved(NoNode, "exited")
           /\ UNCHANGED sent
        \/ /\ n \in graph[w]
           /\ \E next \in Succ[n] : Moved(next, StatusAfter(n, next))
           /\ sent' = [sent EXCEPT ![j][n] = IF Kind[n] = "email" THEN @ + 1 ELSE @]
  /\ UNCHANGED <<automationVars, enrolVars, row, userVars, faults, graph, mid>>

\* Seeded fault: current_node_id is missing from the UPDATE.
WriteBackKeepingNode(w) ==
  row' = [row EXCEPT ![cur[w]] = [mem[w][cur[w]] EXCEPT !.node = row[cur[w]].node]]

\* UPDATE contact_automations ... WHERE id: the whole row, whatever became of
\* it since it was read.
WriteBack(w) == row' = [row EXCEPT ![cur[w]] = mem[w][cur[w]]]

\* UpdateContactAutomation after a node, and where the loop goes from there.
Persist(w) ==
  /\ pc[w] = "persist"
  /\ WriteBack(w)
  /\ LET r == mem[w][cur[w]] IN
       \/ /\ r.status # "active"
          /\ pc' = [pc EXCEPT ![w] = "end"]
          /\ UNCHANGED <<todo, mem, cur, steps, mid>>
       \/ /\ r.status = "active" /\ (r.sched = "wait" \/ steps[w] = MaxNodesPerTick)
          /\ Leave(w, cur[w])
       \/ /\ r.status = "active" /\ r.sched # "wait" /\ steps[w] < MaxNodesPerTick
          /\ pc' = [pc EXCEPT ![w] = "node"]
          /\ UNCHANGED <<todo, mem, cur, steps, mid>>
  /\ UNCHANGED <<automationVars, enrolVars, userVars, faults, graph, outVars>>

\* createAutomationEndEvent of a journey that ended in the loop.
EndEvent(w) ==
  /\ pc[w] = "end"
  /\ ends' = [ends EXCEPT ![cur[w]] = @ + 1]
  /\ Leave(w, cur[w])
  /\ UNCHANGED <<automationVars, enrolVars, row, userVars, faults, graph, sent>>

\* Seeded fault: the last retry is not used.
GivesUpEarly(r) == r.retries + 2 >= MaxRetries

GivesUp(r) == r.retries + 1 >= MaxRetries

\* Seeded fault: the retry keeps the schedule of the last node.
RetryUnscheduled(r) == [r EXCEPT !.retries = @ + 1]

\* handleError with retries left keeps the status the row had in memory.
Retry(r) == [r EXCEPT !.retries = @ + 1, !.sched = "wait"]

\* handleError: the counter, the event of a journey that failed, then the write.
HandleError(w) ==
  /\ pc[w] = "error"
  /\ LET j == cur[w] IN
       \/ /\ GivesUp(mem[w][j])
          /\ mem' = [mem EXCEPT ![w][j].retries = @ + 1, ![w][j].status = "failed"]
          /\ ends' = [ends EXCEPT ![j] = @ + 1]
       \/ /\ ~GivesUp(mem[w][j])
          /\ mem' = [mem EXCEPT ![w][j] = Retry(@)]
          /\ UNCHANGED ends
  /\ pc' = [pc EXCEPT ![w] = "save"]
  /\ UNCHANGED <<automationVars, enrolVars, row, userVars, faults, todo, cur, graph, steps, mid, sent>>

\* The last UpdateContactAutomation of handleError and markAs...
Save(w) ==
  /\ pc[w] = "save"
  /\ WriteBack(w)
  /\ Leave(w, cur[w])
  /\ UNCHANGED <<automationVars, enrolVars, userVars, faults, graph, outVars>>

-----------------------------------------------------------------------------
(* Faults and time.                                                        *)

\* A write fails: after a node it is an error like any other, at the end
\* Execute returns it and the row stays as it is.
WriteFails(w) ==
  /\ faults < MaxFaults
  /\ faults' = faults + 1
  /\ \/ /\ pc[w] = "persist"
        /\ pc' = [pc EXCEPT ![w] = "error"]
        /\ UNCHANGED <<todo, mem, cur, steps, mid>>
     \/ pc[w] \in {"save", "end"} /\ Leave(w, cur[w])
  /\ UNCHANGED <<automationVars, enrolVars, row, userVars, graph, outVars>>

Crash(w) ==
  /\ pc[w] # "idle"
  /\ faults < MaxFaults
  /\ faults' = faults + 1
  /\ pc' = [pc EXCEPT ![w] = "idle"]
  /\ todo' = [todo EXCEPT ![w] = {}]
  /\ mem' = [mem EXCEPT ![w] = [j \in Journey |-> NoRow]]
  /\ cur' = [cur EXCEPT ![w] = NoJourney]
  /\ steps' = [steps EXCEPT ![w] = 0]
  /\ mid' = mid \ {w}
  /\ UNCHANGED <<automationVars, enrolVars, row, userVars, graph, outVars>>

ComesDue(j) ==
  /\ row[j].sched = "wait"
  /\ row' = [row EXCEPT ![j].sched = "due"]
  /\ UNCHANGED <<automationVars, enrolVars, userVars, faults, schedulerVars, mid, outVars>>

-----------------------------------------------------------------------------
SchedulerStep(w) ==
  \/ \E S \in SUBSET Journey : GetScheduled(w, S)
  \/ \E j \in Journey : Begin(w, j)
  \/ ExecuteNode(w) \/ Persist(w) \/ EndEvent(w) \/ HandleError(w) \/ Save(w)

\* The part of the schedulers in a step of the automation: who is inside
\* Execute when it stops being live.
Beside ==
  /\ mid' = IF Live /\ ~Live' THEN {w \in Scheduler : Executing(w)} ELSE mid
  /\ UNCHANGED <<schedulerVars, outVars>>

Command ==
  /\ EnrolStep \/ \E u \in User : UserStep(u)
  /\ Beside

Next ==
  \/ Command
  \/ \E w \in Scheduler : SchedulerStep(w) \/ WriteFails(w) \/ Crash(w)
  \/ \E j \in Journey : ComesDue(j)

Spec == JInit /\ [][Next]_vars

\* The ticker keeps firing, calls return, time passes, and a command or a
\* transaction under way comes to its end.
Fairness ==
  /\ \A w \in Scheduler : WF_vars(SchedulerStep(w))
  /\ \A j \in Journey : WF_vars(ComesDue(j)) /\ WF_vars(EnrolCommit(j) /\ Beside)
  /\ \A u \in User : WF_vars(Proceed(u) /\ Beside)

FairSpec == Spec /\ Fairness
-----------------------------------------------------------------------------
(* Properties.                                                             *)

\* A paused or deleted automation sends nothing more: an email is enqueued
\* for a journey after the automation stopped only by a scheduler that was
\* already inside Execute for it (Execute looks at the status of every row's
\* automation again, however old the batch is).
PauseFreezesJourneys ==
  [][\A j \in Journey : sent'[j] # sent[j] /\ ~Live => \E w \in mid : cur[w] = j]_vars

\* A contact gets the email of a node once per journey; a crash or a failed
\* write between the enqueue and UpdateContactAutomation may repeat it, and
\* each repetition needs a fault of its own (one scheduler, no loops).
RepeatsNeedFaults ==
  \A j \in Journey, n \in Node : sent[j][n] <= 1 + faults

\* The journeys Delete exits stay exited.
ExitedIsFinal ==
  [][\A j \in Journey : row[j].status = "exited" => row'[j].status = "exited"]_vars

\* While no fault has happened, a journey that is over and out of the
\* scheduler's hands has its automation.end event, and only one; faults may
\* lose one or add one each.
OneEndEvent ==
  \A j \in Journey :
    /\ ends[j] <= 1 + faults
    /\ faults = 0 /\ row[j].status \in {"completed", "failed"} /\ (\A w \in Scheduler : cur[w] # j)
         => ends[j] = 1

\* A contact is enrolled only while the automation is live: Pause and Delete
\* drop the trigger, waiting for enrolments under way, before they touch the
\* status.  After a fault a deleted automation may keep its trigger.
EnrolsWhileLive ==
  [][\A j \in Journey :
       row[j].status = "absent" /\ row'[j].status = "active"
         => astatus = "live" /\ (deleted => faults > 0)]_vars

\* A journey ends, unless its automation stops or something fails: node
\* errors, backoff and delays only postpone it.
JourneysEnd ==
  \A j \in Journey : (row[j].status = "active") ~> (row[j].status # "active" \/ ~Live \/ faults > 0)

\* The same whatever fails and however long the path is: the tick that stops
\* after maxNodesPerTick nodes, or dies between two of them, leaves a row that
\* a later tick goes on with.
JourneysRecover ==
  \A j \in Journey : (row[j].status = "active") ~> (row[j].status # "active" \/ ~Live)

\* A journey that is over with "failed" has used up its retries, whichever
\* scheduler wrote it last and whatever copy it held.
FailedIsExhausted ==
  \A j \in Journey : row[j].status = "failed" => row[j].retries = MaxRetries

\* "once": a contact is enrolled in the automation at most once.
EnrolledOnce ==
  Once => \A i, j \in Journey :
            row[i].status # "absent" /\ row[j].status # "absent" /\ ContactOf[i] = ContactOf[j] => i = j

\* No two schedulers execute the same row at a time.
OneExecutor ==
  \A v, w \in Scheduler : cur[v] = cur[w] /\ cur[v] # NoJourney => v = w

-----------------------------------------------------------------------------
(* The inductive invariant of AutomationJourneyProofs.                     *)

\* Retries left and spent, in the table and in memory.
RetriesFit(r) ==
  /\ r.status = "active" => r.retries < MaxRetries
  /\ r.status = "failed" => r.retries = MaxRetries

\* What scheduler w holds: rows it has yet to execute have a retry left, and
\* so has the row in its hands until handleError counts one.
SchedulerInv(w) ==
  /\ \A j \in todo[w] : mem[w][j].retries < MaxRetries /\ mem[w][j].status # "failed"
  /\ Executing(w) => cur[w] \in Journey \ todo[w]
  /\ pc[w] \in {"node", "persist", "end", "error"} =>
       mem[w][cur[w]].retries < MaxRetries /\ mem[w][cur[w]].status # "failed"
  /\ pc[w] = "save" => RetriesFit(mem[w][cur[w]])
  /\ pc[w] = "node" => steps[w] < MaxNodesPerTick
  /\ pc[w] = "batch" \/ pc[w] = "idle" => steps[w] = 0
  /\ pc[w] \in {"node", "persist"} /\ ~Live => w \in mid

IInv ==
  /\ TypeOK
  /\ \A j \in Journey : RetriesFit(row[j])
  /\ \A w \in Scheduler : SchedulerInv(w)
===============================================================================
