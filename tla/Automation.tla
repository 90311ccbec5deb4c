------------------------------ MODULE Automation ------------------------------
(***************************************************************************)
(* One automation of a workspace: its row, the database trigger that       *)
(* enrols contacts, and the commands of its users                          *)
(* (internal/service/automation_service.go,                                *)
(* internal/repository/automation_postgres.go, the enrolment function of   *)
(* internal/database/init.go).                                             *)
(*                                                                         *)
(* A command is a sequence of separate statements: what it read first is   *)
(* written back later, the whole row at once.  An enrolment runs inside    *)
(* the transaction of the timeline event that fired the trigger, so its    *)
(* look at the trigger log and its commit are two steps; DROP TRIGGER      *)
(* needs the table to itself and waits for the transactions under way.     *)
(***************************************************************************)
EXTENDS Integers, FiniteSets

CONSTANTS
  Journey,      \* contact_automations rows that may ever be inserted
  Contact,      \* contacts
  ContactOf,    \* contact_email of each row
  Node,         \* nodes of the automation
  NoNode,       \* "no current node"
  Root,         \* root_node_id
  Drafts,       \* node sets the editor may save
  User,         \* console sessions and API clients
  Once,         \* trigger frequency: TRUE for "once", FALSE for "every_time"
  MaxFaults     \* bound on crashes and failed database calls

ASSUME AutomationAssumption ==
  /\ ContactOf \in [Journey -> Contact]
  /\ NoNode \notin Node
  /\ Root \in Node
  /\ Node \in Drafts
  /\ \A N \in Drafts : N \subseteq Node /\ Root \in N
  /\ Once \in BOOLEAN
  /\ MaxFaults \in Nat

VARIABLES
  astatus,      \* status of the automation: "draft", "live" or "paused"
  nodes,        \* its nodes
  deleted,      \* deleted_at is set
  trigger,      \* the database trigger exists
  log,          \* contacts in automation_trigger_log
  enrol,        \* transaction of each row's event: "none", "checked", "over"
  row,          \* the contact_automations rows
  upc,          \* where each user's command is
  ucopy,        \* the automation as the user read it
  faults        \* faults injected so far

automationVars == <<astatus, nodes, deleted, trigger>>
enrolVars      == <<log, enrol>>
userVars       == <<upc, ucopy>>

AStatus == {"draft", "live", "paused"}
JStatus == {"absent", "active", "completed", "exited", "failed"}
UPC     == {"idle", "editing", "setLive", "create", "rollback", "drop", "setPaused", "exitRows", "softDelete"}

Live == astatus = "live" /\ ~deleted

NoRow == [status |-> "absent", node |-> NoNode, sched |-> "null", retries |-> 0]

Init ==
  /\ astatus = "draft"
  /\ nodes = Node
  /\ deleted = FALSE
  /\ trigger = FALSE
  /\ log = {}
  /\ enrol = [j \in Journey |-> "none"]
  /\ row = [j \in Journey |-> NoRow]
  /\ upc = [u \in User |-> "idle"]
  /\ ucopy = [u \in User |-> [status |-> "draft", nodes |-> Node]]
  /\ faults = 0

-----------------------------------------------------------------------------
(* Enrolment: the trigger on contact_timeline calls                        *)
(* automation_enroll_contact.                                              *)

\* The EXISTS query: it sees committed entries of the trigger log only.
EnrolCheck(j) ==
  /\ trigger
  /\ enrol[j] = "none"
  /\ enrol' = [enrol EXCEPT ![j] = IF Once /\ ContactOf[j] \in log THEN "over" ELSE "checked"]
  /\ UNCHANGED <<automationVars, log, row, userVars, faults>>

\* The INSERTs and the commit.  ON CONFLICT DO NOTHING lets the enrolment go
\* on when another transaction logged the contact first.
EnrolCommit(j) ==
  /\ enrol[j] = "checked"
  /\ enrol' = [enrol EXCEPT ![j] = "over"]
  /\ log' = IF Once THEN log \cup {ContactOf[j]} ELSE log
  /\ row' = [row EXCEPT ![j] = [status |-> "active", node |-> Root, sched |-> "due", retries |-> 0]]
  /\ UNCHANGED <<automationVars, userVars, faults>>

-----------------------------------------------------------------------------
(* Commands.                                                               *)

Goto(u, step) == upc' = [upc EXCEPT ![u] = step]

Read(u) == ucopy' = [ucopy EXCEPT ![u] = [status |-> astatus, nodes |-> nodes]]

\* UPDATE automations: the whole row, whatever happened since it was read,
\* deleted or not.
UpdateTx(s, N) ==
  /\ astatus' = s
  /\ nodes' = N
  /\ UNCHANGED <<deleted, trigger>>

\* The editor loads the automation, and saves its copy with other nodes.
OpenEditor(u) ==
  /\ upc[u] = "idle" /\ ~deleted
  /\ Read(u)
  /\ Goto(u, "editing")
  /\ UNCHANGED <<automationVars, enrolVars, row, faults>>

Update(u, N) ==
  /\ upc[u] = "editing"
  /\ UpdateTx(ucopy[u].status, N)
  /\ Goto(u, "idle")
  /\ UNCHANGED <<enrolVars, row, ucopy, faults>>

\* Activate: read, write 'live', create the trigger; back to 'draft' when
\* that fails.
Activate(u) ==
  /\ upc[u] = "idle" /\ ~deleted
  /\ astatus # "live"
  /\ Read(u)
  /\ Goto(u, "setLive")
  /\ UNCHANGED <<automationVars, enrolVars, row, faults>>

SetLive(u) ==
  /\ upc[u] = "setLive"
  /\ UpdateTx("live", ucopy[u].nodes)
  /\ Goto(u, "create")
  /\ UNCHANGED <<enrolVars, row, ucopy, faults>>

CreateAutomationTrigger(u) ==
  /\ upc[u] = "create"
  /\ \A j \in Journey : enrol[j] # "checked"
  /\ trigger' = TRUE
  /\ Goto(u, "idle")
  /\ UNCHANGED <<astatus, nodes, deleted, enrolVars, row, ucopy, faults>>

Rollback(u) ==
  /\ upc[u] = "rollback"
  /\ UpdateTx("draft", ucopy[u].nodes)
  /\ Goto(u, "idle")
  /\ UNCHANGED <<enrolVars, row, ucopy, faults>>

\* Pause: read, drop the trigger, write 'paused'.
Pause(u) ==
  /\ upc[u] = "idle" /\ Live
  /\ Read(u)
  /\ Goto(u, "drop")
  /\ UNCHANGED <<automationVars, enrolVars, row, faults>>

\* Seeded fault: the drop does not wait for enrolments under way.
DropWithoutLock ==
  /\ trigger' = FALSE
  /\ UNCHANGED <<astatus, nodes, deleted>>

DropAutomationTrigger ==
  /\ \A j \in Journey : enrol[j] # "checked"
  /\ trigger' = FALSE
  /\ UNCHANGED <<astatus, nodes, deleted>>

PauseDrop(u) ==
  /\ upc[u] = "drop"
  /\ DropAutomationTrigger
  /\ Goto(u, "setPaused")
  /\ UNCHANGED <<enrolVars, row, ucopy, faults>>

SetPaused(u) ==
  /\ upc[u] = "setPaused"
  /\ UpdateTx("paused", ucopy[u].nodes)
  /\ Goto(u, "idle")
  /\ UNCHANGED <<enrolVars, row, ucopy, faults>>

\* Delete: drop the trigger, exit the active rows, set deleted_at.
Delete(u) ==
  /\ upc[u] = "idle"
  /\ DropAutomationTrigger
  /\ Goto(u, "exitRows")
  /\ UNCHANGED <<enrolVars, row, ucopy, faults>>

ExitRows(u) ==
  /\ upc[u] = "exitRows"
  /\ row' = [j \in Journey |->
               IF row[j].status = "active"
               THEN [row[j] EXCEPT !.status = "exited", !.sched = "null"]
               ELSE row[j]]
  /\ Goto(u, "softDelete")
  /\ UNCHANGED <<automationVars, enrolVars, ucopy, faults>>

SoftDelete(u) ==
  /\ upc[u] = "softDelete"
  /\ deleted' = TRUE
  /\ Goto(u, "idle")
  /\ UNCHANGED <<astatus, nodes, trigger, enrolVars, row, ucopy, faults>>

\* A database call of a command returns an error: the command gives up, but
\* for a trigger that cannot be created (its old version is dropped first)
\* or, in Delete, not be dropped.
CommandFails(u) ==
  /\ faults < MaxFaults
  /\ faults' = faults + 1
  /\ \/ /\ upc[u] \in {"setLive", "rollback", "drop", "setPaused", "exitRows", "softDelete"}
        /\ Goto(u, "idle")
        /\ UNCHANGED trigger
     \/ /\ upc[u] = "create"
        /\ Goto(u, "rollback")
        /\ trigger' \in {trigger, FALSE}
        /\ trigger' # trigger => \A j \in Journey : enrol[j] # "checked"
     \/ /\ upc[u] = "idle"
        /\ Goto(u, "exitRows")
        /\ UNCHANGED trigger
  /\ UNCHANGED <<astatus, nodes, deleted, enrolVars, row, ucopy>>

\* The instance that serves the command dies.
CommandDies(u) ==
  /\ upc[u] \notin {"idle", "editing"}
  /\ faults < MaxFaults
  /\ faults' = faults + 1
  /\ Goto(u, "idle")
  /\ UNCHANGED <<automationVars, enrolVars, row, ucopy>>

EnrolStep == \E j \in Journey : EnrolCheck(j) \/ EnrolCommit(j)

\* A command under way takes its next statement.
Proceed(u) ==
  \/ SetLive(u) \/ CreateAutomationTrigger(u) \/ Rollback(u)
  \/ PauseDrop(u) \/ SetPaused(u)
  \/ ExitRows(u) \/ SoftDelete(u)

UserStep(u) ==
  \/ OpenEditor(u) \/ \E N \in Drafts : Update(u, N)
  \/ Activate(u) \/ Pause(u) \/ Delete(u)
  \/ Proceed(u)
  \/ CommandFails(u) \/ CommandDies(u)
===============================================================================
