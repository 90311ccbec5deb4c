----------------------- MODULE AutomationJourneyProofs -----------------------
(***************************************************************************)
(* AutomationJourney for every number of journeys, contacts, users and     *)
(* schedulers, every graph of nodes and every bound: the type invariant,   *)
(* what "failed" says of a journey, and that a stopped automation sends    *)
(* nothing more.  Then, from one lemma per step that says what it does to  *)
(* the row in hand: with a single user, contacts enter live automations    *)
(* only; with a single scheduler, whose rows nobody else reads, ends and   *)
(* emails are repeated by faults alone - the latter where the nodes can be *)
(* ranked, since a loop sends its emails again by design.                  *)
(***************************************************************************)
EXTENDS AutomationJourney, TLAPS

\* No journeys, idle schedulers.
LEMMA InitIInv == JInit => IInv
  <1> SUFFICES ASSUME JInit PROVE IInv
    OBVIOUS
  <1> USE AutomationAssumption, JourneyAssumption DEF JInit, Init
  <1>1. NoRow \in Row
    BY DEF NoRow, Row, JStatus
  <1>2. TypeOK
    <2>1. ucopy \in [User -> [status : AStatus, nodes : SUBSET Node]]
      BY DEF AStatus
    <2>2. mem \in [Scheduler -> [Journey -> Row]] /\ row \in [Journey -> Row]
      BY <1>1
    <2>3. sent \in [Journey -> [Node -> Nat]] /\ ends \in [Journey -> Nat]
      OBVIOUS
    <2>4. astatus \in AStatus /\ upc \in [User -> UPC] /\ pc \in [Scheduler -> PC]
      BY DEF AStatus, UPC, PC
    <2>5. steps \in [Scheduler -> 0 .. MaxNodesPerTick]
      OBVIOUS
    <2> QED
      BY <2>1, <2>2, <2>3, <2>4, <2>5 DEF TypeOK
  <1>3. \A j \in Journey : RetriesFit(row[j])
    BY DEF RetriesFit, NoRow
  <1>4. \A w \in Scheduler : SchedulerInv(w)
    BY DEF SchedulerInv, Executing
  <1> QED
    BY <1>2, <1>3, <1>4 DEF IInv

\* The users and the enrolments keep the types of what they write.
LEMMA CommandTypes ==
  ASSUME IInv, Command
  PROVE  /\ astatus' \in AStatus /\ nodes' \in SUBSET Node /\ deleted' \in BOOLEAN /\ trigger' \in BOOLEAN
         /\ log' \subseteq Contact /\ enrol' \in [Journey -> {"none", "checked", "over"}]
         /\ upc' \in [User -> UPC] /\ ucopy' \in [User -> [status : AStatus, nodes : SUBSET Node]]
         /\ faults' \in Nat
  <1> USE AutomationAssumption DEF IInv, TypeOK, automationVars, enrolVars, userVars
  <1>1. CASE EnrolStep
    BY <1>1 DEF EnrolStep, EnrolCheck, EnrolCommit
  <1>2. ASSUME NEW u \in User, OpenEditor(u) \/ Activate(u) \/ Pause(u)
        PROVE  /\ UNCHANGED <<astatus, nodes, deleted, trigger, log, enrol, faults>>
               /\ upc' \in [User -> UPC]
               /\ ucopy' \in [User -> [status : AStatus, nodes : SUBSET Node]]
    <2>1. [status |-> astatus, nodes |-> nodes] \in [status : AStatus, nodes : SUBSET Node]
      OBVIOUS
    <2>2. ucopy' = [ucopy EXCEPT ![u] = [status |-> astatus, nodes |-> nodes]]
      BY <1>2 DEF OpenEditor, Activate, Pause, Read
    <2>3. ucopy' \in [User -> [status : AStatus, nodes : SUBSET Node]]
      BY <2>1, <2>2
    <2> QED
      BY <1>2, <2>3 DEF OpenEditor, Activate, Pause, Goto, UPC
  <1>3. ASSUME NEW u \in User, NEW s \in AStatus, NEW N \in SUBSET Node, UpdateTx(s, N)
        PROVE  astatus' \in AStatus /\ nodes' \in SUBSET Node /\ UNCHANGED <<deleted, trigger>>
    BY <1>3 DEF UpdateTx
  <1>4. ASSUME NEW u \in User,
               (\E N \in Drafts : Update(u, N)) \/ SetLive(u) \/ SetPaused(u) \/ Rollback(u)
        PROVE  /\ astatus' \in AStatus /\ nodes' \in SUBSET Node
               /\ upc' \in [User -> UPC]
               /\ UNCHANGED <<deleted, trigger, log, enrol, ucopy, faults>>
    BY <1>4 DEF Update, SetLive, SetPaused, Rollback, UpdateTx, Goto, UPC, AStatus
  <1>5. ASSUME NEW u \in User,
               \/ CreateAutomationTrigger(u) \/ PauseDrop(u) \/ Delete(u) \/ ExitRows(u)
               \/ SoftDelete(u) \/ CommandFails(u) \/ CommandDies(u)
        PROVE  /\ UNCHANGED <<astatus, nodes, log, enrol, ucopy>>
               /\ deleted' \in BOOLEAN /\ trigger' \in BOOLEAN
               /\ upc' \in [User -> UPC] /\ faults' \in Nat
    <2>1. CASE CreateAutomationTrigger(u) \/ PauseDrop(u) \/ Delete(u)
      BY <2>1 DEF CreateAutomationTrigger, PauseDrop, Delete, DropAutomationTrigger, Goto, UPC
    <2>2. CASE ExitRows(u) \/ SoftDelete(u)
      BY <2>2 DEF ExitRows, SoftDelete, Goto, UPC
    <2>3. CASE CommandFails(u)
      <3>1. trigger' \in BOOLEAN
        BY <2>3, Zenon DEF CommandFails
      <3>2. upc' \in [User -> UPC]
        BY <2>3 DEF CommandFails, Goto, UPC
      <3>3. UNCHANGED <<astatus, nodes, log, enrol, ucopy>> /\ deleted' \in BOOLEAN /\ faults' \in Nat
        BY <2>3 DEF CommandFails
      <3> QED
        BY <3>1, <3>2, <3>3
    <2>4. CASE CommandDies(u)
      BY <2>4 DEF CommandDies, Goto, UPC
    <2> QED
      BY <1>5, <2>1, <2>2, <2>3, <2>4
  <1> QED
    BY <1>1, <1>2, <1>4, <1>5 DEF Command, UserStep, Proceed

\* They leave retry counters alone: a new row starts at zero, Delete exits
\* rows as they are.
LEMMA CommandRows ==
  ASSUME IInv, Command
  PROVE  row' \in [Journey -> Row] /\ \A j \in Journey : RetriesFit(row'[j])
  <1> USE AutomationAssumption, JourneyAssumption DEF IInv, TypeOK, RetriesFit
  <1>1. CASE UNCHANGED row
    BY <1>1
  <1>2. ASSUME NEW j \in Journey, EnrolCommit(j)
        PROVE  row' \in [Journey -> Row] /\ \A i \in Journey : RetriesFit(row'[i])
    <2>1. [status |-> "active", node |-> Root, sched |-> "due", retries |-> 0] \in Row
      BY DEF Row, JStatus
    <2> QED
      BY <1>2, <2>1 DEF EnrolCommit
  <1>3. ASSUME NEW u \in User, ExitRows(u)
        PROVE  row' \in [Journey -> Row] /\ \A i \in Journey : RetriesFit(row'[i])
    <2>1. ASSUME NEW i \in Journey PROVE row'[i] \in Row /\ RetriesFit(row'[i])
      <3>1. CASE row[i].status = "active"
        <4>1. row'[i] = [row[i] EXCEPT !.status = "exited", !.sched = "null"]
          BY <1>3, <3>1 DEF ExitRows
        <4>2. row[i] \in Row /\ "exited" \in JStatus /\ "null" \in {"null", "wait", "due"}
          BY DEF JStatus
        <4>3. /\ [row[i] EXCEPT !.status = "exited", !.sched = "null"] \in Row
              /\ [row[i] EXCEPT !.status = "exited", !.sched = "null"].status = "exited"
          BY <4>2 DEF Row
        <4> QED
          BY <4>1, <4>3
      <3>2. CASE row[i].status # "active"
        BY <1>3, <3>2 DEF ExitRows
      <3> QED
        BY <3>1, <3>2
    <2>2. row' = [i \in Journey |-> row'[i]]
      BY <1>3 DEF ExitRows
    <2> QED
      BY <2>1, <2>2
  <1> QED
    BY <1>1, <1>2, <1>3
    DEF Command, EnrolStep, EnrolCheck, UserStep, Proceed, OpenEditor, Update, Activate, SetLive,
        CreateAutomationTrigger, Rollback, Pause, PauseDrop, SetPaused, Delete, SoftDelete,
        CommandFails, CommandDies

\* A step of the automation keeps the invariant: the schedulers do not move,
\* and those inside Execute are noted when the automation stops.
LEMMA CommandInv ==
  ASSUME IInv, Command
  PROVE  IInv'
  <1>1. mid' = (IF Live /\ ~Live' THEN {w \in Scheduler : Executing(w)} ELSE mid) /\ UNCHANGED <<schedulerVars, outVars>>
    BY DEF Command, Beside
  <1>2. TypeOK'
    BY <1>1, CommandTypes, CommandRows DEF IInv, TypeOK, schedulerVars, outVars
  <1>3. \A w \in Scheduler : SchedulerInv(w)'
    BY <1>1 DEF IInv, SchedulerInv, Executing, schedulerVars, RetriesFit
  <1> QED
    BY <1>2, <1>3, CommandRows DEF IInv, RetriesFit

\* The invariant of a scheduler that does not move.
LEMMA Bystander ==
  ASSUME NEW v \in Scheduler, SchedulerInv(v),
         pc'[v] = pc[v], todo'[v] = todo[v], mem'[v] = mem[v], cur'[v] = cur[v], steps'[v] = steps[v],
         UNCHANGED <<astatus, deleted>>, v \in mid => v \in mid'
  PROVE  SchedulerInv(v)'
  BY DEF SchedulerInv, Executing, RetriesFit, Live

\* An assignment to one row in memory.
LEMMA MemWrite ==
  ASSUME mem \in [Scheduler -> [Journey -> Row]], NEW w \in Scheduler, NEW j \in Journey, NEW R \in Row,
         mem' = [mem EXCEPT ![w][j] = R]
  PROVE  /\ mem' \in [Scheduler -> [Journey -> Row]]
         /\ mem'[w][j] = R
         /\ \A i \in Journey \ {j} : mem'[w][i] = mem[w][i]
         /\ \A v \in Scheduler \ {w} : mem'[v] = mem[v]
  OBVIOUS

\* The loop of ProcessBatch leaves a row behind.
LEMMA LeaveInv ==
  ASSUME TypeOK, NEW w \in Scheduler, SchedulerInv(w), NEW j \in Journey, Leave(w, j)
  PROVE  /\ todo' \in [Scheduler -> SUBSET Journey] /\ cur' \in [Scheduler -> Journey \cup {NoJourney}]
         /\ mem' \in [Scheduler -> [Journey -> Row]] /\ steps' \in [Scheduler -> 0 .. MaxNodesPerTick]
         /\ pc' \in [Scheduler -> PC] /\ mid' \subseteq Scheduler
         /\ SchedulerInv(w)'
         /\ \A v \in Scheduler \ {w} :
              /\ pc'[v] = pc[v] /\ todo'[v] = todo[v] /\ mem'[v] = mem[v] /\ cur'[v] = cur[v]
              /\ steps'[v] = steps[v] /\ (v \in mid => v \in mid')
  <1> USE JourneyAssumption DEF TypeOK
  <1>1. NoRow \in Row
    BY DEF NoRow, Row, JStatus
  <1>2. /\ mem' \in [Scheduler -> [Journey -> Row]]
        /\ \A i \in Journey \ {j} : mem'[w][i] = mem[w][i]
        /\ \A v \in Scheduler \ {w} : mem'[v] = mem[v]
    <2>1. mem' = [mem EXCEPT ![w][j] = NoRow]
      BY DEF Leave
    <2> QED
      BY <1>1, <2>1, MemWrite
  <1>3. /\ todo' = [todo EXCEPT ![w] = todo[w] \ {j}]
        /\ cur' = [cur EXCEPT ![w] = NoJourney]
        /\ steps' = [steps EXCEPT ![w] = 0]
        /\ pc' = [pc EXCEPT ![w] = IF todo[w] \ {j} = {} THEN "idle" ELSE "batch"]
        /\ mid' = mid \ {w}
    BY DEF Leave
  <1>4. SchedulerInv(w)'
    BY <1>2, <1>3 DEF SchedulerInv, Executing
  <1> QED
    BY <1>2, <1>3, <1>4 DEF PC

\* A row written back from memory.
LEMMA WriteBackInv ==
  ASSUME IInv, NEW w \in Scheduler, cur[w] \in Journey, WriteBack(w), RetriesFit(mem[w][cur[w]])
  PROVE  row' \in [Journey -> Row] /\ \A j \in Journey : RetriesFit(row'[j])
  BY DEF IInv, TypeOK, WriteBack, RetriesFit

\* A batch holds active rows, which have a retry left.
LEMMA GetScheduledInv ==
  ASSUME IInv, NEW w \in Scheduler, NEW S \in SUBSET Journey, GetScheduled(w, S)
  PROVE  IInv'
  <1> USE JourneyAssumption DEF IInv, TypeOK, GetScheduled, automationVars, enrolVars, userVars, outVars
  <1>1. NoRow \in Row
    BY DEF NoRow, Row, JStatus
  <1>2. mem' \in [Scheduler -> [Journey -> Row]]
    BY <1>1
  <1>3. TypeOK'
    BY <1>2 DEF PC
  <1>4. SchedulerInv(w)'
    BY DEF SchedulerInv, Executing, Due, RetriesFit
  <1>5. \A v \in Scheduler \ {w} : SchedulerInv(v)'
    BY Bystander
  <1> QED
    BY <1>3, <1>4, <1>5 DEF RetriesFit

\* Execute goes into its loop only while the automation is live.
LEMMA BeginInv ==
  ASSUME IInv, NEW w \in Scheduler, NEW j \in Journey, Begin(w, j)
  PROVE  IInv'
  <1> USE JourneyAssumption DEF automationVars, enrolVars, userVars
  <1>0. TypeOK /\ SchedulerInv(w) /\ j \in todo[w] /\ pc[w] = "batch"
    BY DEF IInv, Begin
  <1>1. /\ UNCHANGED <<astatus, nodes, deleted, trigger, log, enrol, row, upc, ucopy, faults, sent>>
        /\ graph' = [graph EXCEPT ![w] = nodes]
    BY DEF Begin
  <1>2. CASE Leave(w, j) /\ UNCHANGED ends
    <2>1. TypeOK'
      BY <1>0, <1>1, <1>2, LeaveInv DEF TypeOK
    <2>2. \A v \in Scheduler : SchedulerInv(v)'
      BY <1>0, <1>1, <1>2, LeaveInv, Bystander DEF IInv
    <2> QED
      BY <1>1, <2>1, <2>2 DEF IInv, RetriesFit
  <1>3. ASSUME NEW step \in {"node", "error"}, Enter(w, j, step), UNCHANGED <<mem, ends>>,
               step = "node" => Live
        PROVE  IInv'
    <2>1. TypeOK'
      BY <1>0, <1>1, <1>3 DEF TypeOK, Enter, PC
    <2>2. SchedulerInv(w)'
      BY <1>0, <1>1, <1>3 DEF SchedulerInv, Enter, Executing, TypeOK, Live
    <2>3. \A v \in Scheduler \ {w} : SchedulerInv(v)'
      BY <1>0, <1>1, <1>3, Bystander DEF IInv, Enter, TypeOK
    <2> QED
      BY <1>1, <2>1, <2>2, <2>3 DEF IInv, RetriesFit
  <1>4. CASE Enter(w, j, "save") /\ Finish(w, j, "completed")
    <2> DEFINE R == [mem[w][j] EXCEPT !.status = "completed", !.sched = "null"]
    <2>0. mem[w][j] \in Row
      BY <1>0 DEF TypeOK
    <2>1. R \in Row /\ R.status = "completed"
      BY <2>0 DEF Row, JStatus
    <2>2. mem' = [mem EXCEPT ![w][j] = R]
      BY <1>0, <1>4 DEF Finish, TypeOK
    <2> HIDE DEF R
    <2>3. /\ mem' \in [Scheduler -> [Journey -> Row]]
          /\ mem'[w][j] = R
          /\ \A i \in Journey \ {j} : mem'[w][i] = mem[w][i]
          /\ \A v \in Scheduler \ {w} : mem'[v] = mem[v]
      BY <1>0, <2>1, <2>2, MemWrite DEF TypeOK
    <2>4. TypeOK'
      BY <1>0, <1>1, <1>4, <2>3 DEF TypeOK, Enter, Finish, PC
    <2>5. SchedulerInv(w)'
      BY <1>0, <1>1, <1>4, <2>1, <2>3 DEF SchedulerInv, Enter, Executing, TypeOK, RetriesFit
    <2>6. \A v \in Scheduler \ {w} : SchedulerInv(v)'
      BY <1>0, <1>1, <1>4, <2>3, Bystander DEF IInv, Enter, TypeOK
    <2> QED
      BY <1>1, <2>4, <2>5, <2>6 DEF IInv, RetriesFit
  <1> QED
    BY <1>2, <1>3, <1>4 DEF Begin, Runs

\* A node is executed by the scheduler alone, on its copy.
LEMMA ExecuteNodeInv ==
  ASSUME IInv, NEW w \in Scheduler, ExecuteNode(w)
  PROVE  IInv'
  <1> USE JourneyAssumption DEF automationVars, enrolVars, userVars
  <1> DEFINE j == cur[w]
             n == mem[w][j].node
  <1>0. /\ TypeOK /\ SchedulerInv(w) /\ j \in Journey /\ pc[w] = "node" /\ mem[w][j] \in Row
        /\ mem[w][j].retries < MaxRetries /\ steps[w] < MaxNodesPerTick
        /\ ~Live => w \in mid
    <2>1. TypeOK /\ SchedulerInv(w) /\ pc[w] = "node"
      BY DEF IInv, ExecuteNode
    <2>2. Executing(w)
      BY <2>1 DEF Executing
    <2>3. j \in Journey
      BY <2>1, <2>2 DEF SchedulerInv
    <2>4. mem[w][j] \in Row
      BY <2>1, <2>3 DEF TypeOK
    <2> QED
      BY <2>1, <2>3, <2>4 DEF SchedulerInv
  <1>1. UNCHANGED <<astatus, nodes, deleted, trigger, log, enrol, row, upc, ucopy, faults, graph, mid>>
    BY DEF ExecuteNode
  <1>2. ASSUME NEW R \in Row, mem' = [mem EXCEPT ![w][j] = R],
               NEW step \in {"persist", "save"}, pc' = [pc EXCEPT ![w] = step],
               UNCHANGED <<todo, cur>>,
               steps' \in [Scheduler -> 0 .. MaxNodesPerTick],
               \A v \in Scheduler \ {w} : steps'[v] = steps[v],
               R.retries = mem[w][j].retries, R.status # "failed",
               step = "save" => R.status = "exited",
               sent' \in [Journey -> [Node -> Nat]], ends' \in [Journey -> Nat]
        PROVE  IInv'
    <2>1. /\ mem' \in [Scheduler -> [Journey -> Row]]
          /\ mem'[w][j] = R
          /\ \A i \in Journey \ {j} : mem'[w][i] = mem[w][i]
          /\ \A v \in Scheduler \ {w} : mem'[v] = mem[v]
      BY <1>0, <1>2, MemWrite DEF TypeOK
    <2>2. TypeOK'
      BY <1>0, <1>1, <1>2, <2>1 DEF TypeOK, PC
    <2>3. SchedulerInv(w)'
      BY <1>0, <1>1, <1>2, <2>1 DEF SchedulerInv, Executing, TypeOK, RetriesFit, Live
    <2>4. \A v \in Scheduler \ {w} : SchedulerInv(v)'
      BY <1>0, <1>1, <1>2, <2>1, Bystander DEF IInv, TypeOK
    <2> QED
      BY <1>1, <2>2, <2>3, <2>4 DEF IInv, RetriesFit
  <1>3. CASE Finish(w, j, "exited") /\ pc' = [pc EXCEPT ![w] = "save"] /\ UNCHANGED <<todo, cur, steps, sent>>
    <2> DEFINE R == [mem[w][j] EXCEPT !.status = "exited", !.sched = "null"]
    <2>1. R \in Row /\ R.status = "exited" /\ R.retries = mem[w][j].retries
      BY <1>0 DEF Row, JStatus
    <2>2. mem' = [mem EXCEPT ![w][j] = R]
      BY <1>0, <1>3 DEF Finish, TypeOK
    <2>3. ends' \in [Journey -> Nat]
      BY <1>0, <1>3 DEF Finish, TypeOK
    <2> HIDE DEF R
    <2> QED
      BY <1>0, <1>2, <1>3, <2>1, <2>2, <2>3 DEF TypeOK
  <1>4. CASE pc' = [pc EXCEPT ![w] = "error"] /\ UNCHANGED <<todo, cur, mem, steps, sent, ends>>
    <2>1. TypeOK'
      BY <1>0, <1>1, <1>4 DEF TypeOK, PC
    <2>2. SchedulerInv(w)'
      BY <1>0, <1>1, <1>4 DEF SchedulerInv, Executing, TypeOK, Live
    <2>3. \A v \in Scheduler \ {w} : SchedulerInv(v)'
      BY <1>0, <1>1, <1>4, Bystander DEF IInv, TypeOK
    <2> QED
      BY <1>1, <2>1, <2>2, <2>3 DEF IInv, RetriesFit
  <1>5. ASSUME NEW next \in Node \cup {NoNode}, NEW status \in {"exited", "completed", "active"}, n \in Node,
               mem' = [mem EXCEPT ![w][j].node = next, ![w][j].sched = SchedAfter(n), ![w][j].status = status],
               pc' = [pc EXCEPT ![w] = "persist"],
               steps' = [steps EXCEPT ![w] = @ + 1],
               UNCHANGED <<todo, cur, ends>>,
               sent' \in [Journey -> [Node -> Nat]]
        PROVE  IInv'
    <2> DEFINE R == [mem[w][j] EXCEPT !.node = next, !.sched = SchedAfter(n), !.status = status]
    <2>1. SchedAfter(n) \in {"null", "wait", "due"} /\ status \in JStatus
      BY DEF SchedAfter, JStatus
    <2>2. R \in Row /\ R.status = status /\ R.retries = mem[w][j].retries
      BY <1>0, <2>1 DEF Row
    <2>3. mem' = [mem EXCEPT ![w][j] = R]
      BY <1>0, <1>5 DEF TypeOK
    <2>4. steps' \in [Scheduler -> 0 .. MaxNodesPerTick] /\ \A v \in Scheduler \ {w} : steps'[v] = steps[v]
      BY <1>0, <1>5 DEF TypeOK
    <2>5. ends' \in [Journey -> Nat]
      BY <1>0, <1>5 DEF TypeOK
    <2> HIDE DEF R
    <2> QED
      BY <1>0, <1>2, <1>5, <2>2, <2>3, <2>4, <2>5
  <1>6. graph[w] \subseteq Node
    BY <1>0 DEF TypeOK
  <1>7. ASSUME n \in Node, sent' = [sent EXCEPT ![j][n] = IF Kind[n] = "email" THEN @ + 1 ELSE @] \/ UNCHANGED sent
        PROVE  sent' \in [Journey -> [Node -> Nat]]
    <2>1. sent \in [Journey -> [Node -> Nat]] /\ sent[j] \in [Node -> Nat] /\ sent[j][n] \in Nat
      BY <1>0, <1>7 DEF TypeOK
    <2>2. CASE UNCHANGED sent
      BY <2>1, <2>2
    <2>3. CASE sent' = [sent EXCEPT ![j][n] = IF Kind[n] = "email" THEN @ + 1 ELSE @]
      <3> DEFINE k == IF Kind[n] = "email" THEN sent[j][n] + 1 ELSE sent[j][n]
      <3>0. k \in Nat
        BY <2>1
      <3>1. sent' = [sent EXCEPT ![j] = [sent[j] EXCEPT ![n] = k]]
        BY <2>3
      <3> HIDE DEF k
      <3>2. [sent[j] EXCEPT ![n] = k] \in [Node -> Nat]
        BY <2>1, <3>0
      <3> QED
        BY <2>1, <3>1, <3>2
    <2> QED
      BY <1>7, <2>2, <2>3
  <1> HIDE DEF j, n
  <1> QED
    BY <1>3, <1>4, <1>5, <1>6, <1>7 DEF ExecuteNode, StatusAfter, j, n

\* The write after a node, and the way on.
LEMMA PersistInv ==
  ASSUME IInv, NEW w \in Scheduler, Persist(w)
  PROVE  IInv'
  <1> USE JourneyAssumption DEF automationVars, enrolVars, userVars, outVars
  <1> DEFINE j == cur[w]
  <1>0. TypeOK /\ SchedulerInv(w) /\ pc[w] = "persist" /\ Executing(w)
    BY DEF IInv, Persist, Executing
  <1>1. j \in Journey /\ mem[w][j].retries < MaxRetries /\ mem[w][j].status # "failed"
    BY <1>0 DEF SchedulerInv
  <1>2. RetriesFit(mem[w][j])
    BY <1>1 DEF RetriesFit
  <1>3. row' \in [Journey -> Row] /\ \A i \in Journey : RetriesFit(row'[i])
    BY <1>1, <1>2, WriteBackInv DEF Persist
  <1>4. UNCHANGED <<astatus, nodes, deleted, trigger, log, enrol, upc, ucopy, faults, graph, sent, ends>>
    BY DEF Persist
  <1>5. CASE Leave(w, j)
    <2>1. TypeOK'
      BY <1>0, <1>1, <1>3, <1>4, <1>5, LeaveInv DEF TypeOK
    <2>2. \A v \in Scheduler : SchedulerInv(v)'
      BY <1>0, <1>1, <1>4, <1>5, LeaveInv, Bystander DEF IInv
    <2> QED
      BY <1>3, <2>1, <2>2 DEF IInv, RetriesFit
  <1>6. ASSUME NEW step \in {"node", "end"}, pc' = [pc EXCEPT ![w] = step], UNCHANGED <<todo, mem, cur, steps, mid>>,
               step = "node" => steps[w] < MaxNodesPerTick
        PROVE  IInv'
    <2>1. TypeOK'
      BY <1>0, <1>3, <1>4, <1>6 DEF TypeOK, PC
    <2>2. SchedulerInv(w)'
      BY <1>0, <1>4, <1>6 DEF SchedulerInv, Executing, TypeOK, Live
    <2>3. \A v \in Scheduler \ {w} : SchedulerInv(v)'
      BY <1>0, <1>4, <1>6, Bystander DEF IInv, TypeOK
    <2> QED
      BY <1>3, <2>1, <2>2, <2>3 DEF IInv, RetriesFit
  <1> QED
    BY <1>5, <1>6 DEF Persist

\* The end of a journey: its event, or its last write.
LEMMA EndEventInv ==
  ASSUME IInv, NEW w \in Scheduler, EndEvent(w)
  PROVE  IInv'
  <1> USE JourneyAssumption DEF automationVars, enrolVars, userVars
  <1>0. TypeOK /\ SchedulerInv(w) /\ Executing(w)
    BY DEF IInv, EndEvent, Executing
  <1>1. cur[w] \in Journey /\ Leave(w, cur[w])
    BY <1>0 DEF SchedulerInv, EndEvent
  <1>2. /\ UNCHANGED <<astatus, nodes, deleted, trigger, log, enrol, row, upc, ucopy, faults, graph, sent>>
        /\ ends' \in [Journey -> Nat]
    BY <1>0, <1>1 DEF EndEvent, TypeOK
  <1>3. TypeOK'
    BY <1>0, <1>1, <1>2, LeaveInv DEF TypeOK
  <1>4. \A v \in Scheduler : SchedulerInv(v)'
    BY <1>0, <1>1, <1>2, LeaveInv, Bystander DEF IInv
  <1> QED
    BY <1>2, <1>3, <1>4 DEF IInv, RetriesFit

\* The last write of a journey, by id.
LEMMA SaveInv ==
  ASSUME IInv, NEW w \in Scheduler, Save(w)
  PROVE  IInv'
  <1> USE JourneyAssumption DEF automationVars, enrolVars, userVars, outVars
  <1>0. TypeOK /\ SchedulerInv(w) /\ Executing(w) /\ pc[w] = "save"
    BY DEF IInv, Save, Executing
  <1>1. cur[w] \in Journey /\ Leave(w, cur[w]) /\ RetriesFit(mem[w][cur[w]])
    BY <1>0 DEF SchedulerInv, Save
  <1>2. UNCHANGED <<astatus, nodes, deleted, trigger, log, enrol, upc, ucopy, faults, graph, sent, ends>>
    BY DEF Save
  <1>3. row' \in [Journey -> Row] /\ \A i \in Journey : RetriesFit(row'[i])
    BY <1>1, WriteBackInv DEF Save
  <1>4. TypeOK'
    BY <1>0, <1>1, <1>2, <1>3, LeaveInv DEF TypeOK
  <1>5. \A v \in Scheduler : SchedulerInv(v)'
    BY <1>0, <1>1, <1>2, LeaveInv, Bystander DEF IInv
  <1> QED
    BY <1>3, <1>4, <1>5 DEF IInv, RetriesFit

\* handleError counts one retry more, and fails the row with the last one.
LEMMA HandleErrorInv ==
  ASSUME IInv, NEW w \in Scheduler, HandleError(w)
  PROVE  IInv'
  <1> USE JourneyAssumption DEF automationVars, enrolVars, userVars
  <1> DEFINE j == cur[w]
             r == mem[w][j]
  <1>0. TypeOK /\ SchedulerInv(w) /\ Executing(w) /\ pc[w] = "error"
    BY DEF IInv, HandleError, Executing
  <1>1. j \in Journey /\ r.retries < MaxRetries /\ r.status # "failed"
    BY <1>0 DEF SchedulerInv
  <1>2. r \in Row
    BY <1>0, <1>1 DEF TypeOK
  <1>3. UNCHANGED <<astatus, nodes, deleted, trigger, log, enrol, row, upc, ucopy, faults, todo, cur, graph, steps, mid, sent>>
    BY DEF HandleError
  <1>4. ends' \in [Journey -> Nat]
    <2>1. ends \in [Journey -> Nat]
      BY <1>0 DEF TypeOK
    <2>2. UNCHANGED ends \/ ends' = [ends EXCEPT ![j] = @ + 1]
      BY DEF HandleError
    <2> QED
      BY <1>1, <2>1, <2>2
  <1>5. PICK R \in Row : mem' = [mem EXCEPT ![w][j] = R] /\ RetriesFit(R)
    <2>1. CASE GivesUp(r)
      <3> DEFINE F == [r EXCEPT !.retries = @ + 1, !.status = "failed"]
      <3>1. r.retries + 1 = MaxRetries
        BY <1>1, <1>2, <2>1 DEF GivesUp, Row
      <3>2. F \in Row /\ F.status = "failed" /\ F.retries = MaxRetries
        <4>0. MaxRetries \in 0 .. MaxRetries
          OBVIOUS
        <4>1. F = [r EXCEPT !.retries = MaxRetries, !.status = "failed"]
          BY <3>1, Zenon
        <4> HIDE DEF r, F
        <4>2. /\ [r EXCEPT !.retries = MaxRetries, !.status = "failed"] \in Row
              /\ [r EXCEPT !.retries = MaxRetries, !.status = "failed"].status = "failed"
              /\ [r EXCEPT !.retries = MaxRetries, !.status = "failed"].retries = MaxRetries
          BY <1>2, <4>0 DEF Row, JStatus
        <4> QED
          BY <4>1, <4>2
      <3>3. mem' = [mem EXCEPT ![w][j] = F]
        <4>1. mem' = [mem EXCEPT ![w][j].retries = @ + 1, ![w][j].status = "failed"]
          BY <2>1 DEF HandleError
        <4>2. mem \in [Scheduler -> [Journey -> Row]]
          BY <1>0 DEF TypeOK
        <4> QED
          BY <1>1, <4>1, <4>2
      <3> HIDE DEF F
      <3> QED
        BY <3>2, <3>3 DEF RetriesFit
    <2>2. CASE ~GivesUp(r)
      <3> DEFINE F == Retry(r)
      <3>1. r.retries + 1 < MaxRetries
        BY <1>1, <1>2, <2>2 DEF GivesUp, Row
      <3>2. F \in Row /\ F.status = r.status /\ F.retries < MaxRetries
        <4> DEFINE k == r.retries + 1
        <4>1. F = [r EXCEPT !.retries = k, !.sched = "wait"] /\ k \in 0 .. MaxRetries /\ k < MaxRetries
          BY <1>2, <3>1 DEF Row, Retry
        <4> HIDE DEF r, F, k
        <4>2. /\ [r EXCEPT !.retries = k, !.sched = "wait"] \in Row
              /\ [r EXCEPT !.retries = k, !.sched = "wait"].status = r.status
              /\ [r EXCEPT !.retries = k, !.sched = "wait"].retries = k
          BY <1>2, <4>1 DEF Row
        <4> QED
          BY <4>1, <4>2
      <3>3. mem' = [mem EXCEPT ![w][j] = F]
        BY <1>0, <1>1, <2>2 DEF HandleError, TypeOK
      <3> HIDE DEF F
      <3> QED
        BY <1>1, <3>2, <3>3 DEF RetriesFit
    <2> QED
      BY <2>1, <2>2
  <1>6. /\ mem' \in [Scheduler -> [Journey -> Row]]
        /\ mem'[w][j] = R
        /\ \A i \in Journey \ {j} : mem'[w][i] = mem[w][i]
        /\ \A v \in Scheduler \ {w} : mem'[v] = mem[v]
    BY <1>0, <1>1, <1>5, MemWrite DEF TypeOK
  <1>7. pc' = [pc EXCEPT ![w] = "save"]
    BY DEF HandleError
  <1>8. TypeOK'
    BY <1>0, <1>3, <1>4, <1>6, <1>7 DEF TypeOK, PC
  <1>9. \A v \in Scheduler \ {w} : SchedulerInv(v)'
    BY <1>0, <1>3, <1>6, <1>7, Bystander DEF IInv, TypeOK
  <1>10. j \notin todo[w]
    BY <1>0 DEF SchedulerInv
  <1>11. SchedulerInv(w)'
    BY <1>0, <1>1, <1>3, <1>5, <1>6, <1>7, <1>10 DEF SchedulerInv, Executing, TypeOK, RetriesFit
  <1> QED
    BY <1>3, <1>8, <1>9, <1>11 DEF IInv, RetriesFit

\* A write that fails leaves the row as it was.
LEMMA WriteFailsInv ==
  ASSUME IInv, NEW w \in Scheduler, WriteFails(w)
  PROVE  IInv'
  <1> USE JourneyAssumption DEF automationVars, enrolVars, userVars, outVars
  <1>0. TypeOK /\ SchedulerInv(w)
    BY DEF IInv
  <1>1. /\ UNCHANGED <<astatus, nodes, deleted, trigger, log, enrol, row, upc, ucopy, graph, sent, ends>>
        /\ faults' \in Nat
    BY <1>0 DEF WriteFails, TypeOK
  <1>2. CASE pc[w] = "persist" /\ pc' = [pc EXCEPT ![w] = "error"] /\ UNCHANGED <<todo, mem, cur, steps, mid>>
    <2>1. TypeOK'
      BY <1>0, <1>1, <1>2 DEF TypeOK, PC
    <2>2. SchedulerInv(w)'
      BY <1>0, <1>1, <1>2 DEF SchedulerInv, Executing, TypeOK
    <2>3. \A v \in Scheduler \ {w} : SchedulerInv(v)'
      BY <1>0, <1>1, <1>2, Bystander DEF IInv, TypeOK
    <2> QED
      BY <1>1, <2>1, <2>2, <2>3 DEF IInv, RetriesFit
  <1>3. CASE pc[w] \in {"save", "end"} /\ Leave(w, cur[w])
    <2>1. cur[w] \in Journey
      BY <1>0, <1>3 DEF SchedulerInv, Executing
    <2>2. TypeOK'
      BY <1>0, <1>1, <1>3, <2>1, LeaveInv DEF TypeOK
    <2>3. \A v \in Scheduler : SchedulerInv(v)'
      BY <1>0, <1>1, <1>3, <2>1, LeaveInv, Bystander DEF IInv
    <2> QED
      BY <1>1, <2>2, <2>3 DEF IInv, RetriesFit
  <1> QED
    BY <1>2, <1>3 DEF WriteFails

\* A crash empties the memory of one scheduler.
LEMMA CrashInv ==
  ASSUME IInv, NEW w \in Scheduler, Crash(w)
  PROVE  IInv'
  <1> USE JourneyAssumption DEF automationVars, enrolVars, userVars, outVars
  <1>0. TypeOK /\ SchedulerInv(w)
    BY DEF IInv
  <1>1. NoRow \in Row
    BY DEF NoRow, Row, JStatus
  <1>2. mem' \in [Scheduler -> [Journey -> Row]]
    BY <1>0, <1>1 DEF Crash, TypeOK
  <1>3. TypeOK'
    BY <1>0, <1>2 DEF Crash, TypeOK, PC
  <1>4. SchedulerInv(w)'
    BY <1>0 DEF Crash, SchedulerInv, Executing, TypeOK
  <1>5. \A v \in Scheduler \ {w} : SchedulerInv(v)'
    BY <1>0, Bystander DEF Crash, IInv, TypeOK
  <1> QED
    BY <1>3, <1>4, <1>5 DEF IInv, RetriesFit, Crash

\* Time sets nothing but the schedule.
LEMMA ComesDueInv ==
  ASSUME IInv, NEW j \in Journey, ComesDue(j)
  PROVE  IInv'
  <1> USE JourneyAssumption DEF automationVars, enrolVars, userVars, schedulerVars, outVars
  <1> DEFINE R == [row[j] EXCEPT !.sched = "due"]
  <1>0. TypeOK /\ row[j] \in Row /\ RetriesFit(row[j])
    BY DEF IInv, TypeOK
  <1>1. R \in Row /\ R.status = row[j].status /\ R.retries = row[j].retries
    BY <1>0 DEF Row
  <1>2. row' = [row EXCEPT ![j] = R]
    BY DEF ComesDue
  <1> HIDE DEF R
  <1>3. row' \in [Journey -> Row] /\ \A i \in Journey : RetriesFit(row'[i])
    BY <1>0, <1>1, <1>2 DEF IInv, TypeOK, RetriesFit
  <1>4. TypeOK'
    BY <1>0, <1>3 DEF ComesDue, TypeOK
  <1>5. \A v \in Scheduler : SchedulerInv(v)'
    BY Bystander DEF ComesDue, IInv
  <1> QED
    BY <1>3, <1>4, <1>5 DEF IInv, RetriesFit

\* Every step keeps the invariant.
LEMMA NextIInv == IInv /\ [Next]_vars => IInv'
  <1> SUFFICES ASSUME IInv, [Next]_vars PROVE IInv'
    OBVIOUS
  <1>1. CASE UNCHANGED vars
    BY <1>1 DEF vars, automationVars, enrolVars, userVars, schedulerVars, outVars, IInv, TypeOK,
                RetriesFit, SchedulerInv, Executing, Live
  <1>2. CASE Command
    BY <1>2, CommandInv
  <1>3. ASSUME NEW w \in Scheduler, SchedulerStep(w) \/ WriteFails(w) \/ Crash(w) PROVE IInv'
    BY <1>3, GetScheduledInv, BeginInv, ExecuteNodeInv, PersistInv, EndEventInv, HandleErrorInv, SaveInv,
       WriteFailsInv, CrashInv
    DEF SchedulerStep
  <1>4. ASSUME NEW j \in Journey, ComesDue(j) PROVE IInv'
    BY <1>4, ComesDueInv
  <1> QED
    BY <1>1, <1>2, <1>3, <1>4 DEF Next

\* The inductive invariant holds in every reachable state.
THEOREM Invariance == Spec => []IInv
  BY InitIInv, NextIInv, PTL DEF Spec

\* The rows, the copies in memory and the commands keep their types.
THEOREM TypeCorrect == Spec => []TypeOK
  <1>1. IInv => TypeOK
    BY DEF IInv
  <1> QED
    BY <1>1, Invariance, PTL

\* A journey that failed has used every retry handleError grants it, with any
\* number of schedulers writing copies of any age.
THEOREM FailureIsExhaustion == Spec => []FailedIsExhausted
  <1>1. IInv => FailedIsExhausted
    BY DEF IInv, RetriesFit, FailedIsExhausted
  <1> QED
    BY <1>1, Invariance, PTL

\* Execute never enqueues an email for a paused or deleted automation, except
\* where it was already at work when the automation stopped.
THEOREM StoppedIsFrozen == Spec => PauseFreezesJourneys
  <1> DEFINE A == \A j \in Journey : sent'[j] # sent[j] /\ ~Live => \E w \in mid : cur[w] = j
  <1>1. IInv /\ [Next]_vars => [A]_vars
    <2> SUFFICES ASSUME IInv, Next, NEW j \in Journey, sent'[j] # sent[j], ~Live
                 PROVE  \E w \in mid : cur[w] = j
      BY DEF A
    <2>1. PICK w \in Scheduler : ExecuteNode(w)
      BY DEF Next, Command, Beside, SchedulerStep, GetScheduled, Begin, Persist, EndEvent, HandleError, Save,
             WriteFails, Crash, ComesDue, outVars
    <2>2. SchedulerInv(w) /\ TypeOK /\ pc[w] = "node"
      BY <2>1 DEF IInv, ExecuteNode
    <2>3. w \in mid
      BY <2>2 DEF SchedulerInv
    <2>4. cur[w] = j
      <3>1. \/ UNCHANGED sent
            \/ sent' = [sent EXCEPT ![cur[w]][mem[w][cur[w]].node] =
                          IF Kind[mem[w][cur[w]].node] = "email" THEN @ + 1 ELSE @]
        BY <2>1 DEF ExecuteNode, Finish
      <3> QED
        BY <2>2, <3>1 DEF TypeOK
    <2> QED
      BY <2>3, <2>4
  <1> QED
    BY <1>1, Invariance, PTL DEF Spec, PauseFreezesJourneys

-----------------------------------------------------------------------------
(* What each step of a scheduler does to the row it is at work on.         *)

Others(w) ==
  \A v \in Scheduler \ {w} :
    pc'[v] = pc[v] /\ cur'[v] = cur[v] /\ todo'[v] = todo[v] /\ mem'[v] = mem[v]

Left(w, j) ==
  /\ pc'[w] \in {"idle", "batch"} /\ cur'[w] = NoJourney
  /\ todo'[w] = todo[w] \ {j}
  /\ \A i \in Journey \ {j} : mem'[w][i] = mem[w][i]

Stays(w) == cur'[w] = cur[w] /\ todo'[w] = todo[w]

\* An assignment to the copy of row j in memory.
Copied(w, j, R) ==
  mem'[w][j] = R /\ \A i \in Journey \ {j} : mem'[w][i] = mem[w][i]

\* The row moves from node n to the next.
MovesOn(w, j, n, next, status) ==
  mem' = [mem EXCEPT ![w][j].node = next, ![w][j].sched = SchedAfter(n), ![w][j].status = status]

\* Another automation.end event.
Ended(j) ==
  ends'[j] = ends[j] + 1 /\ \A i \in Journey \ {j} : ends'[i] = ends[i]

\* Leave forgets one row and keeps the others.
LEMMA LeaveEffect ==
  ASSUME TypeOK, NEW w \in Scheduler, NEW j \in Journey, Leave(w, j)
  PROVE  Left(w, j) /\ Others(w)
  <1>1. /\ todo' = [todo EXCEPT ![w] = todo[w] \ {j}]
        /\ cur' = [cur EXCEPT ![w] = NoJourney]
        /\ mem' = [mem EXCEPT ![w][j] = NoRow]
        /\ pc' = [pc EXCEPT ![w] = IF todo[w] \ {j} = {} THEN "idle" ELSE "batch"]
    BY DEF Leave
  <1> QED
    BY <1>1 DEF TypeOK, Left, Others

\* A batch holds the rows as they are.
LEMMA GetScheduledEffect ==
  ASSUME TypeOK, NEW w \in Scheduler, NEW S \in SUBSET Journey, GetScheduled(w, S)
  PROVE  /\ Others(w) /\ UNCHANGED <<row, ends, sent, faults, enrol>>
         /\ pc[w] = "idle" /\ pc'[w] = "batch" /\ cur'[w] = cur[w] /\ todo'[w] = S
         /\ \A j \in S : row[j].status = "active" /\ mem'[w][j] = row[j]
  BY DEF GetScheduled, TypeOK, Others, Due, enrolVars, outVars

\* Execute up to its loop.
LEMMA BeginEffect ==
  ASSUME TypeOK, NEW w \in Scheduler, NEW j \in Journey, Begin(w, j)
  PROVE  /\ Others(w) /\ UNCHANGED <<row, sent, faults, enrol>>
         /\ pc[w] = "batch" /\ j \in todo[w]
         /\ \/ Left(w, j) /\ UNCHANGED ends
            \/ /\ cur'[w] = j /\ todo'[w] = todo[w] \ {j} /\ pc'[w] \in {"error", "node"}
               /\ mem' = mem /\ ends' = ends
            \/ /\ cur'[w] = j /\ todo'[w] = todo[w] \ {j} /\ pc'[w] = "save"
               /\ Ended(j)
               /\ \E R \in Row : R.status = "completed" /\ R.node = mem[w][j].node /\ Copied(w, j, R)
  <1>1. UNCHANGED <<row, sent, faults, enrol>> /\ pc[w] = "batch" /\ j \in todo[w]
    BY DEF Begin, enrolVars
  <1>2. CASE Leave(w, j) /\ UNCHANGED ends
    BY <1>1, <1>2, LeaveEffect
  <1>3. ASSUME NEW step \in {"error", "node", "save"}, Enter(w, j, step)
        PROVE  /\ cur'[w] = j /\ todo'[w] = todo[w] \ {j} /\ pc'[w] = step
               /\ \A v \in Scheduler \ {w} : pc'[v] = pc[v] /\ cur'[v] = cur[v] /\ todo'[v] = todo[v]
    BY <1>3 DEF Enter, TypeOK
  <1>4. CASE (Enter(w, j, "error") \/ Enter(w, j, "node")) /\ UNCHANGED <<mem, ends>>
    BY <1>1, <1>3, <1>4 DEF Others
  <1>5. CASE Enter(w, j, "save") /\ Finish(w, j, "completed")
    <2>1. PICK R : R = [mem[w][j] EXCEPT !.status = "completed", !.sched = "null"]
      OBVIOUS
    <2>2. mem[w][j] \in Row
      BY DEF TypeOK
    <2>3. R \in Row /\ R.status = "completed" /\ R.node = mem[w][j].node
      BY <2>1, <2>2 DEF Row, JStatus
    <2>4. mem' = [mem EXCEPT ![w][j] = R]
      BY <1>5, <2>1 DEF Finish, TypeOK
    <2>5. Copied(w, j, R) /\ \A v \in Scheduler \ {w} : mem'[v] = mem[v]
      BY <2>3, <2>4, MemWrite DEF TypeOK, Copied
    <2>6. Ended(j)
      BY <1>5 DEF Finish, TypeOK, Ended
    <2> QED
      BY <1>1, <1>3, <1>5, <2>3, <2>5, <2>6 DEF Others
  <1> QED
    BY <1>2, <1>4, <1>5 DEF Begin

\* One node: the journey exits, fails, or moves on, and an email node may
\* have enqueued its email.
LEMMA ExecuteNodeEffect ==
  ASSUME IInv, NEW w \in Scheduler, ExecuteNode(w)
  PROVE  LET j == cur[w]
             n == mem[w][j].node
         IN  /\ Others(w) /\ Stays(w) /\ UNCHANGED <<row, faults, enrol>>
             /\ pc[w] = "node" /\ j \in Journey \ todo[w]
             /\ \/ /\ pc'[w] = "save" /\ Ended(j) /\ sent' = sent
                   /\ \E R \in Row : R.status = "exited" /\ R.node = n /\ Copied(w, j, R)
                \/ pc'[w] = "error" /\ UNCHANGED <<mem, ends, sent>>
                \/ /\ pc'[w] = "persist" /\ UNCHANGED <<ends, sent>>
                   /\ \E R \in Row : R.status = "exited" /\ R.node = NoNode /\ Copied(w, j, R)
                \/ /\ pc'[w] = "persist" /\ ends' = ends /\ n \in Node
                   /\ \E R \in Row : /\ R.status \in {"completed", "active"} /\ R.node \in Succ[n]
                                     /\ Copied(w, j, R)
                   /\ sent'[j][n] \in {sent[j][n], sent[j][n] + 1}
                   /\ \A i \in Journey, m \in Node : i # j \/ m # n => sent'[i][m] = sent[i][m]
  <1>1. PICK j : j = cur[w]
    OBVIOUS
  <1>2. TypeOK /\ SchedulerInv(w) /\ pc[w] = "node" /\ UNCHANGED <<row, faults, enrol>>
    <2>1. TypeOK /\ SchedulerInv(w)
      BY DEF IInv
    <2>2. pc[w] = "node" /\ UNCHANGED <<row, faults, enrolVars>>
      BY Zenon DEF ExecuteNode
    <2> QED
      BY <2>1, <2>2 DEF enrolVars
  <1>3. j \in Journey \ todo[w] /\ mem[w][j] \in Row
    <2>1. j \in Journey \ todo[w]
      BY <1>1, <1>2 DEF SchedulerInv, Executing
    <2> QED
      BY <1>2, <2>1 DEF TypeOK
  <1>4. PICK n : n = mem[w][j].node
    OBVIOUS
  <1>5. ASSUME NEW step \in PC, pc' = [pc EXCEPT ![w] = step], UNCHANGED <<todo, cur>>,
               \A v \in Scheduler \ {w} : mem'[v] = mem[v]
        PROVE  Others(w) /\ Stays(w) /\ pc'[w] = step
    BY <1>2, <1>5 DEF TypeOK, Others, Stays
  <1>6. ASSUME NEW R \in Row, mem' = [mem EXCEPT ![w][j] = R]
        PROVE  Copied(w, j, R) /\ \A v \in Scheduler \ {w} : mem'[v] = mem[v]
    BY <1>2, <1>3, <1>6, MemWrite DEF TypeOK, Copied
  <1>7. CASE Finish(w, j, "exited") /\ pc' = [pc EXCEPT ![w] = "save"] /\ UNCHANGED <<todo, cur, sent>>
    <2>1. PICK R : R = [mem[w][j] EXCEPT !.status = "exited", !.sched = "null"]
      OBVIOUS
    <2>2. R \in Row /\ R.status = "exited" /\ R.node = n
      BY <1>3, <1>4, <2>1 DEF Row, JStatus
    <2>3. mem' = [mem EXCEPT ![w][j] = R]
      BY <1>2, <1>3, <1>7, <2>1 DEF Finish, TypeOK
    <2>4. Ended(j)
      BY <1>2, <1>3, <1>7 DEF Finish, TypeOK, Ended
    <2>5. Copied(w, j, R) /\ Others(w) /\ Stays(w) /\ pc'[w] = "save"
      BY <1>5, <1>6, <1>7, <2>2, <2>3 DEF PC
    <2> QED
      BY <1>1, <1>2, <1>3, <1>4, <1>7, <2>2, <2>4, <2>5
  <1>8. CASE pc' = [pc EXCEPT ![w] = "error"] /\ UNCHANGED <<todo, cur, mem, sent, ends>>
    <2>1. Others(w) /\ Stays(w) /\ pc'[w] = "error"
      BY <1>5, <1>8 DEF PC
    <2> QED
      BY <1>1, <1>2, <1>3, <1>4, <1>8, <2>1
  <1>9. ASSUME NEW next \in Node \cup {NoNode}, NEW status \in {"exited", "completed", "active"},
               MovesOn(w, j, n, next, status),
               pc' = [pc EXCEPT ![w] = "persist"], UNCHANGED <<todo, cur>>
        PROVE  /\ Others(w) /\ Stays(w) /\ pc'[w] = "persist"
               /\ \E R \in Row : R.status = status /\ R.node = next /\ Copied(w, j, R)
    <2>1. PICK R : R = [mem[w][j] EXCEPT !.node = next, !.sched = SchedAfter(n), !.status = status]
      OBVIOUS
    <2>2. SchedAfter(n) \in {"null", "wait", "due"} /\ status \in JStatus
      BY DEF SchedAfter, JStatus
    <2>3. R \in Row /\ R.status = status /\ R.node = next
      BY <1>3, <2>1, <2>2 DEF Row
    <2>4. mem' = [mem EXCEPT ![w][j] = R]
      BY <1>2, <1>3, <1>9, <2>1 DEF TypeOK, MovesOn
    <2>5. Copied(w, j, R) /\ Others(w) /\ Stays(w) /\ pc'[w] = "persist"
      BY <1>5, <1>6, <1>9, <2>3, <2>4 DEF PC
    <2> QED
      BY <2>3, <2>5
  <1>10. ASSUME n \in Node, sent' = [sent EXCEPT ![j][n] = IF Kind[n] = "email" THEN @ + 1 ELSE @]
         PROVE  /\ sent'[j][n] \in {sent[j][n], sent[j][n] + 1}
                /\ \A i \in Journey, m \in Node : i # j \/ m # n => sent'[i][m] = sent[i][m]
    <2>1. PICK k : k = IF Kind[n] = "email" THEN sent[j][n] + 1 ELSE sent[j][n]
      OBVIOUS
    <2>2. sent \in [Journey -> [Node -> Nat]] /\ sent[j] \in [Node -> Nat]
      BY <1>2, <1>3 DEF TypeOK
    <2>3. sent' = [sent EXCEPT ![j] = [sent[j] EXCEPT ![n] = k]]
      BY <1>10, <2>1
    <2>4. sent'[j] = [sent[j] EXCEPT ![n] = k] /\ \A i \in Journey \ {j} : sent'[i] = sent[i]
      BY <1>3, <2>2, <2>3
    <2>5. sent'[j][n] = k /\ \A m \in Node \ {n} : sent'[j][m] = sent[j][m]
      BY <1>10, <2>2, <2>4
    <2> QED
      BY <2>1, <2>4, <2>5
  <1>11. graph[w] \subseteq Node
    BY <1>2 DEF TypeOK
  <1>12. CASE /\ MovesOn(w, j, n, NoNode, "exited")
              /\ pc' = [pc EXCEPT ![w] = "persist"] /\ UNCHANGED <<todo, cur, ends, sent>>
    BY <1>1, <1>2, <1>3, <1>4, <1>9, <1>12
  <1>13. ASSUME n \in Node, NEW next \in Succ[n],
                MovesOn(w, j, n, next, StatusAfter(n, next)),
                pc' = [pc EXCEPT ![w] = "persist"], UNCHANGED <<todo, cur, ends>>,
                sent' = [sent EXCEPT ![j][n] = IF Kind[n] = "email" THEN @ + 1 ELSE @]
         PROVE  /\ Others(w) /\ Stays(w) /\ pc'[w] = "persist" /\ ends' = ends
                /\ \E R \in Row : /\ R.status \in {"completed", "active"} /\ R.node \in Succ[n]
                                  /\ Copied(w, j, R)
                /\ sent'[j][n] \in {sent[j][n], sent[j][n] + 1}
                /\ \A i \in Journey, m \in Node : i # j \/ m # n => sent'[i][m] = sent[i][m]
    <2>1. next \in Node \cup {NoNode} /\ StatusAfter(n, next) \in {"completed", "active"}
      BY <1>13, JourneyAssumption DEF StatusAfter
    <2>2. /\ Others(w) /\ Stays(w) /\ pc'[w] = "persist"
          /\ \E R \in Row : R.status = StatusAfter(n, next) /\ R.node = next /\ Copied(w, j, R)
      BY <1>9, <1>13, <2>1
    <2> QED
      BY <1>10, <1>13, <2>1, <2>2
  <1>14. \/ Finish(w, j, "exited") /\ pc' = [pc EXCEPT ![w] = "save"] /\ UNCHANGED <<todo, cur, sent>>
         \/ pc' = [pc EXCEPT ![w] = "error"] /\ UNCHANGED <<todo, cur, mem, sent, ends>>
         \/ /\ MovesOn(w, j, n, NoNode, "exited")
            /\ pc' = [pc EXCEPT ![w] = "persist"] /\ UNCHANGED <<todo, cur, ends, sent>>
         \/ /\ n \in Node
            /\ \E next \in Succ[n] : MovesOn(w, j, n, next, StatusAfter(n, next))
            /\ pc' = [pc EXCEPT ![w] = "persist"] /\ UNCHANGED <<todo, cur, ends>>
            /\ sent' = [sent EXCEPT ![j][n] = IF Kind[n] = "email" THEN @ + 1 ELSE @]
    BY <1>1, <1>4, <1>11, Zenon DEF ExecuteNode, MovesOn
  <1>15. CASE /\ n \in Node
              /\ \E next \in Succ[n] : MovesOn(w, j, n, next, StatusAfter(n, next))
              /\ pc' = [pc EXCEPT ![w] = "persist"] /\ UNCHANGED <<todo, cur, ends>>
              /\ sent' = [sent EXCEPT ![j][n] = IF Kind[n] = "email" THEN @ + 1 ELSE @]
    <2>1. PICK next \in Succ[n] : MovesOn(w, j, n, next, StatusAfter(n, next))
      BY <1>15
    <2>2. /\ Others(w) /\ Stays(w) /\ pc'[w] = "persist" /\ ends' = ends
          /\ \E R \in Row : /\ R.status \in {"completed", "active"} /\ R.node \in Succ[n]
                            /\ Copied(w, j, R)
          /\ sent'[j][n] \in {sent[j][n], sent[j][n] + 1}
          /\ \A i \in Journey, m \in Node : i # j \/ m # n => sent'[i][m] = sent[i][m]
      BY <1>13, <1>15, <2>1
    <2> QED
      BY <1>1, <1>2, <1>3, <1>4, <1>15, <2>2, Zenon
  <1> QED
    BY <1>7, <1>8, <1>12, <1>14, <1>15

\* The write after a node.
LEMMA PersistEffect ==
  ASSUME IInv, NEW w \in Scheduler, Persist(w)
  PROVE  LET j == cur[w]
         IN  /\ Others(w) /\ UNCHANGED <<sent, ends, faults, enrol>>
             /\ pc[w] = "persist" /\ j \in Journey \ todo[w]
             /\ row' = [row EXCEPT ![j] = mem[w][j]]
             /\ \/ Left(w, j) /\ mem[w][j].status = "active"
                \/ Stays(w) /\ mem' = mem /\ pc'[w] = "node" /\ mem[w][j].status = "active"
                \/ Stays(w) /\ mem' = mem /\ pc'[w] = "end" /\ mem[w][j].status # "active"
  <1>1. TypeOK /\ SchedulerInv(w) /\ pc[w] = "persist"
    BY DEF IInv, Persist
  <1>2. cur[w] \in Journey \ todo[w]
    BY <1>1 DEF SchedulerInv, Executing
  <1>3. UNCHANGED <<sent, ends, faults, enrol>> /\ row' = [row EXCEPT ![cur[w]] = mem[w][cur[w]]]
    BY DEF Persist, WriteBack, enrolVars, outVars
  <1>4. CASE Leave(w, cur[w]) /\ mem[w][cur[w]].status = "active"
    BY <1>1, <1>2, <1>3, <1>4, LeaveEffect
  <1>5. ASSUME NEW step \in {"node", "end"}, pc' = [pc EXCEPT ![w] = step], UNCHANGED <<todo, mem, cur>>
        PROVE  Others(w) /\ Stays(w) /\ mem' = mem /\ pc'[w] = step
    BY <1>1, <1>5 DEF TypeOK, Others, Stays
  <1> QED
    BY <1>1, <1>2, <1>3, <1>4, <1>5 DEF Persist

\* The event of a journey that ended in the loop.
LEMMA EndEventEffect ==
  ASSUME IInv, NEW w \in Scheduler, EndEvent(w)
  PROVE  /\ Others(w) /\ UNCHANGED <<row, sent, faults, enrol>>
         /\ pc[w] = "end" /\ cur[w] \in Journey \ todo[w]
         /\ Ended(cur[w]) /\ Left(w, cur[w])
  <1>1. TypeOK /\ SchedulerInv(w) /\ pc[w] = "end"
    BY DEF IInv, EndEvent
  <1>2. cur[w] \in Journey \ todo[w]
    BY <1>1 DEF SchedulerInv, Executing
  <1>3. UNCHANGED <<row, sent, faults, enrol>> /\ Leave(w, cur[w]) /\ Ended(cur[w])
    BY <1>1, <1>2 DEF EndEvent, enrolVars, Ended, TypeOK
  <1> QED
    BY <1>1, <1>2, <1>3, LeaveEffect

\* handleError.
LEMMA HandleErrorEffect ==
  ASSUME IInv, NEW w \in Scheduler, HandleError(w)
  PROVE  LET j == cur[w]
         IN  /\ Others(w) /\ Stays(w) /\ UNCHANGED <<row, sent, faults, enrol>>
             /\ pc[w] = "error" /\ pc'[w] = "save" /\ j \in Journey \ todo[w]
             /\ mem'[w][j].node = mem[w][j].node
             /\ \A i \in Journey \ {j} : mem'[w][i] = mem[w][i]
             /\ \/ mem'[w][j].status = "failed" /\ Ended(j)
                \/ mem'[w][j].status = mem[w][j].status /\ ends' = ends
  <1>1. TypeOK /\ SchedulerInv(w) /\ pc[w] = "error"
    BY DEF IInv, HandleError
  <1>2. cur[w] \in Journey \ todo[w] /\ mem[w][cur[w]] \in Row
    <2>1. cur[w] \in Journey \ todo[w]
      BY <1>1 DEF SchedulerInv, Executing
    <2> QED
      BY <1>1, <2>1 DEF TypeOK
  <1>3. /\ UNCHANGED <<row, sent, faults, enrol, todo, cur>> /\ pc' = [pc EXCEPT ![w] = "save"]
    BY DEF HandleError, enrolVars
  <1>4. pc'[w] = "save" /\ Stays(w)
        /\ \A v \in Scheduler \ {w} : pc'[v] = pc[v] /\ cur'[v] = cur[v] /\ todo'[v] = todo[v]
    BY <1>1, <1>3 DEF TypeOK, Stays
  <1>5. CASE GivesUp(mem[w][cur[w]])
    <2>1. mem' = [mem EXCEPT ![w][cur[w]].retries = @ + 1, ![w][cur[w]].status = "failed"]
          /\ ends' = [ends EXCEPT ![cur[w]] = @ + 1]
      BY <1>5 DEF HandleError
    <2>2. /\ mem'[w][cur[w]].node = mem[w][cur[w]].node /\ mem'[w][cur[w]].status = "failed"
          /\ \A i \in Journey \ {cur[w]} : mem'[w][i] = mem[w][i]
          /\ \A v \in Scheduler \ {w} : mem'[v] = mem[v]
      BY <1>1, <1>2, <2>1 DEF TypeOK, Row
    <2>3. Ended(cur[w])
      BY <1>1, <1>2, <2>1 DEF TypeOK, Ended
    <2> QED
      BY <1>1, <1>2, <1>3, <1>4, <2>2, <2>3 DEF Others
  <1>6. CASE ~GivesUp(mem[w][cur[w]])
    <2>1. mem' = [mem EXCEPT ![w][cur[w]] = Retry(mem[w][cur[w]])] /\ ends' = ends
      BY <1>1, <1>2, <1>6 DEF HandleError, TypeOK
    <2>2. /\ Retry(mem[w][cur[w]]).node = mem[w][cur[w]].node
          /\ Retry(mem[w][cur[w]]).status = mem[w][cur[w]].status
      BY <1>2 DEF Retry, Row
    <2>3. /\ mem'[w][cur[w]] = Retry(mem[w][cur[w]])
          /\ \A i \in Journey \ {cur[w]} : mem'[w][i] = mem[w][i]
          /\ \A v \in Scheduler \ {w} : mem'[v] = mem[v]
      BY <1>1, <1>2, <2>1 DEF TypeOK
    <2> QED
      BY <1>1, <1>2, <1>3, <1>4, <2>1, <2>2, <2>3 DEF Others
  <1> QED
    BY <1>5, <1>6

\* The last write.
LEMMA SaveEffect ==
  ASSUME IInv, NEW w \in Scheduler, Save(w)
  PROVE  /\ Others(w) /\ UNCHANGED <<sent, ends, faults, enrol>>
         /\ pc[w] = "save" /\ cur[w] \in Journey \ todo[w]
         /\ row' = [row EXCEPT ![cur[w]] = mem[w][cur[w]]]
         /\ Left(w, cur[w])
  <1>1. TypeOK /\ SchedulerInv(w) /\ pc[w] = "save"
    BY DEF IInv, Save
  <1>2. cur[w] \in Journey \ todo[w]
    BY <1>1 DEF SchedulerInv, Executing
  <1>3. /\ UNCHANGED <<sent, ends, faults, enrol>> /\ Leave(w, cur[w])
        /\ row' = [row EXCEPT ![cur[w]] = mem[w][cur[w]]]
    BY DEF Save, WriteBack, enrolVars, outVars
  <1> QED
    BY <1>1, <1>2, <1>3, LeaveEffect

\* A fault: the write is lost, or everything in memory is.
LEMMA FaultEffect ==
  ASSUME IInv, NEW w \in Scheduler, WriteFails(w) \/ Crash(w)
  PROVE  /\ Others(w) /\ UNCHANGED <<row, sent, ends, enrol>> /\ faults' = faults + 1
         /\ \/ /\ pc[w] = "persist" /\ pc'[w] = "error" /\ Stays(w) /\ mem' = mem
               /\ cur[w] \in Journey \ todo[w]
            \/ cur[w] \in Journey /\ Left(w, cur[w])
            \/ pc'[w] = "idle" /\ todo'[w] = {} /\ cur'[w] = NoJourney
  <1>1. TypeOK /\ SchedulerInv(w) /\ UNCHANGED <<row, sent, ends, enrol>> /\ faults' = faults + 1
    BY DEF IInv, WriteFails, Crash, enrolVars, outVars
  <1>2. CASE Crash(w)
    BY <1>1, <1>2 DEF Crash, TypeOK, Others
  <1>3. CASE WriteFails(w) /\ pc[w] = "persist"
    <2>1. pc' = [pc EXCEPT ![w] = "error"] /\ UNCHANGED <<todo, mem, cur>>
      BY <1>3 DEF WriteFails
    <2>2. cur[w] \in Journey \ todo[w]
      BY <1>1, <1>3 DEF SchedulerInv, Executing
    <2> QED
      BY <1>1, <1>3, <2>1, <2>2 DEF TypeOK, Others, Stays
  <1>4. CASE WriteFails(w) /\ pc[w] \in {"save", "end"}
    <2>1. cur[w] \in Journey /\ Leave(w, cur[w])
      BY <1>1, <1>4 DEF WriteFails, SchedulerInv, Executing
    <2> QED
      BY <1>1, <2>1, LeaveEffect
  <1> QED
    BY <1>2, <1>3, <1>4 DEF WriteFails

-----------------------------------------------------------------------------
(* Enrolment.                                                              *)

\* A row that scheduler w has read and not let go of.
Held(w, j) == j \in todo[w] \/ (Executing(w) /\ cur[w] = j)

\* Rows appear through their one enrolment and never vanish.
RowsInv ==
  /\ \A j \in Journey : row[j].status # "absent" => enrol[j] = "over"
  /\ \A w \in Scheduler, j \in Journey :
       Held(w, j) => row[j].status # "absent" /\ mem[w][j].status # "absent"

\* One console session or API client.
SoleUser == \A u, v \in User : u = v

\* What each command of the sole user has made sure of on its way: the
\* trigger stands only while the automation is live.
CommandInvariant(u) ==
  /\ upc[u] = "editing" => ucopy[u].status = astatus
  /\ upc[u] \in {"setLive", "create"} => ~trigger /\ ~deleted
  /\ upc[u] = "create" => astatus = "live"
  /\ upc[u] \in {"rollback", "setPaused"} => ~trigger
  /\ upc[u] \in {"exitRows", "softDelete"} => ~trigger \/ faults > 0

TriggerInv ==
  /\ trigger => astatus = "live" /\ (deleted => faults > 0)
  /\ \A j \in Journey : enrol[j] = "checked" => trigger
  /\ \A u \in User : CommandInvariant(u)

\* What a step of the automation does to the rows and enrolments.
LEMMA CommandEffect ==
  ASSUME IInv, Command
  PROVE  /\ UNCHANGED <<schedulerVars, outVars>>
         /\ faults' \in Nat /\ faults <= faults'
         /\ \A j \in Journey :
              \/ enrol'[j] = enrol[j] /\ row'[j] = row[j]
              \/ enrol[j] = "none" /\ enrol'[j] \in {"checked", "over"} /\ trigger /\ row'[j] = row[j]
              \/ /\ enrol[j] = "checked" /\ enrol'[j] = "over"
                 /\ row'[j].status = "active" /\ row'[j].node = Root
              \/ /\ enrol'[j] = enrol[j] /\ row[j].status = "active"
                 /\ row'[j].status = "exited" /\ row'[j].node = row[j].node
  <1>1. /\ enrol \in [Journey -> {"none", "checked", "over"}] /\ row \in [Journey -> Row]
        /\ faults \in Nat
    BY DEF IInv, TypeOK
  <1>2. UNCHANGED <<schedulerVars, outVars>>
    BY DEF Command, Beside
  <1>3. ASSUME NEW i \in Journey, EnrolCheck(i)
        PROVE  /\ faults' = faults /\ row' = row /\ trigger /\ enrol[i] = "none"
               /\ \A j \in Journey : IF j = i THEN enrol'[j] \in {"checked", "over"} ELSE enrol'[j] = enrol[j]
    BY <1>1, <1>3 DEF EnrolCheck
  <1>4. ASSUME NEW i \in Journey, EnrolCommit(i)
        PROVE  /\ faults' = faults /\ enrol[i] = "checked" /\ enrol'[i] = "over"
               /\ row'[i] = [status |-> "active", node |-> Root, sched |-> "due", retries |-> 0]
               /\ \A j \in Journey \ {i} : enrol'[j] = enrol[j] /\ row'[j] = row[j]
    BY <1>1, <1>4 DEF EnrolCommit
  <1>5. ASSUME NEW u \in User, ExitRows(u)
        PROVE  /\ faults' = faults /\ enrol' = enrol
               /\ \A j \in Journey : \/ row'[j] = row[j]
                                     \/ /\ row[j].status = "active" /\ row'[j].status = "exited"
                                        /\ row'[j].node = row[j].node
    <2>1. faults' = faults /\ enrol' = enrol
      BY <1>5, Zenon DEF ExitRows, enrolVars
    <2>2. ASSUME NEW j \in Journey, row'[j] # row[j]
          PROVE  row[j].status = "active" /\ row'[j].status = "exited" /\ row'[j].node = row[j].node
      <3>1. /\ row[j].status = "active" /\ row[j] \in Row
            /\ row'[j] = [row[j] EXCEPT !.status = "exited", !.sched = "null"]
        <4>1. row' = [k \in Journey |-> IF row[k].status = "active"
                                        THEN [row[k] EXCEPT !.status = "exited", !.sched = "null"]
                                        ELSE row[k]]
          BY <1>5, Zenon DEF ExitRows
        <4>2. row'[j] = IF row[j].status = "active"
                        THEN [row[j] EXCEPT !.status = "exited", !.sched = "null"] ELSE row[j]
          BY <4>1, Zenon
        <4>3. row[j].status = "active"
          BY <2>2, <4>2
        <4>4. row[j] \in Row
          BY <1>1
        <4> QED
          BY <4>2, <4>3, <4>4
      <3> QED
        BY <3>1 DEF Row
    <2> QED
      BY <2>1, <2>2
  <1>6. ASSUME NEW u \in User, UserStep(u), ~ExitRows(u)
        PROVE  UNCHANGED <<row, enrol>> /\ faults' \in {faults, faults + 1}
    BY <1>6 DEF UserStep, Proceed, OpenEditor, Update, Activate, SetLive, CreateAutomationTrigger,
       Rollback, Pause, PauseDrop, SetPaused, Delete, SoftDelete, CommandFails, CommandDies, enrolVars
  <1>7. CASE EnrolStep
    <2>1. CASE \E i \in Journey : EnrolCheck(i)
      BY <1>1, <1>2, <1>3, <2>1
    <2>2. CASE \E i \in Journey : EnrolCommit(i)
      BY <1>1, <1>2, <1>4, <2>2
    <2> QED
      BY <1>7, <2>1, <2>2 DEF EnrolStep
  <1>8. ASSUME NEW u \in User, ExitRows(u)
        PROVE  /\ faults' \in Nat /\ faults <= faults'
               /\ \A j \in Journey :
                    \/ enrol'[j] = enrol[j] /\ row'[j] = row[j]
                    \/ /\ enrol'[j] = enrol[j] /\ row[j].status = "active"
                       /\ row'[j].status = "exited" /\ row'[j].node = row[j].node
    BY <1>1, <1>5, <1>8
  <1>9. ASSUME NEW u \in User, UserStep(u), ~ExitRows(u)
        PROVE  /\ faults' \in Nat /\ faults <= faults'
               /\ \A j \in Journey : enrol'[j] = enrol[j] /\ row'[j] = row[j]
    BY <1>1, <1>6, <1>9
  <1> QED
    BY <1>2, <1>7, <1>8, <1>9 DEF Command

\* ComesDue changes scheduled_at alone.
LEMMA ComesDueEffect ==
  ASSUME IInv, NEW i \in Journey, ComesDue(i)
  PROVE  /\ UNCHANGED <<schedulerVars, outVars, enrol, faults>>
         /\ \A j \in Journey : row'[j].status = row[j].status /\ row'[j].node = row[j].node
  <1>1. row \in [Journey -> Row] /\ row' = [row EXCEPT ![i].sched = "due"]
    BY DEF IInv, TypeOK, ComesDue
  <1>2. ASSUME NEW j \in Journey PROVE row'[j].status = row[j].status /\ row'[j].node = row[j].node
    <2>1. row[j] \in Row
      BY <1>1
    <2>2. CASE j = i
      BY <1>1, <2>1, <2>2 DEF Row
    <2>3. CASE j # i
      BY <1>1, <2>3
    <2> QED
      BY <2>2, <2>3
  <1> QED
    BY <1>2 DEF ComesDue, enrolVars

\* What the exit of the active rows and the execution of a node leave alone.
LEMMA ExitRowsFrame ==
  ASSUME NEW u \in User, ExitRows(u)
  PROVE  /\ upc[u] = "exitRows" /\ upc' = [upc EXCEPT ![u] = "softDelete"]
         /\ UNCHANGED <<astatus, deleted, trigger, enrol, ucopy, faults>>
  BY Zenon DEF ExitRows, Goto, automationVars, enrolVars

\* A node changes nothing of the automation, its users or the table.
LEMMA ExecuteNodeFrame ==
  ASSUME NEW w \in Scheduler, ExecuteNode(w)
  PROVE  UNCHANGED <<astatus, deleted, trigger, enrol, row, upc, ucopy, faults>>
  BY Zenon DEF ExecuteNode, automationVars, enrolVars, userVars

\* A row that somebody holds is in the table, and stays there.
LEMMA RowsInvStep ==
  ASSUME IInv, RowsInv, [Next]_vars
  PROVE  RowsInv'
  <1>1. row \in [Journey -> Row]
    BY DEF IInv, TypeOK
  <1>2. ASSUME UNCHANGED <<schedulerVars>>,
               \A j \in Journey : row[j].status # "absent" => row'[j].status # "absent",
               \A j \in Journey : row'[j].status # "absent" => enrol'[j] = "over"
        PROVE  RowsInv'
    BY <1>2 DEF RowsInv, Held, Executing, schedulerVars
  <1>3. CASE Command
    <2>1. ASSUME NEW j \in Journey
          PROVE  /\ row[j].status # "absent" => row'[j].status # "absent"
                 /\ row'[j].status # "absent" => enrol'[j] = "over"
      BY <1>3, CommandEffect DEF RowsInv
    <2> QED
      BY <1>2, <1>3, <2>1, CommandEffect
  <1>4. ASSUME NEW i \in Journey, ComesDue(i) PROVE RowsInv'
    BY <1>2, <1>4, ComesDueEffect DEF RowsInv
  <1>5. ASSUME NEW w \in Scheduler, SchedulerStep(w) \/ WriteFails(w) \/ Crash(w) PROVE RowsInv'
    <2>1. ASSUME Others(w), enrol' = enrol,
                 row' = row \/ (/\ Executing(w) /\ cur[w] \in Journey
                                /\ row' = [row EXCEPT ![cur[w]] = mem[w][cur[w]]]),
                 \A j \in Journey : Held(w, j)' => row[j].status # "absent" /\ mem'[w][j].status # "absent"
          PROVE  RowsInv'
      <3>1. \A j \in Journey : row[j].status # "absent" => row'[j].status # "absent"
        BY <1>1, <2>1 DEF RowsInv, Held
      <3>2. \A j \in Journey : row'[j].status # "absent" => enrol'[j] = "over"
        BY <1>1, <2>1 DEF RowsInv, Held
      <3>3. ASSUME NEW v \in Scheduler, NEW j \in Journey, Held(v, j)'
            PROVE  row'[j].status # "absent" /\ mem'[v][j].status # "absent"
        <4>1. CASE v = w
          BY <2>1, <3>1, <3>3, <4>1
        <4>2. CASE v # w
          <5>1. Held(v, j) /\ mem'[v] = mem[v]
            BY <2>1, <3>3, <4>2 DEF Others, Held, Executing
          <5> QED
            BY <3>1, <5>1 DEF RowsInv
        <4> QED
          BY <4>1, <4>2
      <3> QED
        BY <3>2, <3>3 DEF RowsInv
    <2> USE DEF Held, Executing
    <2>2. TypeOK
      BY DEF IInv
    <2>3. ASSUME NEW S \in SUBSET Journey, GetScheduled(w, S) PROVE RowsInv'
      BY <2>1, <2>2, <2>3, GetScheduledEffect
    <2>4. ASSUME NEW j \in Journey, Begin(w, j) PROVE RowsInv'
      BY <2>1, <2>2, <2>4, BeginEffect DEF RowsInv, Left, Copied
    <2>5. CASE ExecuteNode(w)
      BY <2>1, <2>5, ExecuteNodeEffect DEF RowsInv, Stays, Copied
    <2>6. CASE Persist(w)
      BY <2>1, <2>6, PersistEffect DEF RowsInv, Stays, Left
    <2>7. CASE EndEvent(w)
      BY <2>1, <2>7, EndEventEffect DEF RowsInv, Left
    <2>8. CASE HandleError(w)
      BY <2>1, <2>8, HandleErrorEffect DEF RowsInv, Stays
    <2>9. CASE Save(w)
      BY <2>1, <2>9, SaveEffect DEF RowsInv, Left
    <2>10. CASE WriteFails(w) \/ Crash(w)
      BY <2>1, <2>10, FaultEffect DEF RowsInv, Left, Stays
    <2> QED
      BY <1>5, <2>3, <2>4, <2>5, <2>6, <2>7, <2>8, <2>9, <2>10 DEF SchedulerStep
  <1>6. CASE UNCHANGED vars
    BY <1>2, <1>6 DEF vars, enrolVars, RowsInv
  <1> QED
    BY <1>3, <1>4, <1>5, <1>6 DEF Next

\* The commands of a sole user keep the trigger to live automations: each
\* drops it before it touches the status, and none acts on an old copy.
LEMMA TriggerInvStep ==
  ASSUME SoleUser, IInv, TriggerInv, [Next]_vars
  PROVE  TriggerInv'
  <1>1. /\ upc \in [User -> UPC] /\ ucopy \in [User -> [status : AStatus, nodes : SUBSET Node]]
        /\ enrol \in [Journey -> {"none", "checked", "over"}] /\ faults \in Nat
        /\ trigger \in BOOLEAN /\ deleted \in BOOLEAN
    BY DEF IInv, TypeOK
  <1>2. CASE EnrolStep
    <2>1. UNCHANGED <<astatus, deleted, trigger, upc, ucopy, faults>>
      BY <1>2 DEF EnrolStep, EnrolCheck, EnrolCommit, automationVars, userVars
    <2>2. \A j \in Journey : enrol'[j] = "checked" => trigger
      BY <1>1, <1>2 DEF EnrolStep, EnrolCheck, EnrolCommit, TriggerInv
    <2> QED
      BY <2>1, <2>2 DEF TriggerInv, CommandInvariant
  <1>3. CASE UNCHANGED <<astatus, deleted, trigger, upc, ucopy, enrol>> /\ faults' \in {faults, faults + 1}
    <2>1. faults > 0 => faults' > 0
      BY <1>1, <1>3
    <2> QED
      BY <1>3, <2>1 DEF TriggerInv, CommandInvariant
  <1>4. ASSUME NEW u \in User, UserStep(u) PROVE TriggerInv'
    <2>1. \A v \in User : v = u
      BY DEF SoleUser
    <2>2. enrol' = enrol
      BY <1>4, ExitRowsFrame DEF UserStep, Proceed, OpenEditor, Update, Activate, SetLive,
         CreateAutomationTrigger, Rollback, Pause, PauseDrop, SetPaused, Delete, SoftDelete,
         CommandFails, CommandDies, enrolVars
    <2>3. SUFFICES /\ trigger' => astatus' = "live" /\ (deleted' => faults' > 0)
                   /\ \A j \in Journey : enrol[j] = "checked" => trigger'
                   /\ CommandInvariant(u)'
      BY <2>1, <2>2 DEF TriggerInv
    <2>4. /\ trigger => astatus = "live" /\ (deleted => faults > 0)
          /\ \A j \in Journey : enrol[j] = "checked" => trigger
          /\ CommandInvariant(u)
      BY DEF TriggerInv
    <2>5. CASE OpenEditor(u) \/ Activate(u) \/ Pause(u)
      <3>1. /\ UNCHANGED <<astatus, deleted, trigger, faults>>
            /\ ucopy'[u].status = astatus
            /\ \/ upc'[u] = "editing"
               \/ upc'[u] = "setLive" /\ ~deleted /\ astatus # "live"
               \/ upc'[u] = "drop"
        BY <1>1, <2>5 DEF OpenEditor, Activate, Pause, Read, Goto, automationVars
      <3> QED
        BY <2>4, <3>1 DEF CommandInvariant
    <2>6. CASE (\E N \in Drafts : Update(u, N)) \/ SetLive(u) \/ Rollback(u) \/ SetPaused(u)
      <3>1. /\ UNCHANGED <<deleted, trigger, faults, ucopy>>
            /\ \/ upc[u] = "editing" /\ upc'[u] = "idle" /\ astatus' = ucopy[u].status
               \/ upc[u] = "setLive" /\ upc'[u] = "create" /\ astatus' = "live"
               \/ upc[u] \in {"rollback", "setPaused"} /\ upc'[u] = "idle"
        BY <1>1, <2>6 DEF Update, SetLive, Rollback, SetPaused, UpdateTx, Goto
      <3> QED
        BY <2>4, <3>1 DEF CommandInvariant
    <2>7. CASE CreateAutomationTrigger(u)
      <3>1. /\ UNCHANGED <<astatus, deleted, faults>> /\ trigger' = TRUE
            /\ upc[u] = "create" /\ upc'[u] = "idle"
        BY <1>1, <2>7 DEF CreateAutomationTrigger, Goto
      <3> QED
        BY <2>4, <3>1 DEF CommandInvariant
    <2>8. CASE PauseDrop(u) \/ Delete(u)
      <3>1. /\ UNCHANGED <<astatus, deleted, faults>> /\ trigger' = FALSE
            /\ \A j \in Journey : enrol[j] # "checked"
            /\ upc'[u] \in {"setPaused", "exitRows"}
        BY <1>1, <2>8 DEF PauseDrop, Delete, DropAutomationTrigger, Goto
      <3> QED
        BY <2>4, <3>1 DEF CommandInvariant
    <2>9. CASE ExitRows(u) \/ SoftDelete(u)
      <3>1. /\ UNCHANGED <<astatus, trigger, faults>>
            /\ \/ upc[u] = "exitRows" /\ upc'[u] = "softDelete" /\ deleted' = deleted
               \/ upc[u] = "softDelete" /\ upc'[u] = "idle"
        BY <1>1, <2>9, ExitRowsFrame DEF SoftDelete, Goto
      <3> QED
        BY <2>4, <3>1 DEF CommandInvariant
    <2>10. CASE CommandFails(u) \/ CommandDies(u)
      <3>1. /\ UNCHANGED <<astatus, deleted>> /\ faults' = faults + 1
            /\ \/ upc'[u] = "idle" /\ trigger' = trigger
               \/ upc[u] = "create" /\ upc'[u] = "rollback" /\ trigger' \in {trigger, FALSE}
               \/ upc'[u] = "exitRows" /\ trigger' = trigger
        BY <1>1, <2>10 DEF CommandFails, CommandDies, Goto, automationVars
      <3>2. faults' > 0
        BY <1>1, <3>1
      <3>3. upc[u] = "create" => ~trigger
        BY <2>4 DEF CommandInvariant
      <3>4. upc[u] = "create" => \A j \in Journey : enrol[j] # "checked"
        BY <2>4, <3>3
      <3>5. CASE upc'[u] = "idle" /\ trigger' = trigger
        BY <2>4, <3>1, <3>2, <3>5 DEF CommandInvariant
      <3>6. CASE upc[u] = "create" /\ upc'[u] = "rollback" /\ trigger' \in {trigger, FALSE}
        <4>1. ~trigger'
          BY <3>3, <3>6, Zenon
        <4> QED
          BY <3>4, <3>6, <4>1 DEF CommandInvariant
      <3>7. CASE upc'[u] = "exitRows" /\ trigger' = trigger
        BY <2>4, <3>1, <3>2, <3>7 DEF CommandInvariant
      <3> QED
        BY <3>1, <3>5, <3>6, <3>7
    <2> QED
      BY <1>4, <2>5, <2>6, <2>7, <2>8, <2>9, <2>10 DEF UserStep, Proceed
  <1>5. ASSUME NEW w \in Scheduler, SchedulerStep(w) \/ WriteFails(w) \/ Crash(w)
        PROVE  UNCHANGED <<astatus, deleted, trigger, upc, ucopy, enrol>> /\ faults' \in {faults, faults + 1}
    BY <1>5, ExecuteNodeFrame DEF SchedulerStep, GetScheduled, Begin, Persist, EndEvent, HandleError, Save,
       WriteFails, Crash, automationVars, enrolVars, userVars
  <1>6. ASSUME NEW j \in Journey, ComesDue(j)
        PROVE  UNCHANGED <<astatus, deleted, trigger, upc, ucopy, enrol, faults>>
    BY <1>6 DEF ComesDue, automationVars, enrolVars, userVars
  <1>7. CASE UNCHANGED vars
    BY <1>3, <1>7 DEF vars, automationVars, enrolVars, userVars
  <1> QED
    BY <1>2, <1>3, <1>4, <1>5, <1>6, <1>7 DEF Next, Command

\* With one user at a time a contact is enrolled only into a live automation,
\* however enrolments, schedulers, crashes and failing commands interleave.
THEOREM EnrolmentNeedsLive ==
  ASSUME SoleUser
  PROVE  Spec => EnrolsWhileLive
  <1>1. JInit => RowsInv /\ TriggerInv
    BY DEF JInit, Init, RowsInv, TriggerInv, Held, Executing, NoRow, CommandInvariant
  <1>2. IInv /\ RowsInv /\ [Next]_vars => RowsInv'
    BY RowsInvStep
  <1>3. IInv /\ TriggerInv /\ [Next]_vars => TriggerInv'
    BY TriggerInvStep
  <1>4. IInv /\ RowsInv /\ TriggerInv /\ [Next]_vars
          => [\A j \in Journey :
                row[j].status = "absent" /\ row'[j].status = "active"
                  => astatus = "live" /\ (deleted => faults > 0)]_vars
    <2> SUFFICES ASSUME IInv, RowsInv, TriggerInv, Next, NEW j \in Journey,
                        row[j].status = "absent", row'[j].status = "active"
                 PROVE  astatus = "live" /\ (deleted => faults > 0)
      OBVIOUS
    <2>1. CASE Command
      <3>1. enrol[j] = "checked"
        BY <2>1, CommandEffect
      <3> QED
        BY <3>1 DEF TriggerInv
    <2>2. ASSUME NEW i \in Journey, ComesDue(i) PROVE FALSE
      BY <2>2, ComesDueEffect
    <2>3. ASSUME NEW w \in Scheduler, SchedulerStep(w) \/ WriteFails(w) \/ Crash(w) PROVE FALSE
      <3>1. row' # row
        OBVIOUS
      <3>2. Persist(w) \/ Save(w)
        BY <2>3, <3>1, ExecuteNodeFrame DEF SchedulerStep, GetScheduled, Begin, EndEvent, HandleError,
           WriteFails, Crash
      <3>3. Executing(w) /\ cur[w] \in Journey /\ row' = [row EXCEPT ![cur[w]] = mem[w][cur[w]]]
        BY <3>2, PersistEffect, SaveEffect DEF Executing
      <3>4. row[cur[w]].status # "absent"
        BY <3>3 DEF RowsInv, Held
      <3>5. row'[j] = row[j]
        BY <3>3, <3>4 DEF IInv, TypeOK
      <3> QED
        BY <3>5
    <2> QED
      BY <2>1, <2>2, <2>3 DEF Next
  <1> QED
    BY <1>1, <1>2, <1>3, <1>4, Invariance, PTL DEF Spec, EnrolsWhileLive

-----------------------------------------------------------------------------
(* automation.end events.                                                  *)

\* One app instance.
SoleScheduler == \A v, w \in Scheduler : v = w

\* Nobody is at work on the row in the given steps of Execute.
NobodyIn(j, S) == \A w \in Scheduler : ~(pc[w] \in S /\ cur[w] = j)

\* A journey that may still end has no event to spare.
OpenInv ==
  \A j \in Journey :
    row[j].status \in {"absent", "active"} /\ NobodyIn(j, {"save"}) => ends[j] <= faults

\* The events of the rows that scheduler w holds: none to spare until the one
\* that ends the journey, which "save" has written already and "end" is about
\* to.
EventsAt(w) ==
  /\ ~Executing(w) => cur[w] = NoJourney
  /\ \A j \in todo[w] : ends[j] <= faults /\ mem[w][j].status = "active"
  /\ pc[w] \in {"node", "persist", "end", "error"} => ends[cur[w]] <= faults
  /\ pc[w] = "node" => mem[w][cur[w]].status = "active"
  /\ pc[w] = "error" => mem[w][cur[w]].status = "active" \/ faults > 0
  /\ pc[w] = "save" =>
       /\ mem[w][cur[w]].status = "active" => ends[cur[w]] <= faults
       /\ faults = 0 /\ mem[w][cur[w]].status \in {"completed", "failed"} => ends[cur[w]] = 1
  /\ pc[w] = "end" => row[cur[w]].status \notin {"absent", "active"}

EventsInv == OneEndEvent /\ OpenInv /\ \A w \in Scheduler : EventsAt(w)

\* The same of one journey beside the only scheduler.
EventsOf(w, j) ==
  /\ ends[j] <= 1 + faults
  /\ faults = 0 /\ row[j].status \in {"completed", "failed"} /\ cur[w] # j => ends[j] = 1
  /\ row[j].status \in {"absent", "active"} /\ ~(pc[w] = "save" /\ cur[w] = j) => ends[j] <= faults

\* With one scheduler, the count is a matter of each journey and of it.
LEMMA SoleEvents ==
  ASSUME SoleScheduler, NEW w \in Scheduler
  PROVE  /\ EventsInv <=> EventsAt(w) /\ \A j \in Journey : EventsOf(w, j)
         /\ EventsInv' <=> EventsAt(w)' /\ \A j \in Journey : EventsOf(w, j)'
  <1>1. \A v \in Scheduler : v = w
    BY DEF SoleScheduler
  <1>2. OneEndEvent /\ OpenInv <=> \A j \in Journey : EventsOf(w, j)
    BY <1>1 DEF OneEndEvent, OpenInv, EventsOf, NobodyIn
  <1>3. OneEndEvent' /\ OpenInv' <=> \A j \in Journey : EventsOf(w, j)'
    BY <1>1 DEF OneEndEvent, OpenInv, EventsOf, NobodyIn
  <1> QED
    BY <1>1, <1>2, <1>3 DEF EventsInv

\* Every step of the only scheduler keeps the count.
LEMMA EventsSchedulerStep ==
  ASSUME SoleScheduler, IInv, RowsInv, EventsInv,
         NEW w \in Scheduler, SchedulerStep(w) \/ WriteFails(w) \/ Crash(w)
  PROVE  EventsInv'
  <1>1. TypeOK /\ faults \in Nat /\ ends \in [Journey -> Nat] /\ row \in [Journey -> Row]
        /\ NoJourney \notin Journey
    BY JourneyAssumption DEF IInv, TypeOK
  <1>2. EventsAt(w) /\ \A j \in Journey : EventsOf(w, j)
    BY SoleEvents
  <1>3. \A j \in Journey : Held(w, j) => row[j].status # "absent" /\ mem[w][j].status # "absent"
    BY DEF RowsInv
  <1>4. SUFFICES EventsAt(w)' /\ \A j \in Journey : EventsOf(w, j)'
    BY SoleEvents
  <1>5. todo[w] \subseteq Journey
    BY <1>1 DEF TypeOK
  <1> USE DEF EventsAt, EventsOf, Executing, Held
  <1>6. ASSUME NEW S \in SUBSET Journey, GetScheduled(w, S)
        PROVE  EventsAt(w)' /\ \A j \in Journey : EventsOf(w, j)'
    BY <1>1, <1>2, <1>6, GetScheduledEffect
  <1>7. ASSUME NEW j \in Journey, Begin(w, j)
        PROVE  EventsAt(w)' /\ \A i \in Journey : EventsOf(w, i)'
    BY <1>1, <1>2, <1>3, <1>5, <1>7, BeginEffect DEF Left, Copied, Ended
  <1>8. CASE ExecuteNode(w)
    BY <1>1, <1>2, <1>3, <1>5, <1>8, ExecuteNodeEffect DEF Stays, Copied, Ended
  <1>9. CASE Persist(w)
    BY <1>1, <1>2, <1>3, <1>5, <1>9, PersistEffect DEF Stays, Left
  <1>10. CASE EndEvent(w)
    BY <1>1, <1>2, <1>3, <1>5, <1>10, EndEventEffect DEF Left, Ended
  <1>11. CASE HandleError(w)
    BY <1>1, <1>2, <1>3, <1>5, <1>11, HandleErrorEffect DEF Stays, Ended
  <1>12. CASE Save(w)
    BY <1>1, <1>2, <1>3, <1>5, <1>12, SaveEffect DEF Left
  <1>13. CASE WriteFails(w) \/ Crash(w)
    BY <1>1, <1>2, <1>3, <1>5, <1>13, FaultEffect DEF Left, Stays
  <1> QED
    BY <1>6, <1>7, <1>8, <1>9, <1>10, <1>11, <1>12, <1>13 DEF SchedulerStep

\* Commands, enrolments and time write no event and revive no journey.
LEMMA EventsStep ==
  ASSUME SoleScheduler, IInv, RowsInv, EventsInv, [Next]_vars
  PROVE  EventsInv'
  <1>1. faults \in Nat /\ ends \in [Journey -> Nat]
    BY DEF IInv, TypeOK
  <1>2. ASSUME UNCHANGED <<schedulerVars, outVars>>, faults' \in Nat, faults <= faults',
               \A j \in Journey :
                 \/ row'[j].status = row[j].status
                 \/ row[j].status = "absent" /\ row'[j].status = "active"
                 \/ row[j].status = "active" /\ row'[j].status = "exited"
        PROVE  EventsInv'
    <2>1. UNCHANGED <<pc, cur, todo, mem, ends>>
      BY <1>2 DEF schedulerVars, outVars
    <2>2. OneEndEvent'
      BY <1>1, <1>2, <2>1 DEF EventsInv, OneEndEvent
    <2>3. OpenInv'
      BY <1>1, <1>2, <2>1 DEF EventsInv, OpenInv, NobodyIn
    <2>4. ASSUME NEW w \in Scheduler PROVE EventsAt(w)'
      <3>1. EventsAt(w) /\ todo[w] \subseteq Journey /\ (Executing(w) => cur[w] \in Journey)
        BY DEF EventsInv, IInv, TypeOK, SchedulerInv
      <3>2. pc[w] = "end" => row'[cur[w]].status \notin {"absent", "active"}
        BY <1>2, <3>1 DEF EventsAt, Executing
      <3>3. \A j \in Journey : ends[j] <= faults => ends[j] <= faults'
        BY <1>1, <1>2
      <3> QED
        BY <1>1, <1>2, <2>1, <3>1, <3>2, <3>3 DEF EventsAt, Executing
    <2> QED
      BY <2>2, <2>3, <2>4 DEF EventsInv
  <1>3. CASE Command
    <2>1. ASSUME NEW j \in Journey
          PROVE  \/ row'[j].status = row[j].status
                 \/ row[j].status = "absent" /\ row'[j].status = "active"
                 \/ row[j].status = "active" /\ row'[j].status = "exited"
      BY <1>3, CommandEffect DEF RowsInv
    <2> QED
      BY <1>2, <1>3, <2>1, CommandEffect
  <1>4. ASSUME NEW i \in Journey, ComesDue(i) PROVE EventsInv'
    BY <1>1, <1>2, <1>4, ComesDueEffect
  <1>5. CASE UNCHANGED vars
    BY <1>1, <1>2, <1>5 DEF vars
  <1> QED
    BY <1>3, <1>4, <1>5, EventsSchedulerStep DEF Next

\* With one app instance a journey that is over has one automation.end event
\* while nothing fails, and never more than one and the faults, whatever the
\* automation's users do meanwhile.
THEOREM EndIsReportedOnce ==
  ASSUME SoleScheduler
  PROVE  Spec => []OneEndEvent
  <1>1. JInit => RowsInv /\ EventsInv
    BY DEF JInit, Init, RowsInv, EventsInv, OneEndEvent, OpenInv, EventsAt, Held, Executing, NoRow
  <1>2. IInv /\ RowsInv /\ [Next]_vars => RowsInv'
    BY RowsInvStep
  <1>3. IInv /\ RowsInv /\ EventsInv /\ [Next]_vars => EventsInv'
    BY EventsStep
  <1>4. EventsInv => OneEndEvent
    BY DEF EventsInv
  <1> QED
    BY <1>1, <1>2, <1>3, <1>4, Invariance, PTL DEF Spec

-----------------------------------------------------------------------------
(* Emails.                                                                 *)

\* The nodes can be ranked so that every step leads down: no loops.
Ranked(rank) ==
  /\ rank \in [Node -> Nat]
  /\ \A n \in Node : \A m \in Succ[n] \ {NoNode} : rank[m] < rank[n]

\* From node n on the journey has every repetition accounted for.
Ahead(rank, j, n) ==
  n # NoNode => \A m \in Node : rank[m] <= rank[n] => sent[j][m] <= faults

\* Nothing is sent before the enrolment, and what the row and its copy in
\* memory have before them has not been sent without a fault; only between a
\* node and its write is the row behind.
SendsInv(rank) ==
  /\ RepeatsNeedFaults
  /\ \A j \in Journey : row[j].status = "absent" => \A n \in Node : sent[j][n] = 0
  /\ \A j \in Journey : NobodyIn(j, {"persist"}) => Ahead(rank, j, row[j].node)
  /\ \A w \in Scheduler, j \in Journey : Held(w, j) => Ahead(rank, j, mem[w][j].node)

\* The same of one journey beside the only scheduler.
SendsOf(rank, w, j) ==
  /\ \A n \in Node : sent[j][n] <= 1 + faults
  /\ row[j].status = "absent" => \A n \in Node : sent[j][n] = 0
  /\ ~(pc[w] = "persist" /\ cur[w] = j) => Ahead(rank, j, row[j].node)
  /\ Held(w, j) => Ahead(rank, j, mem[w][j].node)

\* With one scheduler, the emails are a matter of each journey and of it.
LEMMA SoleSends ==
  ASSUME SoleScheduler, NEW w \in Scheduler, NEW rank
  PROVE  /\ SendsInv(rank) <=> \A j \in Journey : SendsOf(rank, w, j)
         /\ SendsInv(rank)' <=> \A j \in Journey : SendsOf(rank, w, j)'
  <1>1. \A v \in Scheduler : v = w
    BY DEF SoleScheduler
  <1>2. SendsInv(rank) <=> \A j \in Journey : SendsOf(rank, w, j)
    BY <1>1 DEF SendsInv, SendsOf, NobodyIn, RepeatsNeedFaults
  <1>3. SendsInv(rank)' <=> \A j \in Journey : SendsOf(rank, w, j)'
    BY <1>1 DEF SendsInv, SendsOf, NobodyIn, RepeatsNeedFaults
  <1> QED
    BY <1>2, <1>3

\* More faults excuse more.
LEMMA AheadStays ==
  ASSUME NEW rank, NEW j \in Journey, NEW n, faults \in Nat, faults' \in Nat, faults <= faults',
         sent \in [Journey -> [Node -> Nat]], \A m \in Node : sent'[j][m] = sent[j][m],
         Ahead(rank, j, n)
  PROVE  Ahead(rank, j, n)'
  <1>1. \A m \in Node : sent[j][m] \in Nat
    OBVIOUS
  <1> QED
    BY <1>1 DEF Ahead

\* Every step of the only scheduler accounts for what it sends.
LEMMA SendsSchedulerStep ==
  ASSUME SoleScheduler, IInv, RowsInv, NEW rank, Ranked(rank), SendsInv(rank),
         NEW w \in Scheduler, SchedulerStep(w) \/ WriteFails(w) \/ Crash(w)
  PROVE  SendsInv(rank)'
  <1>1. /\ TypeOK /\ faults \in Nat /\ sent \in [Journey -> [Node -> Nat]] /\ row \in [Journey -> Row]
        /\ NoJourney \notin Journey
    BY JourneyAssumption DEF IInv, TypeOK
  <1>2. \A j \in Journey : SendsOf(rank, w, j)
    BY SoleSends
  <1>3. \A j \in Journey : Held(w, j) => row[j].status # "absent" /\ mem[w][j].status # "absent"
    BY DEF RowsInv
  <1>4. SUFFICES ASSUME NEW j \in Journey PROVE SendsOf(rank, w, j)'
    BY SoleSends
  <1>5. todo[w] \subseteq Journey /\ mem[w] \in [Journey -> Row]
    BY <1>1 DEF TypeOK
  <1>6. SendsOf(rank, w, j) /\ \A m \in Node : sent[j][m] \in Nat
    BY <1>1, <1>2
  <1>7. ASSUME faults' = faults, \A m \in Node : sent'[j][m] = sent[j][m],
               row[j].status # "absent" \/ row'[j] = row[j],
               \/ pc[w] # "persist" \/ cur[w] # j
               \/ Ahead(rank, j, row'[j].node),
               row'[j] = row[j] \/ (Held(w, j) /\ row'[j] = mem[w][j]),
               Held(w, j)' => \/ Held(w, j) /\ mem'[w][j].node = mem[w][j].node
                              \/ mem'[w][j] = row[j] /\ pc[w] = "idle"
        PROVE  SendsOf(rank, w, j)'
    <2>1. \A n : Ahead(rank, j, n)' <=> Ahead(rank, j, n)
      BY <1>7 DEF Ahead
    <2>2. \A n \in Node : sent'[j][n] <= 1 + faults'
      BY <1>6, <1>7 DEF SendsOf
    <2>3. row'[j].status = "absent" => \A n \in Node : sent'[j][n] = 0
      BY <1>3, <1>6, <1>7 DEF SendsOf
    <2>4. Ahead(rank, j, row'[j].node)
      BY <1>6, <1>7 DEF SendsOf
    <2>5. Held(w, j)' => Ahead(rank, j, mem'[w][j].node)
      BY <1>6, <1>7 DEF SendsOf
    <2> QED
      BY <2>1, <2>2, <2>3, <2>4, <2>5 DEF SendsOf
  <1>8. ASSUME NEW S \in SUBSET Journey, GetScheduled(w, S) PROVE SendsOf(rank, w, j)'
    BY <1>1, <1>7, <1>8, GetScheduledEffect DEF Held, Executing
  <1>9. ASSUME NEW i \in Journey, Begin(w, i) PROVE SendsOf(rank, w, j)'
    BY <1>1, <1>7, <1>9, BeginEffect DEF Held, Executing, Left, Copied
  <1>10. CASE ExecuteNode(w)
    <2>1. PICK n : n = mem[w][j].node
      OBVIOUS
    <2>2. /\ Stays(w) /\ UNCHANGED <<row, faults>> /\ pc[w] = "node" /\ cur[w] \in Journey \ todo[w]
          /\ pc'[w] \in {"save", "error", "persist"}
      BY <1>10, ExecuteNodeEffect
    <2>3. CASE j # cur[w]
      <3>1. (\A m \in Node : sent'[j][m] = sent[j][m]) /\ mem'[w][j] = mem[w][j]
        BY <1>10, <2>3, ExecuteNodeEffect DEF Copied
      <3> QED
        BY <1>7, <2>2, <2>3, <3>1 DEF Held, Executing, Stays
    <2>4. CASE j = cur[w] /\ (\A m \in Node : sent'[j][m] = sent[j][m]) /\ mem'[w][j].node \in {n, NoNode}
      <3>1. \A k : Ahead(rank, j, k)' <=> Ahead(rank, j, k)
        BY <2>2, <2>4 DEF Ahead
      <3>2. Ahead(rank, j, n) /\ Ahead(rank, j, row[j].node)
        BY <1>6, <2>1, <2>2, <2>4 DEF SendsOf, Held, Executing
      <3>3. Ahead(rank, j, NoNode)
        BY DEF Ahead
      <3> QED
        BY <1>6, <2>2, <2>4, <3>1, <3>2, <3>3 DEF SendsOf
    <2>5. CASE /\ j = cur[w] /\ n \in Node /\ pc'[w] = "persist" /\ mem'[w][j].node \in Succ[n]
               /\ sent'[j][n] \in {sent[j][n], sent[j][n] + 1}
               /\ \A m \in Node \ {n} : sent'[j][m] = sent[j][m]
      <3>1. Ahead(rank, j, n) /\ n # NoNode /\ row[j].status # "absent"
        BY <1>3, <1>6, <2>1, <2>2, <2>5, AutomationAssumption DEF SendsOf, Held, Executing
      <3>2. \A m \in Node : rank[m] \in Nat
        BY DEF Ranked
      <3>3. \A m \in Node : rank[m] <= rank[n] => sent[j][m] <= faults
        BY <3>1 DEF Ahead
      <3>4. \A m \in Node : sent'[j][m] <= 1 + faults
        <4>1. sent[j][n] <= faults
          BY <2>5, <3>2, <3>3
        <4> QED
          BY <1>1, <1>6, <2>5, <4>1 DEF SendsOf
      <3>5. Ahead(rank, j, mem[w][j].node)'
        <4>1. PICK k : k = mem'[w][j].node
          OBVIOUS
        <4>2. ASSUME k # NoNode, NEW m \in Node, rank[m] <= rank[k]
              PROVE  sent'[j][m] <= faults'
          <5>1. k \in Node /\ rank[k] < rank[n]
            BY <2>5, <4>1, <4>2, JourneyAssumption DEF Ranked
          <5>2. m # n /\ rank[m] <= rank[n]
            BY <2>5, <3>2, <4>2, <5>1
          <5> QED
            BY <2>2, <2>5, <3>3, <5>2
        <4> QED
          BY <4>1, <4>2 DEF Ahead
      <3> QED
        BY <2>2, <2>5, <3>1, <3>4, <3>5 DEF SendsOf, Stays
    <2> QED
      <3>1. CASE j = cur[w]
        <4>1. \/ /\ sent' = sent /\ \E R \in Row : R.node \in {n, NoNode} /\ mem'[w][j] = R
              \/ sent' = sent /\ mem' = mem
              \/ /\ n \in Node /\ pc'[w] = "persist"
                 /\ \E R \in Row : R.node \in Succ[n] /\ mem'[w][j] = R
                 /\ sent'[j][n] \in {sent[j][n], sent[j][n] + 1}
                 /\ \A m \in Node \ {n} : sent'[j][m] = sent[j][m]
          BY <1>10, <2>1, <3>1, ExecuteNodeEffect DEF Copied
        <4> QED
          BY <2>1, <2>4, <2>5, <3>1, <4>1
      <3> QED
        BY <2>3, <3>1
  <1>11. CASE Persist(w)
    <2>1. /\ UNCHANGED <<sent, faults>> /\ pc[w] = "persist" /\ cur[w] \in Journey \ todo[w]
          /\ row' = [row EXCEPT ![cur[w]] = mem[w][cur[w]]]
      BY <1>11, PersistEffect
    <2>2. Held(w, cur[w]) /\ Ahead(rank, cur[w], mem[w][cur[w]].node)
      BY <1>2, <2>1 DEF Held, Executing, SendsOf
    <2>3. Held(w, j)' => Held(w, j) /\ mem'[w][j] = mem[w][j]
      BY <1>5, <1>11, <2>1, PersistEffect DEF Held, Executing, Left, Stays
    <2> QED
      BY <1>1, <1>3, <1>7, <2>1, <2>2, <2>3
  <1>12. CASE EndEvent(w)
    BY <1>1, <1>5, <1>7, <1>12, EndEventEffect DEF Held, Executing, Left
  <1>13. CASE HandleError(w)
    BY <1>1, <1>5, <1>7, <1>13, HandleErrorEffect DEF Held, Executing, Stays
  <1>14. CASE Save(w)
    <2>1. /\ UNCHANGED <<sent, faults>> /\ pc[w] = "save" /\ cur[w] \in Journey \ todo[w]
          /\ row' = [row EXCEPT ![cur[w]] = mem[w][cur[w]]] /\ Left(w, cur[w])
      BY <1>14, SaveEffect
    <2>2. Held(w, cur[w])
      BY <2>1 DEF Held, Executing
    <2>3. Held(w, j)' => Held(w, j) /\ mem'[w][j] = mem[w][j]
      BY <1>5, <2>1 DEF Held, Executing, Left
    <2> QED
      BY <1>1, <1>3, <1>7, <2>1, <2>2, <2>3
  <1>15. CASE WriteFails(w) \/ Crash(w)
    <2>1. UNCHANGED <<row, sent>> /\ faults' = faults + 1
      BY <1>15, FaultEffect
    <2>2. \A m \in Node : sent'[j][m] <= faults'
      BY <1>1, <1>6, <2>1 DEF SendsOf
    <2>3. \A n : Ahead(rank, j, n)'
      BY <2>2 DEF Ahead
    <2> QED
      BY <1>1, <1>6, <2>1, <2>2, <2>3 DEF SendsOf
  <1> QED
    BY <1>8, <1>9, <1>10, <1>11, <1>12, <1>13, <1>14, <1>15 DEF SchedulerStep

\* Commands, enrolments and time send nothing; an enrolment starts afresh.
LEMMA SendsStep ==
  ASSUME SoleScheduler, IInv, RowsInv, NEW rank, Ranked(rank), SendsInv(rank), [Next]_vars
  PROVE  SendsInv(rank)'
  <1>1. faults \in Nat /\ sent \in [Journey -> [Node -> Nat]]
    BY DEF IInv, TypeOK
  <1>2. ASSUME UNCHANGED <<schedulerVars, outVars>>, faults' \in Nat, faults <= faults',
               \A j \in Journey :
                 \/ /\ row[j].status = "absent" <=> row'[j].status = "absent"
                    /\ row'[j].node = row[j].node
                 \/ row[j].status = "absent" /\ row'[j].status # "absent"
        PROVE  SendsInv(rank)'
    <2>1. UNCHANGED <<pc, cur, todo, mem, sent>>
      BY <1>2 DEF schedulerVars, outVars
    <2>2. RepeatsNeedFaults'
      <3>1. ASSUME NEW j \in Journey, NEW n \in Node PROVE sent'[j][n] <= 1 + faults'
        <4>1. sent[j][n] <= 1 + faults /\ sent[j][n] \in Nat
          BY <1>1 DEF SendsInv, RepeatsNeedFaults
        <4> QED
          BY <1>1, <1>2, <2>1, <4>1
      <3> QED
        BY <3>1 DEF RepeatsNeedFaults
    <2>3. \A j \in Journey : row'[j].status = "absent" => \A n \in Node : sent'[j][n] = 0
      BY <1>2, <2>1 DEF SendsInv
    <2>4. ASSUME NEW j \in Journey, NEW n, Ahead(rank, j, n) PROVE Ahead(rank, j, n)'
      BY <1>1, <1>2, <2>1, <2>4, AheadStays
    <2>5. ASSUME NEW j \in Journey, NobodyIn(j, {"persist"})' PROVE Ahead(rank, j, row[j].node)'
      <3>1. CASE row'[j].node = row[j].node
        <4>1. NobodyIn(j, {"persist"})
          BY <2>1, <2>5 DEF NobodyIn
        <4>2. Ahead(rank, j, row[j].node)
          BY <4>1 DEF SendsInv
        <4>3. Ahead(rank, j, row'[j].node)
          BY <3>1, <4>2
        <4> QED
          BY <1>1, <1>2, <2>1, <4>3, AheadStays DEF Ahead
      <3>2. CASE row[j].status = "absent"
        <4>1. \A n \in Node : sent'[j][n] <= faults'
          BY <1>2, <2>1, <3>2 DEF SendsInv
        <4> QED
          BY <4>1 DEF Ahead
      <3> QED
        BY <1>2, <3>1, <3>2
    <2>6. ASSUME NEW w \in Scheduler, NEW j \in Journey, Held(w, j)' PROVE Ahead(rank, j, mem[w][j].node)'
      <3>1. Held(w, j)
        BY <2>1, <2>6 DEF Held, Executing
      <3>2. Ahead(rank, j, mem[w][j].node)
        BY <3>1 DEF SendsInv
      <3> QED
        BY <1>1, <1>2, <2>1, <3>2, AheadStays DEF Ahead
    <2> QED
      BY <2>2, <2>3, <2>5, <2>6 DEF SendsInv
  <1>3. CASE Command
    <2>1. ASSUME NEW j \in Journey
          PROVE  \/ /\ row[j].status = "absent" <=> row'[j].status = "absent"
                    /\ row'[j].node = row[j].node
                 \/ row[j].status = "absent" /\ row'[j].status # "absent"
      BY <1>3, CommandEffect DEF RowsInv
    <2> QED
      BY <1>2, <1>3, <2>1, CommandEffect
  <1>4. ASSUME NEW i \in Journey, ComesDue(i) PROVE SendsInv(rank)'
    BY <1>1, <1>2, <1>4, ComesDueEffect
  <1>5. CASE UNCHANGED vars
    BY <1>1, <1>2, <1>5 DEF vars
  <1> QED
    BY <1>3, <1>4, <1>5, SendsSchedulerStep DEF Next

\* With one app instance and no loop in the automation, a contact gets the
\* email of a node once and, beyond that, once per fault.
THEOREM RepeatsAreFaults ==
  ASSUME SoleScheduler, NEW rank, Ranked(rank)
  PROVE  Spec => []RepeatsNeedFaults
  <1>1. JInit => RowsInv /\ SendsInv(rank)
    BY DEF JInit, Init, RowsInv, SendsInv, RepeatsNeedFaults, Ahead, Held, Executing, NoRow
  <1>2. IInv /\ RowsInv /\ [Next]_vars => RowsInv'
    BY RowsInvStep
  <1>3. IInv /\ RowsInv /\ SendsInv(rank) /\ [Next]_vars => SendsInv(rank)'
    BY SendsStep
  <1>4. SendsInv(rank) => RepeatsNeedFaults
    BY DEF SendsInv
  <1> QED
    BY <1>1, <1>2, <1>3, <1>4, Invariance, PTL DEF Spec
===============================================================================
