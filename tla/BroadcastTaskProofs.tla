-------------------------- MODULE BroadcastTaskProofs --------------------------
(***************************************************************************)
(* Nobody in the audience is skipped, for every number of executors,       *)
(* concurrent calls, batches, retries and faults: IInv is an inductive     *)
(* invariant of BroadcastTask and implies AudienceCovered and CursorSound. *)
(* Where the handlers' writes succeed, a broadcast being sent has a task.  *)
(*                                                                         *)
(* A broadcast that is scheduled once and then left to itself (Alone) is   *)
(* executed by one goroutine at a time, enqueued once per fault, retried   *)
(* as often as promised and finished for good.  Alone is needed: the       *)
(* handlers of a second schedule call, of a pause, a resume or a           *)
(* cancellation make a task runnable again that an execution is at work    *)
(* on, and write back the copy of it they have read before.                *)
(***************************************************************************)
EXTENDS BroadcastTask, TLAPS

\* Each statement of TaskRepository yields a row of the table whose state is
\* the one before or the one that was handed in.
LEMMA TaskStatements ==
  ASSUME NEW t \in Task, NEW n \in Int, NEW next \in {"null", "wait", "due"}
  PROVE  /\ Create(next) \in Task /\ Create(next).cursor = Fresh
         /\ MarkAsRunning(t) \in Task /\ MarkAsRunning(t).cursor = t.cursor
         /\ SaveState(t, n) \in Task /\ SaveState(t, n).cursor \in {t.cursor, n}
         /\ MarkAsCompleted(t, n) \in Task /\ MarkAsCompleted(t, n).cursor \in {t.cursor, n}
         /\ MarkAsFailed(t) \in Task /\ MarkAsFailed(t).cursor = t.cursor
         /\ MarkAsPaused(t, n) \in Task /\ MarkAsPaused(t, n).cursor \in {t.cursor, n}
         /\ MarkAsPending(t, next, n) \in Task /\ MarkAsPending(t, next, n).cursor \in {t.cursor, n}
  <1> USE DEF Task, TaskStatus
  <1>1. Create(next) \in Task /\ Create(next).cursor = Fresh
    <2>1. NoTask \in Task /\ NoTask.cursor = Fresh  BY DEF NoTask, Fresh
    <2> QED  BY <2>1 DEF Create
  <1>2. MarkAsRunning(t) \in Task /\ MarkAsRunning(t).cursor = t.cursor
    BY DEF MarkAsRunning
  <1>3. SaveState(t, n) \in Task /\ SaveState(t, n).cursor \in {t.cursor, n}
    BY DEF SaveState
  <1>4. MarkAsCompleted(t, n) \in Task /\ MarkAsCompleted(t, n).cursor \in {t.cursor, n}
    BY DEF MarkAsCompleted, Update
  <1>5. MarkAsFailed(t) \in Task /\ MarkAsFailed(t).cursor = t.cursor
    <2>1. t.retries + 1 \in Nat  OBVIOUS
    <2>2. CASE t.retries < MaxRetries  BY <2>1, <2>2 DEF MarkAsFailed, Update
    <2>3. CASE ~(t.retries < MaxRetries)  BY <2>1, <2>3 DEF MarkAsFailed, Update
    <2> QED  BY <2>2, <2>3
  <1>6. MarkAsPaused(t, n) \in Task /\ MarkAsPaused(t, n).cursor \in {t.cursor, n}
    <2>1. t.retries + 1 \in Nat  OBVIOUS
    <2> QED  BY <2>1 DEF MarkAsPaused, Update
  <1>7. MarkAsPending(t, next, n) \in Task /\ MarkAsPending(t, next, n).cursor \in {t.cursor, n}
    BY DEF MarkAsPending, Update
  <1> QED  BY <1>1, <1>2, <1>3, <1>4, <1>5, <1>6, <1>7

\* Every event handler leaves a row whose state is the row's own, that of
\* the handler's copy, or fresh.
LEMMA HandlerStatement ==
  ASSUME NEW snap \in Task, NEW op \in Op, task \in Task
  PROVE  /\ Handler(op, snap) \in Task
         /\ Handler(op, snap).cursor \in {task.cursor, snap.cursor, Fresh}
  <1>1. snap.cursor \in Int  BY DEF Task
  <1>2. HandleScheduled(snap, TRUE) \in Task
        /\ HandleScheduled(snap, TRUE).cursor \in {task.cursor, snap.cursor, Fresh}
    <2>1. CASE Exists(snap)
      BY <2>1 DEF HandleScheduled, Update, Task, TaskStatus
    <2>2. CASE ~Exists(snap)
      BY <2>2, TaskStatements, <1>1 DEF HandleScheduled
    <2> QED  BY <2>1, <2>2
  <1>3. HandleScheduled(snap, FALSE) \in Task
        /\ HandleScheduled(snap, FALSE).cursor \in {task.cursor, snap.cursor, Fresh}
    BY TaskStatements, <1>1 DEF HandleScheduled, Update, Task, TaskStatus
  <1>4. HandlePaused(snap) \in Task /\ HandlePaused(snap).cursor \in {task.cursor, snap.cursor}
    BY TaskStatements, <1>1 DEF HandlePaused
  <1>5. HandleResumed(snap) \in Task /\ HandleResumed(snap).cursor \in {task.cursor, snap.cursor}
    BY <1>1 DEF HandleResumed, Update, Task, TaskStatus
  <1>6. HandleCancelled(snap) \in Task /\ HandleCancelled(snap).cursor = task.cursor
    BY TaskStatements, <1>1 DEF HandleCancelled
  <1> QED
    BY <1>2, <1>3, <1>4, <1>5, <1>6 DEF Handler, Op

\* Handled is stable: enq never shrinks and dropped never loses a batch.
LEMMA HandledStable ==
  ASSUME TypeOK, TypeOK',
         \A b \in Batch : enq[b] <= enq'[b], dropped \subseteq dropped'
  PROVE  /\ \A b \in Batch : Handled(b) => Handled(b)'
         /\ \A n : StateSound(n) => StateSound(n)'
         /\ Covered => Covered'
  <1>1. \A b \in Batch : Handled(b) => Handled(b)'
    BY DEF TypeOK, Handled
  <1>2. \A n : StateSound(n) => StateSound(n)'
    BY <1>1 DEF StateSound
  <1> QED  BY <1>1, <1>2 DEF Covered

\* The initial state satisfies the invariant: no task, no copies, no rows.
LEMMA InitIInv == Init => IInv
  <1> SUFFICES ASSUME Init PROVE IInv  OBVIOUS
  <1> USE BroadcastAssumption
  <1>1. TypeOK
    BY DEF Init, TypeOK, Draft, NoTask, Task, TaskStatus, Broadcast, BroadcastStatus, ExecPC,
           ClientPC, Op, Fresh
  <1>2. StateSound(Fresh)
    BY DEF StateSound, Fresh, Batch
  <1>3. StateSound(task.cursor)  BY <1>2 DEF Init, NoTask
  <1>4. \A x \in Executor : ExecInv(x)  BY <1>2 DEF Init, ExecInv
  <1>5. \A c \in Client : ClientInv(c)  BY <1>2 DEF Init, ClientInv, NoTask, Draft
  <1> QED  BY <1>1, <1>3, <1>4, <1>5 DEF IInv, Init, Draft

-----------------------------------------------------------------------------
(* Service calls and event goroutines.                                     *)

ClientTypes ==
  /\ cpc \in [Client -> ClientPC]
  /\ cop \in [Client -> Op]
  /\ cbc \in [Client -> Broadcast]
  /\ csnap \in [Client -> Task]
  /\ chit \in [Client -> SUBSET QueueRow]

\* NoTask and Draft, the values of a client's locals between calls, carry no
\* cursor and no completion.
LEMMA Blank ==
  /\ NoTask \in Task /\ NoTask.cursor = Fresh
  /\ Draft \in Broadcast /\ ~Draft.done
  /\ StateSound(Fresh)
  <1>1. NoTask \in Task /\ NoTask.cursor = Fresh  BY DEF NoTask, Task, TaskStatus, Fresh
  <1>2. Draft \in Broadcast /\ ~Draft.done  BY DEF Draft, Broadcast, BroadcastStatus
  <1>3. StateSound(Fresh)  BY BroadcastAssumption DEF StateSound, Fresh, Batch
  <1> QED  BY <1>1, <1>2, <1>3

\* While the queue stands still a client's invariant depends on its own two
\* copies alone.
LEMMA ClientsKeep ==
  ASSUME IInv, NEW c \in Client, UNCHANGED <<enq, dropped>>, ClientTypes',
         \A d \in Client \ {c} : csnap'[d] = csnap[d] /\ cbc'[d] = cbc[d],
         StateSound(csnap'[c].cursor),
         cbc'[c].done => Covered
  PROVE  \A d \in Client : ClientInv(d)'
  <1>1. \A n : StateSound(n) => StateSound(n)'  BY DEF StateSound, Handled
  <1>2. Covered => Covered'  BY DEF Covered, Handled
  <1>3. ClientInv(c)'
    BY <1>2 DEF ClientInv, StateSound, Handled
  <1>4. ASSUME NEW d \in Client \ {c} PROVE ClientInv(d)'
    <2>1. ClientInv(d)  BY DEF IInv
    <2> QED  BY <1>1, <1>2, <2>1 DEF ClientInv, StateSound, Handled
  <1> QED  BY <1>3, <1>4

\* The end of a call keeps the client part of the invariant.
LEMMA CallEndsInv ==
  ASSUME IInv, NEW c \in Client, CallEnds(c), UNCHANGED <<enq, dropped>>
  PROVE  ClientTypes' /\ \A d \in Client : ClientInv(d)'
  <1>1. ClientTypes'
    BY Blank DEF CallEnds, IInv, TypeOK, ClientTypes, ClientPC, Op
  <1>2. /\ csnap'[c] = NoTask /\ cbc'[c] = Draft
        /\ \A d \in Client \ {c} : csnap'[d] = csnap[d] /\ cbc'[d] = cbc[d]
    BY DEF CallEnds, IInv, TypeOK
  <1> QED  BY <1>1, <1>2, Blank, ClientsKeep

\* A step of a client leaves the queue cursors and the executions alone: what
\* is left to show is about the task row, the broadcast and its own copies.
LEMMA ClientStep ==
  ASSUME IInv, UNCHANGED <<enq, dropped, execVars>>,
         ClientTypes', bc' \in Broadcast, task' \in Task, cmds' \in Nat, faults' \in Nat,
         live' \subseteq QueueRow, paused' \subseteq QueueRow,
         StateSound(task'.cursor),
         \A d \in Client : ClientInv(d)',
         bc'.done => Covered,
         bc'.status = "processed" => bc'.done
  PROVE  IInv'
  <1>1. TypeOK'  BY DEF IInv, TypeOK, ClientTypes, execVars
  <1>2. StateSound(task.cursor)'  BY DEF StateSound, Handled
  <1>3. (bc.done => Covered)'  BY DEF Covered, Handled
  <1>4. ASSUME NEW x \in Executor PROVE ExecInv(x)'
    <2>1. ExecInv(x)  BY DEF IInv
    <2> QED  BY <2>1 DEF ExecInv, StateSound, Handled, execVars
  <1> QED  BY <1>1, <1>2, <1>3, <1>4 DEF IInv

\* Check takes a copy of the broadcast, which claims no more than the row.
LEMMA CheckInv ==
  ASSUME IInv, NEW c \in Client, NEW op \in Op, Check(c, op)
  PROVE  IInv'
  <1> USE DEF Check
  <1>1. ClientTypes'
    BY DEF IInv, TypeOK, ClientTypes, ClientPC
  <1>2. cbc'[c] = bc /\ csnap' = csnap /\ \A d \in Client \ {c} : cbc'[d] = cbc[d]
    BY DEF IInv, TypeOK
  <1>3. StateSound(csnap'[c].cursor) /\ (cbc'[c].done => Covered)
    BY <1>2 DEF IInv, ClientInv
  <1>4. \A d \in Client : ClientInv(d)'
    BY <1>1, <1>2, <1>3, ClientsKeep
  <1>5. cmds' \in Nat /\ bc' \in Broadcast /\ task' \in Task /\ faults' \in Nat
        /\ live' \subseteq QueueRow /\ paused' \subseteq QueueRow
    BY DEF IInv, TypeOK, rowVars
  <1> QED  BY <1>1, <1>4, <1>5, ClientStep DEF IInv

\* Lock and ReadEvent take a copy of the task, no further than the row.
LEMMA SnapshotInv ==
  ASSUME IInv, NEW c \in Client, Lock(c) \/ ReadEvent(c)
  PROVE  IInv'
  <1>1. UNCHANGED <<bc, task, rowVars, enq, dropped, execVars, cmds, faults>>
    BY DEF Lock, ReadEvent
  <1>2. ClientTypes' /\ \A d \in Client : ClientInv(d)'
    <2>1. CASE CallEnds(c)  BY <1>1, <2>1, CallEndsInv
    <2>2. CASE ~CallEnds(c)
      <3>1. /\ csnap' = [csnap EXCEPT ![c] = task] /\ cbc' = cbc /\ cop' = cop
            /\ \E w \in ClientPC : cpc' = [cpc EXCEPT ![c] = w]
            /\ \/ chit' = chit
               \/ chit' = [chit EXCEPT ![c] = Hit(cop[c])]
        BY <2>2 DEF Lock, ReadEvent, ClientPC
      <3>2. Hit(cop[c]) \subseteq QueueRow
        BY DEF Hit, IInv, TypeOK
      <3>3. ClientTypes'
        <4>1. chit' \in [Client -> SUBSET QueueRow]  BY <3>1, <3>2 DEF IInv, TypeOK
        <4> QED  BY <3>1, <4>1 DEF IInv, TypeOK, ClientTypes
      <3>4. csnap'[c] = task /\ \A d \in Client \ {c} : csnap'[d] = csnap[d]
        BY <3>1 DEF IInv, TypeOK
      <3>5. StateSound(csnap'[c].cursor) /\ (cbc'[c].done => Covered)
        BY <3>1, <3>4 DEF IInv, ClientInv
      <3> QED  BY <1>1, <3>1, <3>3, <3>4, <3>5, ClientsKeep
    <2> QED  BY <2>1, <2>2
  <1>3. cmds' \in Nat /\ bc' \in Broadcast /\ task' \in Task /\ faults' \in Nat
        /\ live' \subseteq QueueRow /\ paused' \subseteq QueueRow
    BY <1>1 DEF IInv, TypeOK, rowVars
  <1> QED  BY <1>1, <1>2, <1>3, ClientStep DEF IInv

\* A handler stores the row's own cursor, that of its copy or none: each is
\* behind the queue, however old the copy is.
LEMMA HandleInv ==
  ASSUME IInv, NEW c \in Client, Handle(c)
  PROVE  IInv'
  <1>1. UNCHANGED <<bc, rowVars, enq, dropped, execVars, cmds>>
    BY DEF Handle
  <1>2. cop[c] \in Op /\ csnap[c] \in Task /\ task \in Task
    BY DEF IInv, TypeOK
  <1>3. task' \in Task /\ task'.cursor \in {task.cursor, csnap[c].cursor, Fresh}
    BY <1>2, HandlerStatement DEF Handle
  <1>4. StateSound(task'.cursor)
    BY <1>3, Blank DEF IInv, ClientInv
  <1>5. ClientTypes' /\ \A d \in Client : ClientInv(d)'
    <2>1. CASE cpc[c] = "locked"
      <3>1. cpc' = [cpc EXCEPT ![c] = "handled"] /\ UNCHANGED <<cop, cbc, csnap, chit>>
        BY <2>1 DEF Handle
      <3>2. ClientTypes'  BY <3>1 DEF IInv, TypeOK, ClientTypes, ClientPC
      <3> QED  BY <1>1, <3>1, <3>2, ClientsKeep DEF IInv, ClientInv
    <2>2. CASE cpc[c] # "locked"
      BY <1>1, <2>2, CallEndsInv DEF Handle
    <2> QED  BY <2>1, <2>2
  <1>6. cmds' \in Nat /\ bc' \in Broadcast
        /\ live' \subseteq QueueRow /\ paused' \subseteq QueueRow
    BY <1>1 DEF IInv, TypeOK, rowVars
  <1>7. faults' \in Nat  BY DEF Handle, Fault, IInv, TypeOK
  <1> QED  BY <1>1, <1>3, <1>4, <1>5, <1>6, <1>7, ClientStep DEF IInv

\* Commit writes processed only from a copy that is complete.
LEMMA CommitInv ==
  ASSUME IInv, NEW c \in Client, Commit(c)
  PROVE  IInv'
  <1>1. UNCHANGED <<task, enq, dropped, execVars, cmds, faults>> /\ CallEnds(c)
    BY DEF Commit
  <1>2. cop[c] \in Op /\ cbc[c] \in Broadcast /\ chit[c] \subseteq QueueRow
        /\ live \subseteq QueueRow /\ paused \subseteq QueueRow
    BY DEF IInv, TypeOK
  <1>3. /\ bc' = [status |-> Target(cop[c], cbc[c]), done |-> cbc[c].done]
        /\ Target(cop[c], cbc[c]) \in BroadcastStatus
        /\ Target(cop[c], cbc[c]) = "processed" => cbc[c].done
    BY <1>2 DEF Commit, Target, Op, BroadcastStatus
  <1>4. bc' \in Broadcast  BY <1>2, <1>3 DEF Broadcast
  <1>5. (bc'.done => Covered) /\ (bc'.status = "processed" => bc'.done)
    BY <1>3 DEF IInv, ClientInv
  <1>6. live' \subseteq QueueRow /\ paused' \subseteq QueueRow
    BY <1>2 DEF Commit, Op, rowVars
  <1>7. ClientTypes' /\ \A d \in Client : ClientInv(d)'
    BY <1>1, CallEndsInv
  <1>8. cmds' \in Nat /\ task' \in Task /\ faults' \in Nat /\ StateSound(task'.cursor)
    BY <1>1 DEF IInv, TypeOK
  <1> QED  BY <1>1, <1>4, <1>5, <1>6, <1>7, <1>8, ClientStep

\* Rollback drops the call, or leaves its handler running with the copies it
\* has.
LEMMA RollbackInv ==
  ASSUME IInv, NEW c \in Client, Rollback(c)
  PROVE  IInv'
  <1>1. UNCHANGED <<bc, task, rowVars, enq, dropped, execVars, cmds>>
    BY DEF Rollback
  <1>2. ClientTypes' /\ \A d \in Client : ClientInv(d)'
    <2>1. CASE CallEnds(c)  BY <1>1, <2>1, CallEndsInv
    <2>2. CASE ~CallEnds(c)
      <3>1. /\ cpc' = [cpc EXCEPT ![c] = "eventRead"]
            /\ chit' = [chit EXCEPT ![c] = {}]
            /\ UNCHANGED <<cop, cbc, csnap>>
        BY <2>2 DEF Rollback
      <3>2. ClientTypes'  BY <3>1 DEF IInv, TypeOK, ClientTypes, ClientPC
      <3> QED  BY <1>1, <3>1, <3>2, ClientsKeep DEF IInv, ClientInv
    <2> QED  BY <2>1, <2>2
  <1>3. faults' \in Nat  BY DEF Rollback, Fault, IInv, TypeOK
  <1>4. cmds' \in Nat /\ bc' \in Broadcast /\ task' \in Task
        /\ live' \subseteq QueueRow /\ paused' \subseteq QueueRow
    BY <1>1 DEF IInv, TypeOK, rowVars
  <1> QED  BY <1>1, <1>2, <1>3, <1>4, ClientStep DEF IInv

-----------------------------------------------------------------------------
(* Executions.                                                             *)

ExecTypes ==
  /\ pc \in [Executor -> ExecPC]
  /\ pos \in [Executor -> Fresh .. Total]
  /\ out \in [Executor -> {"done", "more", "error"}]
  /\ last \in [Executor -> BOOLEAN]

\* A step of execution x that only adds to the queue's history: what is left
\* to show is about x, the task row and the broadcast.
LEMMA ExecutorStep ==
  ASSUME IInv, NEW x \in Executor, ExecTypes', ClientTypes',
         UNCHANGED <<cbc, csnap>>,
         \A y \in Executor \ {x} : pc'[y] = pc[y] /\ pos'[y] = pos[y],
         enq' \in [Batch -> Nat], \A b \in Batch : enq[b] <= enq'[b],
         dropped' \subseteq Batch, dropped \subseteq dropped',
         bc' \in Broadcast, task' \in Task, cmds' \in Nat, faults' \in Nat,
         live' \subseteq QueueRow, paused' \subseteq QueueRow,
         task'.cursor \in {task.cursor, pos[x], pos'[x]},
         ExecInv(x)',
         bc'.done => Covered \/ bc.done,
         bc'.status = "processed" => bc'.done
  PROVE  IInv'
  <1>1. TypeOK'  BY DEF IInv, TypeOK, ExecTypes, ClientTypes
  <1>2. /\ \A b \in Batch : Handled(b) => Handled(b)'
        /\ \A n : StateSound(n) => StateSound(n)'
        /\ Covered => Covered'
    BY <1>1, HandledStable DEF IInv
  <1>3. StateSound(task.cursor)'
    <2>1. CASE task'.cursor = task.cursor
      BY <1>2, <2>1 DEF IInv, StateSound
    <2>2. CASE task'.cursor = pos'[x]
      BY <2>2 DEF ExecInv, StateSound
    <2>3. CASE task'.cursor = pos[x]
      BY <1>2, <2>3 DEF IInv, ExecInv, StateSound
    <2> QED  BY <2>1, <2>2, <2>3
  <1>4. (bc.done => Covered)'  BY <1>2 DEF IInv
  <1>5. ASSUME NEW y \in Executor \ {x} PROVE ExecInv(y)'
    <2>1. ExecInv(y)  BY DEF IInv
    <2>2. pc'[y] = "sent" => pos[y] + 1 \in Batch
      BY <2>1, BroadcastAssumption DEF ExecInv, Batch, StateSound, Fresh
    <2>3. pc'[y] = "sent" => Handled(pos[y] + 1)'
      BY <1>2, <2>1, <2>2 DEF ExecInv
    <2>4. StateSound(pos[y])'
      BY <1>2, <2>1 DEF ExecInv, StateSound
    <2> QED  BY <2>1, <2>3, <2>4 DEF ExecInv, Handled, StateSound
  <1>6. ASSUME NEW d \in Client PROVE ClientInv(d)'
    <2>1. ClientInv(d)  BY DEF IInv
    <2> QED  BY <1>2, <2>1 DEF ClientInv, StateSound
  <1> QED  BY <1>1, <1>3, <1>4, <1>5, <1>6 DEF IInv

\* A step of execution x that touches its locals and the task row only.
LEMMA LocalStep ==
  ASSUME IInv, NEW x \in Executor, ExecTypes',
         UNCHANGED <<bc, rowVars, enq, dropped, clientVars, cmds>>, faults' \in Nat,
         \A y \in Executor \ {x} : pc'[y] = pc[y] /\ pos'[y] = pos[y],
         task' \in Task, task'.cursor \in {task.cursor, pos[x], pos'[x]},
         ExecInv(x)'
  PROVE  IInv'
  <1>1. ClientTypes'  BY DEF IInv, TypeOK, ClientTypes, clientVars
  <1>2. /\ UNCHANGED <<cbc, csnap, bc, enq, dropped, cmds>>
        /\ live' \subseteq QueueRow /\ paused' \subseteq QueueRow
        /\ bc' \in Broadcast /\ cmds' \in Nat
        /\ enq' \in [Batch -> Nat] /\ dropped' \subseteq Batch
    BY DEF IInv, TypeOK, clientVars, rowVars
  <1>3. \A b \in Batch : enq[b] <= enq'[b]  BY <1>2
  <1>4. bc'.status = "processed" => bc'.done  BY <1>2 DEF IInv
  <1> QED  BY <1>1, <1>2, <1>3, <1>4, ExecutorStep

\* The end of an execution forgets everything it knew.
LEMMA ExecutionEndsInv ==
  ASSUME IInv, NEW x \in Executor, ExecutionEnds(x), UNCHANGED <<enq, dropped>>
  PROVE  /\ ExecTypes' /\ ExecInv(x)'
         /\ \A y \in Executor \ {x} : pc'[y] = pc[y] /\ pos'[y] = pos[y]
  <1>1. ExecTypes'
    BY BroadcastAssumption DEF ExecutionEnds, ExecTypes, IInv, TypeOK, ExecPC, Fresh
  <1>2. /\ pc'[x] = "idle" /\ pos'[x] = Fresh
        /\ \A y \in Executor \ {x} : pc'[y] = pc[y] /\ pos'[y] = pos[y]
    BY DEF ExecutionEnds, IInv, TypeOK
  <1>3. ExecInv(x)'  BY <1>2, Blank DEF ExecInv, StateSound, Handled
  <1> QED  BY <1>1, <1>2, <1>3

\* Finish stores the execution's cursor or leaves the row's; a crash stores
\* nothing.
LEMMA EndsInv ==
  ASSUME IInv, NEW x \in Executor, Finish(x) \/ Crash(x)
  PROVE  IInv'
  <1>1. ExecutionEnds(x) /\ UNCHANGED <<bc, rowVars, enq, dropped, clientVars, cmds>>
    BY DEF Finish, Crash
  <1>2. /\ task \in Task /\ pos[x] \in Int /\ faults' \in Nat
        /\ out[x] \in {"done", "more", "error"}
    BY BroadcastAssumption DEF IInv, TypeOK, Finish, Crash, Fault, Fresh
  <1>3. task' \in Task /\ task'.cursor \in {task.cursor, pos[x]}
    <2>1. CASE Finish(x)
      <3>1. CASE out[x] = "done"  BY <1>2, <2>1, <3>1, TaskStatements DEF Finish
      <3>2. CASE out[x] = "more"  BY <1>2, <2>1, <3>2, TaskStatements DEF Finish
      <3>3. CASE out[x] = "error"  BY <1>2, <2>1, <3>3, TaskStatements DEF Finish
      <3> QED  BY <1>2, <3>1, <3>2, <3>3
    <2>2. CASE Crash(x)  BY <1>2, <2>2 DEF Crash
    <2> QED  BY <2>1, <2>2
  <1>4. /\ ExecTypes' /\ ExecInv(x)'
        /\ \A y \in Executor \ {x} : pc'[y] = pc[y] /\ pos'[y] = pos[y]
    BY <1>1, ExecutionEndsInv
  <1> QED  BY <1>1, <1>2, <1>3, <1>4, LocalStep

\* Claim starts from the cursor of the row.
LEMMA ClaimInv ==
  ASSUME IInv, NEW x \in Executor, Claim(x)
  PROVE  IInv'
  <1>1. UNCHANGED <<bc, rowVars, enq, dropped, clientVars, cmds, faults>>
    BY DEF Claim
  <1>2. task \in Task /\ faults' \in Nat /\ StateSound(task.cursor)
    BY <1>1 DEF IInv, TypeOK
  <1>3. CASE Runnable(task)
    <2>1. /\ task' = MarkAsRunning(task)
          /\ pos' = [pos EXCEPT ![x] = task.cursor]
          /\ last' = [last EXCEPT ![x] = task.retries >= MaxRetries - 1]
          /\ pc' = [pc EXCEPT ![x] = IF task.cursor = Fresh THEN "count" ELSE "loop"]
          /\ out' = out
      BY <1>3 DEF Claim, Goto
    <2>2. task.cursor \in Fresh .. Total  BY <1>2 DEF StateSound
    <2>3. ExecTypes'
      BY <2>1, <2>2 DEF ExecTypes, IInv, TypeOK, ExecPC
    <2>4. /\ pos'[x] = task.cursor
          /\ pc'[x] = IF task.cursor = Fresh THEN "count" ELSE "loop"
          /\ \A y \in Executor \ {x} : pc'[y] = pc[y] /\ pos'[y] = pos[y]
      BY <2>1 DEF IInv, TypeOK
    <2>5. task' \in Task /\ task'.cursor = task.cursor
      BY <1>2, <2>1, TaskStatements
    <2>6. ExecInv(x)'
      BY <1>1, <1>2, <2>2, <2>4, BroadcastAssumption DEF ExecInv, StateSound, Handled, Fresh
    <2> QED  BY <1>1, <1>2, <2>3, <2>4, <2>5, <2>6, LocalStep
  <1>4. CASE ~Runnable(task)
    <2>1. ExecutionEnds(x) /\ task' = task  BY <1>4 DEF Claim
    <2>2. /\ ExecTypes' /\ ExecInv(x)'
          /\ \A y \in Executor \ {x} : pc'[y] = pc[y] /\ pos'[y] = pos[y]
      BY <1>1, <2>1, ExecutionEndsInv
    <2> QED  BY <1>1, <1>2, <2>1, <2>2, LocalStep
  <1> QED  BY <1>3, <1>4

\* The steps of Process that only decide where to go next.
LEMMA DecisionInv ==
  ASSUME IInv, NEW x \in Executor,
         \/ Dispatch(x) \/ Refresh(x) \/ Yield(x) \/ FetchBatch(x)
         \/ OutOfTime(x) \/ AllDone(x) \/ ProcessFails(x)
  PROVE  IInv'
  <1>1. UNCHANGED <<bc, task, rowVars, enq, dropped, clientVars, cmds, pos, last>>
    BY DEF Dispatch, Refresh, Yield, FetchBatch, OutOfTime, AllDone, ProcessFails
  <1>2. task' \in Task /\ faults' \in Nat
    BY <1>1 DEF IInv, TypeOK, Dispatch, Refresh, Yield, FetchBatch, OutOfTime, AllDone, ProcessFails, Fault
  <1>3. \E w \in ExecPC : /\ pc' = [pc EXCEPT ![x] = w]
                          /\ w # "sent"
                          /\ w = "loop" => pc[x] = "fetched"
                          /\ w = "ready" => pc[x] = "loop"
                          /\ w = "fetched" => pc[x] = "ready" /\ pos[x] < Total
                          /\ w = "completing" => pos[x] = Total
    BY DEF Dispatch, Refresh, Yield, FetchBatch, OutOfTime, AllDone, ProcessFails, Failing, Return, Goto, ExecPC
  <1>4. out' = out \/ \E r \in {"done", "more", "error"} : out' = [out EXCEPT ![x] = r]
    BY DEF Dispatch, Refresh, Yield, FetchBatch, OutOfTime, AllDone, ProcessFails, Failing, Return
  <1>5. ExecTypes'  BY <1>1, <1>3, <1>4 DEF ExecTypes, IInv, TypeOK
  <1>6. \A y \in Executor \ {x} : pc'[y] = pc[y] /\ pos'[y] = pos[y]
    BY <1>1, <1>3 DEF IInv, TypeOK
  <1>7. ExecInv(x)'
    <2>1. ExecInv(x) /\ pc \in [Executor -> ExecPC]  BY DEF IInv, TypeOK
    <2> QED  BY <1>1, <1>3, <2>1 DEF ExecInv, StateSound, Handled
  <1> QED  BY <1>1, <1>2, <1>5, <1>6, <1>7, LocalStep

\* Count starts the cursor at 0, in front of every batch.
LEMMA CountInv ==
  ASSUME IInv, NEW x \in Executor, Count(x)
  PROVE  IInv'
  <1>1. UNCHANGED <<bc, task, rowVars, enq, dropped, clientVars, cmds, last, faults>>
    BY DEF Count
  <1>2. /\ pos' = [pos EXCEPT ![x] = 0] /\ pc' = [pc EXCEPT ![x] = "finish"]
        /\ out' = [out EXCEPT ![x] = "more"]
    BY DEF Count, Return, Goto
  <1>3. ExecTypes'
    BY <1>1, <1>2, BroadcastAssumption DEF ExecTypes, IInv, TypeOK, ExecPC, Fresh
  <1>4. /\ pos'[x] = 0 /\ pc'[x] = "finish"
        /\ \A y \in Executor \ {x} : pc'[y] = pc[y] /\ pos'[y] = pos[y]
    BY <1>2 DEF IInv, TypeOK
  <1>5. ExecInv(x)'
    BY <1>4, BroadcastAssumption DEF ExecInv, StateSound, Batch, Fresh
  <1>6. task' \in Task /\ faults' \in Nat  BY <1>1 DEF IInv, TypeOK
  <1> QED  BY <1>1, <1>3, <1>4, <1>5, <1>6, LocalStep

\* Advance moves past a batch that has been handled.
LEMMA AdvanceInv ==
  ASSUME IInv, NEW x \in Executor, Advance(x)
  PROVE  IInv'
  <1>1. UNCHANGED <<bc, rowVars, enq, dropped, clientVars, cmds, out, last>>
    BY DEF Advance
  <1>2. pos' = [pos EXCEPT ![x] = @ + 1] /\ pc' = [pc EXCEPT ![x] = "loop"]
    BY DEF Advance, Goto
  <1>3. ExecInv(x) /\ pc[x] = "sent" /\ task \in Task
    BY DEF IInv, TypeOK, Advance
  <1>4. pos[x] \in 0 .. Total - 1 /\ pos[x] + 1 \in Batch /\ pos[x] + 1 \in Fresh .. Total
    BY <1>3, BroadcastAssumption DEF ExecInv, StateSound, Fresh, Batch
  <1>5. ExecTypes'
    BY <1>1, <1>2, <1>4 DEF ExecTypes, IInv, TypeOK, ExecPC
  <1>6. /\ pos'[x] = pos[x] + 1 /\ pc'[x] = "loop"
        /\ \A y \in Executor \ {x} : pc'[y] = pc[y] /\ pos'[y] = pos[y]
    BY <1>2 DEF IInv, TypeOK
  <1>7. ExecInv(x)'
    <2>1. \A b \in Batch : b <= pos[x] + 1 => b <= pos[x] \/ b = pos[x] + 1
      BY <1>4 DEF Batch
    <2>2. \A b \in Batch : b <= pos[x] + 1 => Handled(b)
      BY <1>3, <2>1 DEF ExecInv, StateSound
    <2> QED  BY <1>1, <1>4, <1>6, <2>2 DEF ExecInv, StateSound, Handled
  <1>8. task' \in Task /\ task'.cursor \in {task.cursor, pos'[x]}
    BY <1>3, <1>4, <1>6, TaskStatements DEF Advance
  <1>9. faults' \in Nat  BY DEF Advance, Fault, IInv, TypeOK
  <1> QED  BY <1>1, <1>5, <1>6, <1>7, <1>8, <1>9, LocalStep

\* DeleteQueueEntries and PauseQueueEntries touch rows, not the history of
\* what was enqueued; a published event has empty copies.
LEMMA QueueEntriesInv ==
  ASSUME IInv, NEW x \in Executor, DeleteQueueEntries(x) \/ PauseQueueEntries(x)
  PROVE  IInv'
  <1>1. /\ UNCHANGED <<bc, task, enq, dropped, pos, out, last, cmds, cbc, csnap>>
        /\ pc' = [pc EXCEPT ![x] = "finish"]
    BY DEF DeleteQueueEntries, PauseQueueEntries, Goto, clientVars
  <1>2. live' \subseteq QueueRow /\ paused' \subseteq QueueRow
    BY DEF DeleteQueueEntries, PauseQueueEntries, rowVars, IInv, TypeOK
  <1>3. ClientTypes'
    BY DEF DeleteQueueEntries, PauseQueueEntries, clientVars, ClientTypes, IInv, TypeOK, ClientPC, Op
  <1>4. ExecTypes'  BY <1>1 DEF ExecTypes, IInv, TypeOK, ExecPC
  <1>5. pc'[x] = "finish" /\ \A y \in Executor \ {x} : pc'[y] = pc[y] /\ pos'[y] = pos[y]
    BY <1>1 DEF IInv, TypeOK
  <1>6. ExecInv(x)'  BY <1>1, <1>5 DEF IInv, ExecInv, StateSound, Handled
  <1>7. /\ bc' \in Broadcast /\ task' \in Task /\ cmds' \in Nat
        /\ enq' \in [Batch -> Nat] /\ dropped' \subseteq Batch
        /\ \A b \in Batch : enq[b] <= enq'[b]
        /\ bc'.status = "processed" => bc'.done
    BY <1>1 DEF IInv, TypeOK
  <1>8. faults' \in Nat
    BY DEF DeleteQueueEntries, PauseQueueEntries, Fault, IInv, TypeOK
  <1> QED  BY <1>1, <1>2, <1>3, <1>4, <1>5, <1>6, <1>7, <1>8, ExecutorStep

\* SendBatch and SendBatchFails handle the batch the cursor stands before.
LEMMA SendInv ==
  ASSUME IInv, NEW x \in Executor, SendBatch(x) \/ SendBatchFails(x)
  PROVE  IInv'
  <1>1. /\ UNCHANGED <<bc, task, paused, pos, out, last, clientVars, cmds>>
        /\ pc' = [pc EXCEPT ![x] = "sent"]
    BY DEF SendBatch, SendBatchFails, Goto, rowVars
  <1>2. ExecInv(x) /\ pc[x] = "fetched"
    BY DEF IInv, SendBatch, SendBatchFails
  <1>3. pos[x] \in 0 .. Total - 1 /\ pos[x] + 1 \in Batch
    BY <1>2, BroadcastAssumption DEF ExecInv, StateSound, Fresh, Batch
  <1>4. enq \in [Batch -> Nat] /\ dropped \subseteq Batch /\ live \subseteq QueueRow
    BY DEF IInv, TypeOK
  <1>5. /\ enq' \in [Batch -> Nat] /\ \A b \in Batch : enq[b] <= enq'[b]
        /\ dropped' \subseteq Batch /\ dropped \subseteq dropped'
        /\ enq'[pos[x] + 1] > 0 \/ pos[x] + 1 \in dropped'
    <2>1. CASE SendBatch(x)
      <3>1. enq' = [enq EXCEPT ![pos[x] + 1] = @ + 1] /\ dropped' = dropped
        BY <2>1 DEF SendBatch
      <3> QED  BY <1>3, <1>4, <3>1
    <2>2. CASE SendBatchFails(x)
      <3>1. dropped' = dropped \cup {pos[x] + 1} /\ enq' = enq
        BY <2>2 DEF SendBatchFails
      <3> QED  BY <1>3, <1>4, <3>1
    <2> QED  BY <2>1, <2>2
  <1>6. live' \subseteq QueueRow
    <2>1. <<pos[x] + 1, enq[pos[x] + 1] + 1>> \in QueueRow
      BY <1>3, <1>4 DEF QueueRow
    <2> QED  BY <1>4, <2>1 DEF SendBatch, SendBatchFails, rowVars
  <1>7. ExecTypes' /\ ClientTypes'
    BY <1>1 DEF ExecTypes, ClientTypes, clientVars, IInv, TypeOK, ExecPC
  <1>8. /\ pc'[x] = "sent" /\ pos'[x] = pos[x]
        /\ \A y \in Executor \ {x} : pc'[y] = pc[y] /\ pos'[y] = pos[y]
    BY <1>1 DEF IInv, TypeOK
  <1>9. ExecInv(x)'
    <2>1. \A b \in Batch : Handled(b) => Handled(b)'
      BY <1>4, <1>5 DEF Handled
    <2>2. StateSound(pos[x])'
      BY <1>2, <1>8, <2>1 DEF ExecInv, StateSound
    <2> QED  BY <1>2, <1>3, <1>5, <1>8, <2>2 DEF ExecInv, Handled
  <1>10. /\ bc' \in Broadcast /\ task' \in Task /\ cmds' \in Nat /\ faults' \in Nat
         /\ paused' \subseteq QueueRow
         /\ UNCHANGED <<cbc, csnap, bc, task>>
         /\ bc'.status = "processed" => bc'.done
    BY <1>1 DEF IInv, TypeOK, clientVars, SendBatch, SendBatchFails, Fault
  <1> QED  BY <1>5, <1>6, <1>7, <1>8, <1>9, <1>10, ExecutorStep

\* The steps that write the broadcast: processed only behind the last batch.
LEMMA BroadcastWriteInv ==
  ASSUME IInv, NEW x \in Executor, FeedFails(x) \/ Complete(x) \/ MarkBroadcastFailed(x)
  PROVE  IInv'
  <1>1. UNCHANGED <<task, rowVars, enq, dropped, pos, last, clientVars>>
    BY DEF FeedFails, Complete, MarkBroadcastFailed
  <1>2. \E w \in {"pausing", "finish", "failing"} : pc' = [pc EXCEPT ![x] = w]
    BY DEF FeedFails, Complete, MarkBroadcastFailed, Failing, Return, Goto
  <1>3. out' = out \/ \E r \in {"done", "more", "error"} : out' = [out EXCEPT ![x] = r]
    BY DEF FeedFails, Complete, MarkBroadcastFailed, Failing, Return
  <1>4. ExecTypes' /\ ClientTypes'
    BY <1>1, <1>2, <1>3 DEF ExecTypes, ClientTypes, clientVars, IInv, TypeOK, ExecPC
  <1>5. /\ pc'[x] \in {"pausing", "finish", "failing"} /\ pos'[x] = pos[x]
        /\ \A y \in Executor \ {x} : pc'[y] = pc[y] /\ pos'[y] = pos[y]
    BY <1>1, <1>2 DEF IInv, TypeOK
  <1>6. ExecInv(x)'  BY <1>1, <1>5 DEF IInv, ExecInv, StateSound, Handled
  <1>7. /\ bc' \in Broadcast
        /\ bc'.done => Covered \/ bc.done
        /\ bc'.status = "processed" => bc'.done
    <2>1. bc \in Broadcast /\ (bc.status = "processed" => bc.done)  BY DEF IInv, TypeOK
    <2>2. CASE FeedFails(x)
      BY <2>1, <2>2 DEF FeedFails, Broadcast, BroadcastStatus
    <2>3. CASE Complete(x)
      <3>1. Covered
        <4>1. pos[x] = Total /\ StateSound(pos[x])  BY <2>3 DEF Complete, IInv, ExecInv
        <4> QED  BY <4>1, BroadcastAssumption DEF StateSound, Covered, Batch
      <3>2. bc' = [status |-> "processed", done |-> TRUE] \/ bc' = bc
        BY <2>3 DEF Complete
      <3>3. [status |-> "processed", done |-> TRUE] \in Broadcast
        BY DEF Broadcast, BroadcastStatus
      <3>4. CASE bc' = bc  BY <2>1, <3>1, <3>4
      <3>5. CASE bc' = [status |-> "processed", done |-> TRUE]
        <4>1. bc'.status = "processed" /\ bc'.done = TRUE  BY <3>5
        <4> QED  BY <3>1, <3>3, <3>5, <4>1
      <3> QED  BY <3>2, <3>4, <3>5
    <2>4. CASE MarkBroadcastFailed(x)
      BY <2>1, <2>4 DEF MarkBroadcastFailed, Broadcast, BroadcastStatus
    <2> QED  BY <2>2, <2>3, <2>4
  <1>8. /\ task' \in Task /\ UNCHANGED <<cbc, csnap, task>>
        /\ live' \subseteq QueueRow /\ paused' \subseteq QueueRow
        /\ enq' \in [Batch -> Nat] /\ dropped' \subseteq Batch /\ dropped \subseteq dropped'
        /\ \A b \in Batch : enq[b] <= enq'[b]
    BY <1>1 DEF IInv, TypeOK, clientVars, rowVars
  <1>9. cmds' \in Nat /\ faults' \in Nat
    BY DEF FeedFails, Complete, MarkBroadcastFailed, Fault, IInv, TypeOK
  <1> QED  BY <1>4, <1>5, <1>6, <1>7, <1>8, <1>9, ExecutorStep

-----------------------------------------------------------------------------
(* The theorems.                                                           *)

\* Time moves no cursor.
LEMMA TimeInv ==
  ASSUME IInv, NextRunComes \/ TimeoutPasses
  PROVE  IInv'
  <1>1. UNCHANGED <<bc, rowVars, enq, dropped, execVars, clientVars, cmds, faults>>
    BY DEF NextRunComes, TimeoutPasses
  <1>2. task' \in Task /\ task'.cursor = task.cursor
    BY DEF NextRunComes, TimeoutPasses, IInv, TypeOK, Task
  <1>3. /\ ClientTypes' /\ bc' \in Broadcast /\ cmds' \in Nat /\ faults' \in Nat
        /\ live' \subseteq QueueRow /\ paused' \subseteq QueueRow
    BY <1>1 DEF IInv, TypeOK, ClientTypes, clientVars, rowVars
  <1>4. ASSUME NEW d \in Client PROVE ClientInv(d)'
    BY <1>1 DEF IInv, ClientInv, StateSound, Covered, Handled, clientVars
  <1>5. StateSound(task'.cursor) /\ (bc'.done => Covered) /\ (bc'.status = "processed" => bc'.done)
    BY <1>1, <1>2 DEF IInv
  <1> QED  BY <1>1, <1>2, <1>3, <1>4, <1>5, ClientStep

\* IInv is inductive: every step of calls, handlers, executions and time
\* keeps it.
LEMMA NextIInv == IInv /\ [Next]_vars => IInv'
  <1> SUFFICES ASSUME IInv, [Next]_vars PROVE IInv'  OBVIOUS
  <1>1. ASSUME NEW x \in Executor, Dispatch(x) \/ Progress(x) \/ Mishap(x) PROVE IInv'
    BY <1>1, ClaimInv, CountInv, DecisionInv, QueueEntriesInv, SendInv, AdvanceInv,
       BroadcastWriteInv, EndsInv DEF Progress, Mishap
  <1>2. ASSUME NEW c \in Client, (\E op \in Op : Check(c, op)) \/ CallStep(c) \/ Rollback(c)
        PROVE  IInv'
    BY <1>2, CheckInv, SnapshotInv, HandleInv, CommitInv, RollbackInv DEF CallStep
  <1>3. CASE NextRunComes \/ TimeoutPasses  BY <1>3, TimeInv
  <1>4. CASE UNCHANGED vars
    BY <1>4 DEF vars, rowVars, execVars, clientVars, IInv, TypeOK, StateSound, ExecInv, ClientInv,
                Covered, Handled
  <1> QED  BY <1>1, <1>2, <1>3, <1>4 DEF Next

\* No copy of the cursor is ever ahead of the queue.
THEOREM Invariance == Spec => []IInv
  BY InitIInv, NextIInv, PTL DEF Spec

\* Every variable keeps its type.
THEOREM TypeCorrect == Spec => []TypeOK
  <1>1. IInv => TypeOK  BY DEF IInv
  <1> QED  BY <1>1, Invariance, PTL

\* A broadcast reported processed has had its whole audience enqueued or
\* counted as failed, for any number of executions, calls, batches and faults.
THEOREM NobodyIsSkipped == Spec => []AudienceCovered
  <1>1. IInv => AudienceCovered  BY DEF IInv, AudienceCovered, Covered
  <1> QED  BY <1>1, Invariance, PTL

\* The cursor in the tasks row is never past a batch nobody handled, whichever
\* stale copy of it a handler or an execution wrote last.
THEOREM StoredCursorIsSound == Spec => []CursorSound
  <1>1. IInv => CursorSound  BY DEF IInv, StateSound, CursorSound
  <1> QED  BY <1>1, Invariance, PTL

-----------------------------------------------------------------------------
(* A broadcast that is being sent has a task.                              *)

\* What SendingHasTask rests on: whoever acts for a broadcast that left the
\* draft, a call past its handler, a pause, a resume, a cancellation or an
\* execution, acts behind the creation of the task.
TaskInv ==
  /\ bc.status # "draft" => Exists(task)
  /\ \A x \in Executor : Active(x) => Exists(task)
  /\ \A c \in Client :
       /\ Exists(csnap[c]) => Exists(task)
       /\ cpc[c] = "handled" => Exists(task)
       /\ cpc[c] \in {"checked", "locked"} /\ cop[c] \in {"pause", "resume", "cancel"}
            => Exists(task)


\* A handler takes no task away, and the handler of a schedule call leaves
\* one behind: its copy of the task is none, or one that is still there.
LEMMA HandlerKeeps ==
  ASSUME NEW snap \in Task, NEW op \in Op, task \in Task
  PROVE  /\ Exists(task) => Exists(Handler(op, snap))
         /\ op \in {"sendNow", "sendLater"} /\ (Exists(snap) => Exists(task))
              => Exists(Handler(op, snap))
  <1> USE DEF Exists, Update, Task
  <1>1. \A now \in BOOLEAN :
          Exists(task) \/ ~Exists(snap) => Exists(HandleScheduled(snap, now))
    BY DEF HandleScheduled, Create, NoTask
  <1>2. Exists(task) => Exists(HandlePaused(snap))
    BY DEF HandlePaused, MarkAsPaused
  <1>3. Exists(task) => Exists(HandleResumed(snap))
    BY DEF HandleResumed
  <1>4. Exists(task) => Exists(HandleCancelled(snap))
    BY DEF HandleCancelled, MarkAsFailed
  <1> QED  BY <1>1, <1>2, <1>3, <1>4 DEF Handler, Op

\* The statements of an execution take no task away.
LEMMA StatementsKeep ==
  ASSUME NEW t \in Task, NEW n \in Int, Exists(t)
  PROVE  /\ Exists(MarkAsRunning(t)) /\ Exists(SaveState(t, n))
         /\ Exists(MarkAsCompleted(t, n)) /\ Exists(MarkAsFailed(t))
         /\ Exists(MarkAsPending(t, "due", n))
  BY DEF Exists, MarkAsRunning, SaveState, MarkAsCompleted, MarkAsFailed, MarkAsPending, Update, Task

\* No step deletes the task.
LEMMA TaskStays ==
  ASSUME IInv, [Next]_vars, Exists(task)
  PROVE  Exists(task)'
  <1>1. /\ task \in Task
        /\ \A x \in Executor : pos[x] \in Int /\ pos[x] + 1 \in Int
        /\ \A x \in Executor : out[x] \in {"done", "more", "error"}
        /\ \A c \in Client : cop[c] \in Op /\ csnap[c] \in Task
    BY BroadcastAssumption DEF IInv, TypeOK, Fresh
  <1>2. CASE task' = task  BY <1>2
  <1>3. CASE NextRunComes \/ TimeoutPasses
    BY <1>1, <1>3 DEF NextRunComes, TimeoutPasses, Exists, Task
  <1>4. ASSUME NEW c \in Client, Handle(c) PROVE Exists(task)'
    BY <1>1, <1>4, HandlerKeeps DEF Handle
  <1>5. ASSUME NEW x \in Executor, Claim(x) \/ Advance(x) PROVE Exists(task)'
    BY <1>1, <1>5, StatementsKeep DEF Claim, Advance
  <1>6. ASSUME NEW x \in Executor, Finish(x) PROVE Exists(task)'
    BY <1>1, <1>6, StatementsKeep DEF Finish
  <1>7. ASSUME NEW x \in Executor, Dispatch(x) \/ Progress(x) \/ Mishap(x), task' # task
        PROVE  Claim(x) \/ Advance(x) \/ Finish(x)
    BY <1>7 DEF Dispatch, Progress, Mishap, Count, Refresh, DeleteQueueEntries, PauseQueueEntries,
                Yield, FetchBatch, SendBatch, OutOfTime, AllDone, Complete, MarkBroadcastFailed,
                SendBatchFails, FeedFails, ProcessFails, Crash
  <1>8. ASSUME NEW c \in Client, (\E op \in Op : Check(c, op)) \/ CallStep(c) \/ Rollback(c),
               task' # task
        PROVE  Handle(c)
    BY <1>8 DEF Check, CallStep, Lock, Commit, ReadEvent, Rollback
  <1> QED  BY <1>2, <1>3, <1>4, <1>5, <1>6, <1>7, <1>8 DEF Next, vars

\* While there is no task the broadcast is a draft, nothing runs, and a call
\* gets past its handler only by creating the task.
LEMMA TaskInvStep ==
  ASSUME ~HandlerFails, IInv, TaskInv, [Next]_vars
  PROVE  TaskInv'
  <1>1. CASE Exists(task)'  BY <1>1 DEF TaskInv
  <1>2. CASE ~Exists(task)'
    <2>1. ~Exists(task)  BY <1>2, TaskStays
    <2>2. /\ bc.status = "draft"
          /\ \A x \in Executor : ~Active(x)
          /\ \A c \in Client : /\ ~Exists(csnap[c])
                               /\ cpc[c] # "handled"
                               /\ cpc[c] \in {"checked", "locked"}
                                    => cop[c] \notin {"pause", "resume", "cancel"}
      BY <2>1 DEF TaskInv
    <2>3. /\ pc \in [Executor -> ExecPC] /\ cpc \in [Client -> ClientPC]
          /\ cop \in [Client -> Op] /\ csnap \in [Client -> Task] /\ task \in Task
      BY DEF IInv, TypeOK
    <2>4. ~Runnable(task) /\ ~Dispatchable(task)
      BY <2>1 DEF Exists, Runnable, Dispatchable
    <2>5. ~Exists(NoTask)  BY DEF Exists, NoTask
    <2>6. ASSUME NEW x \in Executor, Dispatch(x) \/ Progress(x) \/ Mishap(x)
          PROVE  /\ UNCHANGED <<bc, clientVars>> /\ ExecutionEnds(x)
      BY <2>2, <2>4, <2>6
         DEF Active, Dispatch, Progress, Mishap, Claim, Count, Refresh, DeleteQueueEntries,
             PauseQueueEntries, Yield, FetchBatch, SendBatch, OutOfTime, Advance, AllDone, Complete,
             MarkBroadcastFailed, Finish, SendBatchFails, FeedFails, ProcessFails, Crash
    <2>7. ASSUME NEW x \in Executor, Dispatch(x) \/ Progress(x) \/ Mishap(x) PROVE TaskInv'
      BY <2>2, <2>3, <2>6, <2>7 DEF ExecutionEnds, Active, clientVars, TaskInv
    <2>8. ASSUME NEW c \in Client, (\E op \in Op : Check(c, op)) \/ CallStep(c) \/ Rollback(c)
          PROVE  TaskInv'
      <3>1. UNCHANGED <<bc, execVars>>
        BY <2>2, <2>8 DEF Check, CallStep, Lock, Handle, Commit, ReadEvent, Rollback
      <3>2. \A x \in Executor : ~Active(x)'  BY <2>2, <3>1 DEF Active, execVars
      <3>3. CASE \E op \in Op : Check(c, op)
        <4>1. PICK op \in Op : Check(c, op)  BY <3>3
        <4>2. op \in {"sendNow", "sendLater"}
          BY <2>2, <4>1 DEF Check, Allowed, Op
        <4> QED  BY <2>2, <2>3, <3>1, <3>2, <4>1, <4>2 DEF Check, TaskInv
      <3>4. CASE CallEnds(c)
        BY <2>2, <2>3, <2>5, <3>1, <3>2, <3>4 DEF CallEnds, TaskInv
      <3>5. CASE Handle(c) /\ cpc[c] = "locked"
        <4>1. task' = Handler(cop[c], csnap[c])  BY <3>5 DEF Handle
        <4>2. cop[c] \in {"sendNow", "sendLater"}
          BY <2>2, <2>3, <3>5 DEF Op
        <4>3. Exists(Handler(cop[c], csnap[c]))
          BY <2>2, <2>3, <4>2, HandlerKeeps
        <4> QED  BY <1>2, <4>1, <4>3
      <3>6. CASE Lock(c) \/ ReadEvent(c) \/ Rollback(c)
        BY <2>1, <2>2, <2>3, <3>1, <3>2, <3>4, <3>6 DEF Lock, ReadEvent, Rollback, TaskInv
      <3> QED  BY <2>2, <2>8, <3>3, <3>4, <3>5, <3>6 DEF CallStep, Handle, Commit
    <2>9. CASE UNCHANGED <<bc, execVars, clientVars>>
      BY <2>2, <2>9 DEF execVars, clientVars, Active, TaskInv
    <2> QED
      BY <2>7, <2>8, <2>9 DEF Next, NextRunComes, TimeoutPasses, vars
  <1> QED  BY <1>1, <1>2

\* Where the handlers' writes succeed, a broadcast that is scheduled or
\* sending has a task, for any number of calls, rollbacks and executions: a
\* schedule call commits only behind its handler.
THEOREM SendingIsBacked ==
  ASSUME ~HandlerFails
  PROVE  Spec => []SendingHasTask
  <1>1. Init => TaskInv
    BY DEF Init, TaskInv, Draft, Exists, NoTask, Active
  <1>2. IInv /\ TaskInv /\ [Next]_vars => TaskInv'
    BY TaskInvStep
  <1>3. TaskInv => SendingHasTask  BY DEF TaskInv, SendingHasTask
  <1> QED  BY <1>1, <1>2, <1>3, Invariance, PTL DEF Spec

-----------------------------------------------------------------------------
(* A broadcast that is scheduled once and then left to itself.             *)

\* The schedule call is the only call so far, and no feed has failed.
Alone == cmds <= 1

\* The lone call schedules; until its handler has run there is no task, and
\* until it is over the broadcast is the draft it found.
CallInv(c) ==
  /\ cop[c] \in {"sendNow", "sendLater"}
  /\ ~Exists(csnap[c])
  /\ ~cbc[c].done
  /\ cpc[c] # "event"
  /\ cpc[c] \in {"checked", "locked", "eventRead"} => ~Exists(task)
  /\ cpc[c] # "idle" => bc = Draft

\* An execution that nobody interferes with keeps its claim, is never behind
\* the stored cursor, and ends in an error only through a fault.
RunInv(x) ==
  /\ pc[x] # "idle" => Exists(task)
  /\ pc[x] \notin {"pausing", "deleting"}
  /\ Active(x) => task.status = "running" /\ task.timeout = "armed" /\ pos[x] >= task.cursor
  /\ pc[x] = "count" => pos[x] = Fresh
  /\ pc[x] = "failing" => out[x] = "error"
  /\ pc[x] \in {"failing", "finish"} /\ out[x] = "error" => bc.done \/ task.retries < faults

\* The batches behind the stored cursor may be enqueued again; each of them,
\* except the one whose cursor is about to be stored, has its fault already.
Owed ==
  \A b \in Batch :
    b > task.cursor => \/ enq[b] <= faults
                       \/ \E x \in Executor : pc[x] = "sent" /\ b = pos[x] + 1

AloneInv ==
  /\ cmds = 0 => ~Exists(task) /\ bc = Draft /\ \A c \in Client : cpc[c] = "idle"
  /\ ~Exists(task) => task = NoTask
  /\ \A c, d \in Client : cpc[c] # "idle" /\ cpc[d] # "idle" => c = d
  /\ \A c \in Client : CallInv(c)
  /\ bc.status \notin {"paused", "cancelled"}
  /\ \A x \in Executor : RunInv(x)
  /\ AtMostOneRunner
  /\ bc.done \/ task.retries <= faults
  /\ task.status = "failed" => task.retries > MaxRetries
  /\ EnqueuedOncePerFault
  /\ Owed

\* Nobody but the lone schedule call has written the task, so an execution
\* runs behind it.
LEMMA BehindTheCall ==
  ASSUME IInv, Alone, AloneInv, Exists(task)
  PROVE  /\ cmds = 1
         /\ \A c \in Client : cpc[c] \in {"idle", "handled"}
  <1>1. cmds \in Nat /\ cpc \in [Client -> ClientPC]  BY DEF IInv, TypeOK
  <1>2. cmds = 1  BY <1>1 DEF Alone, AloneInv
  <1>3. ASSUME NEW c \in Client PROVE cpc[c] \in {"idle", "handled"}
    <2>1. CallInv(c)  BY DEF AloneInv
    <2> QED  BY <1>1, <2>1 DEF CallInv, ClientPC
  <1> QED  BY <1>2, <1>3

\* A step of the one execution at work: what is left to show is about that
\* execution, the task row and the queue.
LEMMA RunnerStep ==
  ASSUME IInv, Alone, AloneInv, NEW x \in Executor, Active(x),
         UNCHANGED <<clientVars, cmds>>,
         \A y \in Executor \ {x} : pc'[y] = pc[y],
         Exists(task)',
         bc' = bc \/ (Unlocked /\ bc'.status \notin {"paused", "cancelled"}),
         RunInv(x)',
         bc'.done \/ task'.retries <= faults',
         task'.status = "failed" => task'.retries > MaxRetries,
         EnqueuedOncePerFault', Owed'
  PROVE  AloneInv'
  <1>1. RunInv(x) /\ Exists(task)
    BY DEF AloneInv, RunInv, Active
  <1>2. cmds = 1 /\ \A c \in Client : cpc[c] \in {"idle", "handled"}
    BY <1>1, BehindTheCall
  <1>3. ASSUME NEW c \in Client PROVE CallInv(c)'
    <2>1. CallInv(c)  BY DEF AloneInv
    <2>2. cpc'[c] # "idle" => bc' = Draft
      BY <1>2, <2>1 DEF CallInv, Unlocked, Busy, clientVars
    <2> QED  BY <1>2, <2>1, <2>2 DEF CallInv, clientVars
  <1>4. ASSUME NEW y \in Executor \ {x} PROVE RunInv(y)' /\ ~Active(y)'
    <2>1. ~Active(y)  BY DEF AloneInv, AtMostOneRunner
    <2>2. pc'[y] \in {"idle", "dispatched"}  BY <2>1 DEF Active
    <2> QED  BY <2>2 DEF RunInv, Active
  <1>5. AtMostOneRunner'  BY <1>4 DEF AtMostOneRunner
  <1>6. bc'.status \notin {"paused", "cancelled"}  BY DEF AloneInv
  <1>7. \A c, d \in Client : cpc'[c] # "idle" /\ cpc'[d] # "idle" => c = d
    BY DEF AloneInv, clientVars
  <1>8. cmds' # 0  BY <1>2
  <1> QED  BY <1>3, <1>4, <1>5, <1>6, <1>7, <1>8 DEF AloneInv

\* The steps of Process between two writes of the task.
LEMMA ThinkingStep ==
  ASSUME IInv, Alone, AloneInv, NEW x \in Executor, Active(x), pc[x] # "sent",
         UNCHANGED <<clientVars, cmds, task, enq>>,
         \A y \in Executor \ {x} : pc'[y] = pc[y],
         bc' = bc \/ (Unlocked /\ bc'.status \notin {"paused", "cancelled"}),
         bc.done => bc'.done,
         faults' \in Nat, faults <= faults',
         pc'[x] \in ExecPC \ {"pausing", "deleting", "sent", "count"},
         pos'[x] >= pos[x], pos'[x] \in Int,
         pc'[x] = "failing" => out'[x] = "error",
         pc'[x] \in {"failing", "finish"} /\ out'[x] = "error"
           => bc'.done \/ task.retries < faults'
  PROVE  AloneInv'
  <1>1. RunInv(x) /\ Exists(task)
    BY DEF AloneInv, RunInv, Active
  <1>2. /\ faults \in Nat /\ task \in Task /\ enq \in [Batch -> Nat] /\ pos[x] \in Int
        /\ task.cursor \in Int /\ task.retries \in Nat
    BY BroadcastAssumption DEF IInv, TypeOK, Task, Fresh
  <1>3. RunInv(x)'
    BY <1>1, <1>2 DEF RunInv, Active
  <1>4. bc'.done \/ task'.retries <= faults'
    BY <1>2 DEF AloneInv
  <1>5. EnqueuedOncePerFault'
    BY <1>2 DEF AloneInv, EnqueuedOncePerFault
  <1>6. \A y \in Executor : pc[y] # "sent"
    BY DEF AloneInv, AtMostOneRunner, Active
  <1>7. Owed'
    BY <1>2, <1>6 DEF AloneInv, Owed
  <1>8. task'.status = "failed" => task'.retries > MaxRetries  BY DEF AloneInv
  <1> QED  BY <1>1, <1>3, <1>4, <1>5, <1>7, <1>8, RunnerStep

\* The decisions of Process: without a pause or a cancellation they never
\* leave the way from batch to batch, and an error costs a fault.
LEMMA AloneDecides ==
  ASSUME IInv, Alone, AloneInv, NEW x \in Executor,
         \/ Count(x) \/ Refresh(x) \/ Yield(x) \/ FetchBatch(x) \/ OutOfTime(x) \/ AllDone(x)
         \/ ProcessFails(x)
  PROVE  AloneInv'
  <1> USE DEF Count, Refresh, Yield, FetchBatch, OutOfTime, AllDone, ProcessFails
  <1>1. /\ UNCHANGED <<bc, task, enq, clientVars, cmds>>
        /\ Active(x) /\ pc[x] # "sent"
    BY DEF Active
  <1>2. /\ faults \in Nat /\ MaxFaults \in Nat /\ pos \in [Executor -> Fresh .. Total]
        /\ pc \in [Executor -> ExecPC] /\ out \in [Executor -> {"done", "more", "error"}]
        /\ task.retries \in Nat
    BY BroadcastAssumption DEF IInv, TypeOK, Task
  <1>3. faults' \in Nat /\ faults <= faults' /\ (ProcessFails(x) => faults' = faults + 1)
    BY <1>2 DEF Fault
  <1>4. bc.status \notin {"paused", "cancelled"}  BY DEF AloneInv
  <1>5. \E w \in ExecPC \ {"pausing", "deleting", "sent", "count"} :
           /\ pc' = [pc EXCEPT ![x] = w]
           /\ w = "failing" => ProcessFails(x)
           /\ w = "finish" => \/ out' = [out EXCEPT ![x] = "more"]
                              \/ ProcessFails(x)
    BY <1>4 DEF Goto, Return, Failing, ExecPC
  <1>6. ProcessFails(x) => out' = [out EXCEPT ![x] = "error"]
    BY DEF Failing
  <1>7. pc[x] = "count" \/ pos' = pos
    OBVIOUS
  <1>8. pos'[x] >= pos[x] /\ pos'[x] \in Int
    <2>1. pos[x] \in Int  BY <1>2 DEF Fresh
    <2>2. CASE pos' = pos  BY <2>1, <2>2
    <2>3. CASE Count(x)
      <3>1. pos'[x] = 0 /\ pos[x] = Fresh  BY <1>2, <2>3 DEF AloneInv, RunInv
      <3> QED  BY <3>1 DEF Fresh
    <2> QED  BY <2>2, <2>3
  <1>9. /\ \A y \in Executor \ {x} : pc'[y] = pc[y]
        /\ pc'[x] \in ExecPC \ {"pausing", "deleting", "sent", "count"}
        /\ pc'[x] = "failing" => out'[x] = "error"
        /\ pc'[x] \in {"failing", "finish"} /\ out'[x] = "error" => ProcessFails(x)
    BY <1>2, <1>5, <1>6
  <1>10. ProcessFails(x) => bc.done \/ task.retries < faults'
    BY <1>2, <1>3 DEF AloneInv
  <1> QED  BY <1>1, <1>3, <1>8, <1>9, <1>10, ThinkingStep

\* Complete is refused only for a broadcast that is processed already.
LEMMA AloneCompletes ==
  ASSUME IInv, Alone, AloneInv, NEW x \in Executor, Complete(x) \/ MarkBroadcastFailed(x)
  PROVE  AloneInv'
  <1>1. /\ UNCHANGED <<task, enq, pos, clientVars, cmds>>
        /\ Active(x) /\ pc[x] # "sent" /\ Unlocked
    BY DEF Complete, MarkBroadcastFailed, Active
  <1>2. /\ faults \in Nat /\ MaxFaults \in Nat /\ pos[x] \in Int
        /\ pc \in [Executor -> ExecPC] /\ out \in [Executor -> {"done", "more", "error"}]
        /\ task.retries \in Nat /\ bc \in Broadcast /\ RunInv(x)
    BY BroadcastAssumption DEF IInv, TypeOK, Task, Fresh, AloneInv
  <1>3. faults' \in Nat /\ faults <= faults'
    BY <1>2 DEF Complete, MarkBroadcastFailed, Fault
  <1>4. /\ bc.status \notin {"paused", "cancelled"}
        /\ bc.status = "processed" => bc.done
    BY DEF AloneInv, IInv
  <1>5. CASE Complete(x)
    <2>1. CASE Updatable
      <3>1. /\ bc' = [status |-> "processed", done |-> TRUE]
            /\ out' = [out EXCEPT ![x] = "done"] /\ pc' = [pc EXCEPT ![x] = "finish"]
        BY <1>5, <2>1 DEF Complete, Return, Goto
      <3>2. bc'.status = "processed" /\ bc'.done  BY <3>1
      <3>3. pc'[x] = "finish" /\ \A y \in Executor \ {x} : pc'[y] = pc[y]
        BY <1>2, <3>1
      <3> QED  BY <1>1, <1>2, <1>3, <3>2, <3>3, ThinkingStep DEF ExecPC
    <2>2. CASE ~Updatable
      <3>1. /\ bc' = bc /\ bc.done
            /\ out' = [out EXCEPT ![x] = "error"]
            /\ pc' = [pc EXCEPT ![x] = IF last[x] THEN "failing" ELSE "finish"]
        BY <1>4, <1>5, <2>2 DEF Complete, Failing, Goto, Updatable
      <3>2. /\ pc'[x] \in {"failing", "finish"} /\ \A y \in Executor \ {x} : pc'[y] = pc[y]
            /\ out'[x] = "error"
        BY <1>2, <3>1
      <3> QED  BY <1>1, <1>2, <1>3, <3>1, <3>2, ThinkingStep DEF ExecPC
    <2> QED  BY <2>1, <2>2
  <1>6. CASE MarkBroadcastFailed(x)
    <2>1. /\ pc' = [pc EXCEPT ![x] = "finish"] /\ out' = out /\ pc[x] = "failing"
          /\ bc' = bc \/ bc' = [bc EXCEPT !.status = "failed"]
      BY <1>2, <1>6 DEF MarkBroadcastFailed, Goto, Broadcast
    <2>2. bc'.done = bc.done /\ (bc' = bc \/ bc'.status = "failed")
      BY <1>2, <2>1 DEF Broadcast
    <2>3. bc.done \/ task.retries < faults
      BY <1>2, <2>1 DEF RunInv
    <2>4. pc'[x] = "finish" /\ \A y \in Executor \ {x} : pc'[y] = pc[y]
      BY <1>2, <2>1
    <2>5. bc'.done \/ task.retries < faults'
      BY <1>2, <1>3, <2>2, <2>3
    <2> QED  BY <1>1, <1>2, <1>3, <2>2, <2>4, <2>5, ThinkingStep DEF ExecPC
  <1> QED  BY <1>5, <1>6

\* A batch is enqueued where the stored cursor is not past it: all its
\* earlier copies have their faults.
LEMMA AloneSends ==
  ASSUME IInv, Alone, AloneInv, NEW x \in Executor, SendBatch(x) \/ SendBatchFails(x)
  PROVE  AloneInv'
  <1>1. /\ UNCHANGED <<bc, task, pos, out, clientVars, cmds>>
        /\ pc' = [pc EXCEPT ![x] = "sent"]
        /\ pc[x] = "fetched" /\ Active(x)
    BY DEF SendBatch, SendBatchFails, Goto, Active
  <1>2. /\ faults \in Nat /\ pos[x] \in Int /\ pos[x] >= 0 /\ pos[x] < Total
        /\ pc \in [Executor -> ExecPC] /\ enq \in [Batch -> Nat]
        /\ task.cursor \in Int /\ task.retries \in Nat /\ Total \in Nat
        /\ RunInv(x)
    BY <1>1, BroadcastAssumption DEF IInv, TypeOK, ExecInv, Task, Fresh, AloneInv
  <1>3. faults' \in Nat /\ faults <= faults'
    BY <1>2 DEF SendBatch, SendBatchFails, Fault
  <1>4. /\ pc'[x] = "sent" /\ pos'[x] = pos[x]
        /\ \A y \in Executor \ {x} : pc'[y] = pc[y]
    BY <1>1, <1>2
  <1>5. \A y \in Executor : pc[y] # "sent"
    BY <1>1 DEF AloneInv, AtMostOneRunner, Active
  <1>6. /\ \A b \in Batch : enq'[b] = enq[b] \/ (b = pos[x] + 1 /\ enq'[b] = enq[b] + 1)
    <2>1. CASE SendBatch(x)
      <3>1. enq' = [enq EXCEPT ![pos[x] + 1] = @ + 1]  BY <2>1 DEF SendBatch
      <3> QED  BY <1>2, <3>1
    <2>2. CASE SendBatchFails(x)  BY <2>2 DEF SendBatchFails
    <2> QED  BY <2>1, <2>2
  <1>7. pos[x] + 1 > task.cursor
    BY <1>1, <1>2 DEF RunInv
  <1>8. \A b \in Batch : b > task.cursor => enq[b] <= faults
    BY <1>5 DEF AloneInv, Owed
  <1>9. EnqueuedOncePerFault'
    <2>1. ASSUME NEW b \in Batch PROVE enq'[b] <= 1 + faults'
      <3>1. enq[b] <= 1 + faults /\ enq[b] \in Nat
        BY <1>2 DEF AloneInv, EnqueuedOncePerFault
      <3>2. CASE enq'[b] = enq[b]  BY <1>2, <1>3, <3>1, <3>2
      <3>3. CASE b = pos[x] + 1 /\ enq'[b] = enq[b] + 1
        <4>1. enq[b] <= faults  BY <1>7, <1>8, <3>3
        <4> QED  BY <1>2, <1>3, <3>1, <3>3, <4>1
      <3> QED  BY <1>6, <3>2, <3>3
    <2> QED  BY <2>1 DEF EnqueuedOncePerFault
  <1>10. Owed'
    <2>1. ASSUME NEW b \in Batch, b > task.cursor, b # pos[x] + 1
          PROVE  enq'[b] <= faults'
      <3>1. enq'[b] = enq[b] /\ enq[b] <= faults /\ enq[b] \in Nat
        BY <1>2, <1>6, <1>8, <2>1
      <3> QED  BY <1>2, <1>3, <3>1
    <2> QED  BY <1>1, <1>4, <2>1 DEF Owed
  <1>11. RunInv(x)'
    BY <1>1, <1>2, <1>4 DEF RunInv, Active
  <1>12. /\ Exists(task)'
         /\ bc'.done \/ task'.retries <= faults'
         /\ task'.status = "failed" => task'.retries > MaxRetries
    BY <1>1, <1>2, <1>3 DEF AloneInv, RunInv
  <1> QED  BY <1>1, <1>4, <1>9, <1>10, <1>11, <1>12, RunnerStep

\* A save moves the stored cursor up to the execution's; a save that fails
\* is a fault for every batch behind it.
LEMMA AloneAdvances ==
  ASSUME IInv, Alone, AloneInv, NEW x \in Executor, Advance(x)
  PROVE  AloneInv'
  <1>1. /\ UNCHANGED <<bc, enq, out, clientVars, cmds>>
        /\ pc' = [pc EXCEPT ![x] = "loop"] /\ pos' = [pos EXCEPT ![x] = @ + 1]
        /\ pc[x] = "sent" /\ Active(x)
    BY DEF Advance, Goto, Active
  <1>2. /\ faults \in Nat /\ pos \in [Executor -> Fresh .. Total] /\ pos[x] \in Int
        /\ pc \in [Executor -> ExecPC] /\ enq \in [Batch -> Nat]
        /\ task.cursor \in Int /\ task.retries \in Nat /\ task \in Task
        /\ RunInv(x)
    BY <1>1, BroadcastAssumption DEF IInv, TypeOK, ExecInv, Task, Fresh, AloneInv
  <1>3. /\ pc'[x] = "loop" /\ pos'[x] = pos[x] + 1
        /\ \A y \in Executor \ {x} : pc'[y] = pc[y]
    BY <1>1, <1>2
  <1>4. /\ faults' \in Nat /\ faults <= faults'
        /\ \/ task' = [task EXCEPT !.cursor = pos[x] + 1]
           \/ task' = task /\ faults' = faults + 1
    BY <1>1, <1>2 DEF Advance, Fault, SaveState, RunInv
  <1>5. /\ task'.status = "running" /\ task'.timeout = "armed" /\ task'.retries = task.retries
        /\ task'.cursor = pos[x] + 1 \/ (task' = task /\ faults' = faults + 1)
    BY <1>1, <1>2, <1>4 DEF RunInv, Task
  <1>6. task.cursor <= pos[x]
    BY <1>1, <1>2 DEF RunInv
  <1>7. \A y \in Executor : pc[y] = "sent" => y = x
    BY <1>1 DEF AloneInv, AtMostOneRunner, Active
  <1>8. \A b \in Batch : enq[b] <= 1 + faults
    BY DEF AloneInv, EnqueuedOncePerFault
  <1>9. EnqueuedOncePerFault'
    <2>1. ASSUME NEW b \in Batch PROVE enq[b] <= 1 + faults'
      <3>1. enq[b] \in Nat /\ enq[b] <= 1 + faults  BY <1>2, <1>8
      <3> QED  BY <1>2, <1>4, <3>1
    <2> QED  BY <1>1, <2>1 DEF EnqueuedOncePerFault
  <1>10. Owed'
    <2>1. ASSUME NEW b \in Batch, b > task'.cursor PROVE enq[b] <= faults'
      <3>1. enq[b] \in Nat /\ enq[b] <= 1 + faults /\ b \in Int  BY <1>2, <1>8 DEF Batch
      <3>2. CASE task' = task /\ faults' = faults + 1
        BY <1>2, <3>1, <3>2
      <3>3. CASE task'.cursor = pos[x] + 1
        <4>1. b > task.cursor /\ b # pos[x] + 1
          BY <1>2, <1>6, <2>1, <3>1, <3>3
        <4>2. enq[b] <= faults
          BY <1>7, <4>1 DEF AloneInv, Owed
        <4> QED  BY <1>2, <1>4, <3>1, <4>2
      <3> QED  BY <1>5, <3>2, <3>3
    <2> QED  BY <1>1, <2>1 DEF Owed
  <1>11. RunInv(x)'
    <2>1. pos'[x] >= task'.cursor  BY <1>2, <1>3, <1>5, <1>6
    <2> QED  BY <1>3, <1>5, <2>1 DEF RunInv, Exists
  <1>12. /\ Exists(task)'
         /\ bc'.done \/ task'.retries <= faults'
         /\ task'.status = "failed" => task'.retries > MaxRetries
    BY <1>1, <1>2, <1>4, <1>5 DEF AloneInv, Exists
  <1> QED  BY <1>1, <1>3, <1>9, <1>10, <1>11, <1>12, RunnerStep

\* The end of an execution: a yield or a completion stores its cursor, an
\* error the retry that its fault accounts for.
LEMMA AloneFinishes ==
  ASSUME IInv, Alone, AloneInv, NEW x \in Executor, Finish(x)
  PROVE  AloneInv'
  <1>1. /\ UNCHANGED <<bc, enq, clientVars, cmds, faults>>
        /\ pc' = [pc EXCEPT ![x] = "idle"]
        /\ pc[x] = "finish" /\ Active(x)
    BY DEF Finish, ExecutionEnds, Active
  <1>2. /\ faults \in Nat /\ pos[x] \in Int /\ MaxRetries \in Nat
        /\ pc \in [Executor -> ExecPC] /\ enq \in [Batch -> Nat]
        /\ task \in Task /\ task.cursor \in Int /\ task.retries \in Nat
        /\ out[x] \in {"done", "more", "error"} /\ RunInv(x)
    BY BroadcastAssumption, MaxRetriesAssumption DEF IInv, TypeOK, Task, Fresh, AloneInv
  <1>3. pc'[x] = "idle" /\ \A y \in Executor \ {x} : pc'[y] = pc[y]
    BY <1>1, <1>2
  <1>4. task.status = "running" /\ Exists(task) /\ pos[x] >= task.cursor
    BY <1>1, <1>2 DEF RunInv
  <1>5. /\ task'.status \in {"completed", "pending", "failed"}
        /\ task'.cursor >= task.cursor /\ task'.cursor \in Int
        /\ bc.done \/ task'.retries <= faults
        /\ task'.status = "failed" => task'.retries > MaxRetries
    <2>1. CASE out[x] = "done"
      <3>1. task' = [task EXCEPT !.status = "completed", !.timeout = "null", !.cursor = pos[x]]
        BY <1>4, <2>1 DEF Finish, MarkAsCompleted, Update
      <3> QED  BY <1>2, <1>4, <3>1 DEF Task, AloneInv
    <2>2. CASE out[x] = "more"
      <3>1. task' = [task EXCEPT !.status = "pending", !.next = "due", !.timeout = "null",
                                 !.cursor = pos[x]]
        BY <1>4, <2>2 DEF Finish, MarkAsPending, Update
      <3> QED  BY <1>2, <1>4, <3>1 DEF Task, AloneInv
    <2>3. CASE out[x] = "error"
      <3>1. bc.done \/ task.retries < faults  BY <1>1, <1>2, <2>3 DEF RunInv
      <3>2. /\ task'.cursor = task.cursor /\ task'.retries = task.retries + 1
            /\ task'.status = IF task.retries < MaxRetries THEN "pending" ELSE "failed"
        <4>1. task' = MarkAsFailed(task)  BY <2>3 DEF Finish
        <4> QED  BY <1>2, <1>4, <4>1 DEF MarkAsFailed, Update, Task
      <3> QED  BY <1>2, <3>1, <3>2
    <2> QED  BY <1>2, <2>1, <2>2, <2>3
  <1>6. \A y \in Executor : pc[y] # "sent"
    BY <1>1 DEF AloneInv, AtMostOneRunner, Active
  <1>7. Owed'
    <2>1. ASSUME NEW b \in Batch, b > task'.cursor PROVE enq[b] <= faults
      <3>1. b > task.cursor  BY <1>2, <1>5, <2>1 DEF Batch
      <3> QED  BY <1>6, <3>1 DEF AloneInv, Owed
    <2> QED  BY <1>1, <2>1 DEF Owed
  <1>8. RunInv(x)'  BY <1>3 DEF RunInv, Active
  <1>9. Exists(task)' /\ EnqueuedOncePerFault'
    BY <1>1, <1>5 DEF Exists, AloneInv, EnqueuedOncePerFault
  <1> QED  BY <1>1, <1>3, <1>5, <1>7, <1>8, <1>9, RunnerStep

\* A crash is a fault for every batch.
LEMMA AloneCrashes ==
  ASSUME IInv, Alone, AloneInv, NEW x \in Executor, Active(x), Crash(x)
  PROVE  AloneInv'
  <1>1. /\ UNCHANGED <<bc, task, enq, clientVars, cmds>> /\ faults' = faults + 1
        /\ pc' = [pc EXCEPT ![x] = "idle"]
    BY DEF Crash, ExecutionEnds, Fault
  <1>2. /\ faults \in Nat /\ pc \in [Executor -> ExecPC] /\ enq \in [Batch -> Nat]
        /\ task.retries \in Nat /\ RunInv(x)
    BY DEF IInv, TypeOK, Task, AloneInv
  <1>3. pc'[x] = "idle" /\ \A y \in Executor \ {x} : pc'[y] = pc[y]
    BY <1>1, <1>2
  <1>4. ASSUME NEW b \in Batch PROVE enq'[b] <= faults' /\ enq'[b] <= 1 + faults'
    <2>1. enq[b] <= 1 + faults /\ enq[b] \in Nat
      BY <1>2 DEF AloneInv, EnqueuedOncePerFault
    <2> QED  BY <1>1, <1>2, <2>1
  <1>5. Owed' /\ EnqueuedOncePerFault'  BY <1>4 DEF Owed, EnqueuedOncePerFault
  <1>6. RunInv(x)'  BY <1>3 DEF RunInv, Active
  <1>7. /\ Exists(task)'
        /\ bc'.done \/ task'.retries <= faults'
        /\ task'.status = "failed" => task'.retries > MaxRetries
    BY <1>1, <1>2 DEF AloneInv, RunInv, Active
  <1> QED  BY <1>1, <1>3, <1>5, <1>6, <1>7, RunnerStep

\* A request comes or goes without touching the task.
LEMMA AloneDispatches ==
  ASSUME IInv, Alone, AloneInv, NEW x \in Executor,
         pc[x] \in {"idle", "dispatched"}, pc'[x] \in {"idle", "dispatched"},
         pc'[x] = "dispatched" => Exists(task),
         \A y \in Executor \ {x} : pc'[y] = pc[y] /\ pos'[y] = pos[y] /\ out'[y] = out[y],
         UNCHANGED <<bc, task, enq, clientVars, cmds>>,
         faults' \in Nat, faults <= faults'
  PROVE  AloneInv'
  <1>1. /\ faults \in Nat /\ enq \in [Batch -> Nat] /\ task.retries \in Nat
    BY DEF IInv, TypeOK, Task
  <1>2. ASSUME NEW c \in Client PROVE CallInv(c)'
    BY DEF AloneInv, CallInv, clientVars
  <1>3. ASSUME NEW y \in Executor PROVE RunInv(y)' /\ (Active(y)' => Active(y) /\ y # x)
    <2>1. CASE y = x  BY <2>1 DEF RunInv, Active
    <2>2. CASE y # x
      <3>1. RunInv(y)  BY DEF AloneInv
      <3>2. pc'[y] = pc[y] /\ pos'[y] = pos[y] /\ out'[y] = out[y]  BY <2>2
      <3>3. task.retries < faults => task.retries < faults'  BY <1>1
      <3> QED  BY <2>2, <3>1, <3>2, <3>3 DEF RunInv, Active
    <2> QED  BY <2>1, <2>2
  <1>4. AtMostOneRunner'  BY <1>3 DEF AloneInv, AtMostOneRunner
  <1>5. EnqueuedOncePerFault'
    BY <1>1 DEF AloneInv, EnqueuedOncePerFault
  <1>6. Owed'
    <2>1. ASSUME NEW b \in Batch, b > task'.cursor, ~(enq'[b] <= faults')
          PROVE  \E y \in Executor : pc'[y] = "sent" /\ b = pos'[y] + 1
      <3>1. ~(enq[b] <= faults)
        <4>1. enq[b] \in Nat  BY <1>1
        <4> QED  BY <1>1, <2>1, <4>1
      <3>2. PICK y \in Executor : pc[y] = "sent" /\ b = pos[y] + 1
        BY <2>1, <3>1 DEF AloneInv, Owed
      <3>3. y # x  BY <3>2
      <3> QED  BY <3>2, <3>3
    <2> QED  BY <2>1 DEF Owed
  <1>7. bc'.done \/ task'.retries <= faults'  BY <1>1 DEF AloneInv
  <1> QED  BY <1>2, <1>3, <1>4, <1>5, <1>6, <1>7 DEF AloneInv, clientVars

\* A claim succeeds only when nobody is at work: a running task is claimed
\* only behind its timeout, which a live execution does not let pass.
LEMMA AloneClaims ==
  ASSUME IInv, Alone, AloneInv, NEW x \in Executor, Claim(x), Runnable(task)
  PROVE  AloneInv'
  <1>1. /\ UNCHANGED <<bc, enq, clientVars, cmds, faults, out>>
        /\ task' = MarkAsRunning(task) /\ pc[x] = "dispatched"
        /\ pos' = [pos EXCEPT ![x] = task.cursor]
        /\ pc' = [pc EXCEPT ![x] = IF task.cursor = Fresh THEN "count" ELSE "loop"]
    BY DEF Claim, Goto, Runnable
  <1>2. /\ task \in Task /\ task.cursor \in Int /\ pc \in [Executor -> ExecPC]
        /\ pos \in [Executor -> Fresh .. Total]
    BY DEF IInv, TypeOK, Task
  <1>3. \A y \in Executor : ~Active(y)
    BY DEF AloneInv, RunInv, Runnable
  <1>4. /\ task'.status = "running" /\ task'.timeout = "armed"
        /\ task'.cursor = task.cursor /\ task'.retries = task.retries
    BY <1>1, <1>2 DEF MarkAsRunning, Task
  <1>5. /\ pos'[x] = task.cursor
        /\ pc'[x] = IF task.cursor = Fresh THEN "count" ELSE "loop"
        /\ \A y \in Executor \ {x} : pc'[y] = pc[y] /\ pos'[y] = pos[y]
    BY <1>1, <1>2
  <1>6. Exists(task)  BY DEF Runnable, Exists
  <1>7. cmds = 1 /\ \A c \in Client : cpc[c] \in {"idle", "handled"}
    BY <1>6, BehindTheCall
  <1>8. ASSUME NEW c \in Client PROVE CallInv(c)'
    BY <1>1, <1>7 DEF AloneInv, CallInv, clientVars
  <1>9. ASSUME NEW y \in Executor PROVE RunInv(y)' /\ (Active(y)' => y = x)
    <2>1. CASE y = x  BY <1>2, <1>4, <1>5, <2>1 DEF RunInv, Exists
    <2>2. CASE y # x
      <3>1. pc'[y] \in {"idle", "dispatched"}  BY <1>3, <1>5, <2>2 DEF Active
      <3> QED  BY <1>4, <3>1 DEF RunInv, Active, Exists
    <2> QED  BY <2>1, <2>2
  <1>10. AtMostOneRunner'  BY <1>9 DEF AtMostOneRunner
  <1>11. \A y \in Executor : pc[y] # "sent"  BY <1>3 DEF Active
  <1>12. Owed' /\ EnqueuedOncePerFault'
    BY <1>1, <1>4, <1>11 DEF AloneInv, Owed, EnqueuedOncePerFault
  <1>13. cmds' # 0 /\ Exists(task)'  BY <1>1, <1>4, <1>7 DEF Exists
  <1> QED
    BY <1>1, <1>4, <1>8, <1>9, <1>10, <1>12, <1>13 DEF AloneInv, clientVars

\* A step of an execution, or of a request on its way to one.
LEMMA AloneExecution ==
  ASSUME IInv, Alone, Alone', AloneInv, NEW x \in Executor,
         Dispatch(x) \/ Progress(x) \/ Mishap(x)
  PROVE  AloneInv'
  <1>1. /\ pc \in [Executor -> ExecPC] /\ pos \in [Executor -> Fresh .. Total]
        /\ out \in [Executor -> {"done", "more", "error"}] /\ faults \in Nat /\ cmds \in Nat
    BY DEF IInv, TypeOK
  <1>2. pc[x] \notin {"pausing", "deleting"} /\ (pc[x] # "idle" => Exists(task))
    BY DEF AloneInv, RunInv
  <1>3. CASE Dispatch(x)
    <2>1. /\ UNCHANGED <<bc, task, enq, clientVars, cmds, pos, out, faults>>
          /\ pc' = [pc EXCEPT ![x] = "dispatched"] /\ pc[x] = "idle" /\ Exists(task)
      BY <1>3 DEF Dispatch, Goto, Dispatchable, Exists
    <2>2. pc'[x] = "dispatched" /\ \A y \in Executor \ {x} : pc'[y] = pc[y]
      BY <1>1, <2>1
    <2> QED  BY <1>1, <2>1, <2>2, AloneDispatches
  <1>4. CASE /\ ExecutionEnds(x) /\ pc[x] = "dispatched"
             /\ UNCHANGED <<bc, task, enq, clientVars, cmds>>
             /\ faults' \in {faults, faults + 1}
    <2>1. /\ pc'[x] = "idle"
          /\ \A y \in Executor \ {x} : pc'[y] = pc[y] /\ pos'[y] = pos[y] /\ out'[y] = out[y]
      BY <1>1, <1>4 DEF ExecutionEnds
    <2>2. faults' \in Nat /\ faults <= faults'  BY <1>1, <1>4
    <2> QED  BY <1>4, <2>1, <2>2, AloneDispatches
  <1>5. CASE Claim(x)
    <2>1. CASE Runnable(task)  BY <1>5, <2>1, AloneClaims
    <2>2. CASE ~Runnable(task)  BY <1>4, <1>5, <2>2 DEF Claim
    <2> QED  BY <2>1, <2>2
  <1>6. CASE Crash(x)
    <2>1. CASE Active(x)  BY <1>6, <2>1, AloneCrashes
    <2>2. CASE ~Active(x)  BY <1>4, <1>6, <2>2 DEF Active, Crash, Fault
    <2> QED  BY <2>1, <2>2
  <1>7. ~FeedFails(x)
    <2>1. ASSUME FeedFails(x) PROVE FALSE
      <3>1. Exists(task)  BY <1>2, <2>1 DEF FeedFails
      <3>2. cmds = 1 /\ cmds' = cmds + 1  BY <2>1, <3>1, BehindTheCall DEF FeedFails
      <3> QED  BY <3>2 DEF Alone
    <2> QED  BY <2>1
  <1>8. ~DeleteQueueEntries(x) /\ ~PauseQueueEntries(x)
    BY <1>2 DEF DeleteQueueEntries, PauseQueueEntries
  <1> QED
    BY <1>3, <1>5, <1>6, <1>7, <1>8, AloneDecides, AloneCompletes, AloneSends, AloneAdvances,
       AloneFinishes DEF Progress, Mishap

\* A step of the lone call that leaves the task and the broadcast alone.
LEMMA AloneCallMoves ==
  ASSUME IInv, AloneInv, NEW c \in Client,
         UNCHANGED <<bc, task, enq, execVars>>,
         \A d \in Client : cpc'[d] # "idle" => d = c,
         \A d \in Client : CallInv(d)',
         cmds' # 0 \/ \A d \in Client : cpc'[d] = "idle" /\ cmds' = cmds,
         faults' \in Nat, faults <= faults'
  PROVE  AloneInv'
  <1>1. faults \in Nat /\ enq \in [Batch -> Nat] /\ task.retries \in Nat
    BY DEF IInv, TypeOK, Task
  <1>2. ASSUME NEW x \in Executor PROVE RunInv(x)'
    <2>1. task.retries < faults => task.retries < faults'  BY <1>1
    <2> QED  BY <2>1 DEF AloneInv, RunInv, Active, execVars
  <1>3. EnqueuedOncePerFault'
    <2>1. ASSUME NEW b \in Batch PROVE enq[b] <= 1 + faults'
      <3>1. enq[b] \in Nat /\ enq[b] <= 1 + faults
        BY <1>1 DEF AloneInv, EnqueuedOncePerFault
      <3> QED  BY <1>1, <3>1
    <2> QED  BY <2>1 DEF EnqueuedOncePerFault
  <1>4. Owed'
    <2>1. ASSUME NEW b \in Batch, b > task.cursor
          PROVE  \/ enq[b] <= faults'
                 \/ \E x \in Executor : pc[x] = "sent" /\ b = pos[x] + 1
      <3>1. enq[b] \in Nat  BY <1>1
      <3>2. enq[b] <= faults => enq[b] <= faults'  BY <1>1, <3>1
      <3> QED  BY <2>1, <3>2 DEF AloneInv, Owed
    <2> QED  BY <2>1 DEF Owed, execVars
  <1>5. AtMostOneRunner'  BY DEF AloneInv, AtMostOneRunner, Active, execVars
  <1>6. bc'.done \/ task'.retries <= faults'  BY <1>1 DEF AloneInv
  <1>7. cmds' = 0 => ~Exists(task)' /\ bc' = Draft /\ \A d \in Client : cpc'[d] = "idle"
    BY DEF AloneInv
  <1> QED  BY <1>2, <1>3, <1>4, <1>5, <1>6, <1>7 DEF AloneInv

\* What is left of a call once it is over.
LEMMA AloneCallEnds ==
  ASSUME IInv, AloneInv, NEW c \in Client, cpc[c] # "idle", CallEnds(c)
  PROVE  /\ \A d \in Client : cpc'[d] = "idle"
         /\ \A d \in Client : CallInv(d)'
  <1>1. /\ cpc \in [Client -> ClientPC] /\ cop \in [Client -> Op] /\ cbc \in [Client -> Broadcast]
        /\ csnap \in [Client -> Task]
    BY DEF IInv, TypeOK
  <1>2. ASSUME NEW d \in Client PROVE cpc'[d] = "idle" /\ CallInv(d)'
    <2>1. CASE d = c
      <3>1. cpc'[d] = "idle" /\ cop'[d] = "sendNow" /\ csnap'[d] = NoTask /\ cbc'[d] = Draft
        BY <1>1, <2>1 DEF CallEnds
      <3> QED  BY <3>1 DEF CallInv, Exists, NoTask, Draft
    <2>2. CASE d # c
      <3>1. cpc'[d] = cpc[d] /\ cop'[d] = cop[d] /\ csnap'[d] = csnap[d] /\ cbc'[d] = cbc[d]
        BY <1>1, <2>2 DEF CallEnds
      <3>2. cpc[d] = "idle" /\ CallInv(d)  BY <2>2 DEF AloneInv
      <3> QED  BY <3>1, <3>2 DEF CallInv
    <2> QED  BY <2>1, <2>2
  <1> QED  BY <1>2

\* A step of a service call or of its handler.
LEMMA AloneCall ==
  ASSUME IInv, Alone, Alone', AloneInv, NEW c \in Client,
         (\E op \in Op : Check(c, op)) \/ CallStep(c) \/ Rollback(c)
  PROVE  AloneInv'
  <1>1. /\ cpc \in [Client -> ClientPC] /\ cop \in [Client -> Op] /\ cbc \in [Client -> Broadcast]
        /\ csnap \in [Client -> Task] /\ cmds \in Nat /\ faults \in Nat
    BY DEF IInv, TypeOK
  <1>2. CASE \E op \in Op : Check(c, op)
    <2>1. PICK op \in Op : Check(c, op)  BY <1>2
    <2>2. /\ cmds = 0 /\ cmds' # 0
          /\ UNCHANGED <<bc, task, enq, execVars, faults, csnap>>
      BY <1>1, <2>1 DEF Check, Alone
    <2>3. ~Exists(task) /\ bc = Draft /\ \A d \in Client : cpc[d] = "idle"
      BY <2>2 DEF AloneInv
    <2>4. op \in {"sendNow", "sendLater"}
      BY <2>1, <2>3 DEF Check, Allowed, Op, Draft
    <2>5. ASSUME NEW d \in Client PROVE (cpc'[d] # "idle" => d = c) /\ CallInv(d)'
      <3>1. CallInv(d)  BY DEF AloneInv
      <3>2. CASE d = c
        <4>1. cpc'[d] = "checked" /\ cop'[d] = op /\ cbc'[d] = Draft /\ csnap'[d] = csnap[d]
          BY <1>1, <2>1, <2>2, <2>3, <3>2 DEF Check
        <4> QED  BY <2>2, <2>3, <2>4, <3>1, <3>2, <4>1 DEF CallInv, Draft
      <3>3. CASE d # c
        <4>1. cpc'[d] = "idle" /\ cop'[d] = cop[d] /\ cbc'[d] = cbc[d] /\ csnap'[d] = csnap[d]
          BY <1>1, <2>1, <2>3, <3>3 DEF Check
        <4> QED  BY <3>1, <4>1 DEF CallInv
      <3> QED  BY <3>2, <3>3
    <2> QED  BY <1>1, <2>2, <2>5, AloneCallMoves
  <1>3. ASSUME cpc[c] # "idle"
        PROVE  /\ cmds # 0 /\ bc = Draft /\ CallInv(c)
               /\ \A d \in Client \ {c} : cpc[d] = "idle"
    BY <1>3 DEF AloneInv, CallInv
  <1>4. CASE CallEnds(c) /\ cpc[c] # "idle" /\ UNCHANGED <<bc, task, enq, execVars, cmds>>
             /\ faults' \in {faults, faults + 1}
    BY <1>1, <1>3, <1>4, AloneCallEnds, AloneCallMoves
  <1>5. CASE Lock(c) /\ ~CallEnds(c)
    <2>1. /\ UNCHANGED <<bc, task, enq, execVars, cmds, faults, cop, cbc>>
          /\ cpc[c] = "checked" /\ cpc' = [cpc EXCEPT ![c] = "locked"]
          /\ csnap' = [csnap EXCEPT ![c] = task]
      BY <1>5 DEF Lock
    <2>2. ~Exists(task) /\ cmds # 0 /\ bc = Draft /\ CallInv(c)
          /\ \A d \in Client \ {c} : cpc[d] = "idle"
      BY <1>3, <2>1 DEF CallInv
    <2>3. ASSUME NEW d \in Client PROVE (cpc'[d] # "idle" => d = c) /\ CallInv(d)'
      <3>1. CallInv(d)  BY DEF AloneInv
      <3>2. CASE d = c
        <4>1. cpc'[d] = "locked" /\ csnap'[d] = task  BY <1>1, <2>1, <3>2
        <4> QED  BY <2>1, <2>2, <3>1, <3>2, <4>1 DEF CallInv
      <3>3. CASE d # c
        <4>1. cpc'[d] = "idle" /\ csnap'[d] = csnap[d]  BY <1>1, <2>1, <2>2, <3>3
        <4> QED  BY <2>1, <3>1, <3>3, <4>1 DEF CallInv
      <3> QED  BY <3>2, <3>3
    <2> QED  BY <1>1, <2>1, <2>2, <2>3, AloneCallMoves
  <1>6. CASE Rollback(c) /\ ~CallEnds(c)
    <2>1. /\ UNCHANGED <<bc, task, enq, execVars, cmds, cop, cbc, csnap>>
          /\ cpc[c] = "locked" /\ cpc' = [cpc EXCEPT ![c] = "eventRead"]
          /\ faults' = faults + 1
      BY <1>6 DEF Rollback, Fault
    <2>2. ~Exists(task) /\ cmds # 0 /\ bc = Draft /\ \A d \in Client \ {c} : cpc[d] = "idle"
      BY <1>3, <2>1 DEF CallInv
    <2>3. ASSUME NEW d \in Client PROVE (cpc'[d] # "idle" => d = c) /\ CallInv(d)'
      <3>1. CallInv(d)  BY DEF AloneInv
      <3>2. CASE d = c
        <4>1. cpc'[d] = "eventRead"  BY <1>1, <2>1, <3>2
        <4> QED  BY <2>1, <2>2, <3>1, <4>1 DEF CallInv
      <3>3. CASE d # c
        <4>1. cpc'[d] = "idle"  BY <1>1, <2>1, <2>2, <3>3
        <4> QED  BY <2>1, <3>1, <3>3, <4>1 DEF CallInv
      <3> QED  BY <3>2, <3>3
    <2> QED  BY <1>1, <2>1, <2>2, <2>3, AloneCallMoves
  <1>7. CASE Handle(c) \/ Commit(c)
    <2>1. /\ cpc[c] \in {"locked", "eventRead", "handled"}
          /\ UNCHANGED <<enq, execVars, cmds>>
      BY <1>7 DEF Handle, Commit
    <2>2. /\ cmds # 0 /\ bc = Draft /\ CallInv(c)
          /\ \A d \in Client \ {c} : cpc[d] = "idle"
      BY <1>3, <2>1
    <2>3. CASE Handle(c) /\ task' # task
      <3>1. /\ UNCHANGED <<bc, faults>> /\ task' = Handler(cop[c], csnap[c])
            /\ cpc[c] \in {"locked", "eventRead"}
        BY <2>3 DEF Handle
      <3>2. /\ ~Exists(task) /\ ~Exists(csnap[c]) /\ task = NoTask
            /\ cop[c] \in {"sendNow", "sendLater"}
        BY <2>2, <3>1 DEF CallInv, AloneInv
      <3>3. \E next \in {"null", "wait"} : task' = Create(next)
        BY <3>1, <3>2 DEF Handler, HandleScheduled
      <3>4. task'.status = "pending" /\ task'.cursor = task.cursor /\ task'.retries = 0
        BY <3>2, <3>3 DEF Create, NoTask
      <3>5. \A x \in Executor : pc[x] = "idle"  BY <3>2 DEF AloneInv, RunInv
      <3>6. \A x \in Executor : RunInv(x)' /\ ~Active(x)'
        BY <2>1, <3>5 DEF RunInv, Active, execVars
      <3>7. \A d \in Client : CallInv(d)' /\ (cpc'[d] # "idle" => d = c)
        <4>1. CASE cpc[c] = "eventRead"
          <5>1. CallEnds(c)  BY <2>3, <4>1 DEF Handle
          <5> QED  BY <4>1, <5>1, AloneCallEnds
        <4>2. CASE cpc[c] = "locked"
          <5>1. cpc' = [cpc EXCEPT ![c] = "handled"] /\ UNCHANGED <<cop, cbc, csnap>>
            BY <2>3, <4>2 DEF Handle
          <5>2. ASSUME NEW d \in Client PROVE CallInv(d)' /\ (cpc'[d] # "idle" => d = c)
            <6>1. CallInv(d)  BY DEF AloneInv
            <6>2. cpc'[d] = IF d = c THEN "handled" ELSE "idle"  BY <1>1, <2>2, <5>1
            <6> QED  BY <2>2, <3>1, <5>1, <6>1, <6>2 DEF CallInv
          <5> QED  BY <5>2
        <4> QED  BY <3>1, <4>1, <4>2
      <3>8. AtMostOneRunner'  BY <3>6 DEF AtMostOneRunner
      <3>9. Owed' /\ EnqueuedOncePerFault'
        BY <2>1, <3>1, <3>4 DEF AloneInv, Owed, EnqueuedOncePerFault, execVars
      <3>10. Exists(task)' /\ task'.retries <= faults'
        BY <1>1, <3>1, <3>4 DEF Exists
      <3>11. bc'.status \notin {"paused", "cancelled"} /\ cmds' # 0
        BY <2>1, <2>2, <3>1 DEF Draft
      <3> QED  BY <3>4, <3>6, <3>7, <3>8, <3>9, <3>10, <3>11 DEF AloneInv
    <2>4. CASE Handle(c) /\ task' = task
      <3>1. bc' = bc /\ faults' \in {faults, faults + 1}  BY <2>4 DEF Handle, Fault
      <3>2. CASE CallEnds(c)  BY <1>4, <2>1, <2>4, <3>1, <3>2
      <3>3. CASE ~CallEnds(c)
        <4>1. cpc' = [cpc EXCEPT ![c] = "handled"] /\ UNCHANGED <<cop, cbc, csnap>>
          BY <2>4, <3>3 DEF Handle
        <4>2. ASSUME NEW d \in Client PROVE CallInv(d)' /\ (cpc'[d] # "idle" => d = c)
          <5>1. CallInv(d)  BY DEF AloneInv
          <5>2. cpc'[d] = IF d = c THEN "handled" ELSE "idle"  BY <1>1, <2>2, <4>1
          <5> QED  BY <2>2, <3>1, <4>1, <5>1, <5>2 DEF CallInv
        <4> QED  BY <1>1, <2>1, <2>2, <2>4, <3>1, <4>2, AloneCallMoves
      <3> QED  BY <3>2, <3>3
    <2>5. CASE Commit(c)
      <3>1. /\ UNCHANGED <<task, faults>> /\ CallEnds(c)
            /\ bc' = [status |-> Target(cop[c], cbc[c]), done |-> cbc[c].done]
        BY <2>5 DEF Commit
      <3>2. bc'.status \in {"processing", "scheduled"} /\ ~bc'.done /\ ~bc.done
        BY <2>2, <3>1 DEF CallInv, Target, Draft
      <3>3. \A d \in Client : CallInv(d)' /\ cpc'[d] = "idle"
        BY <2>1, <3>1, AloneCallEnds
      <3>4. ASSUME NEW x \in Executor PROVE RunInv(x)'
        BY <2>1, <3>1, <3>2 DEF AloneInv, RunInv, Active, execVars
      <3>5. AtMostOneRunner' /\ Owed' /\ EnqueuedOncePerFault'
        BY <2>1, <3>1 DEF AloneInv, AtMostOneRunner, Active, Owed, EnqueuedOncePerFault, execVars
      <3>6. task'.retries <= faults' /\ cmds' # 0  BY <2>1, <2>2, <3>1, <3>2 DEF AloneInv
      <3> QED  BY <3>1, <3>2, <3>3, <3>4, <3>5, <3>6 DEF AloneInv
    <2> QED  BY <1>7, <2>3, <2>4, <2>5
  <1>8. ~ReadEvent(c)  BY DEF ReadEvent, AloneInv, CallInv
  <1>9. CASE Lock(c) /\ CallEnds(c)  BY <1>4, <1>9 DEF Lock
  <1>10. CASE Rollback(c) /\ CallEnds(c)  BY <1>4, <1>10 DEF Rollback, Fault
  <1> QED  BY <1>2, <1>5, <1>6, <1>7, <1>8, <1>9, <1>10 DEF CallStep

\* Time does not pass a timeout under a live execution.
LEMMA AloneTime ==
  ASSUME ~Overruns, IInv, AloneInv, NextRunComes \/ TimeoutPasses
  PROVE  AloneInv'
  <1>1. UNCHANGED <<bc, enq, execVars, clientVars, cmds, faults>>
    BY DEF NextRunComes, TimeoutPasses
  <1>2. /\ task'.status = task.status /\ task'.retries = task.retries
        /\ task'.cursor = task.cursor /\ Exists(task)
        /\ task'.timeout = task.timeout \/ \A x \in Executor : ~Active(x)
    <2>1. task \in Task  BY DEF IInv, TypeOK
    <2>2. Exists(task)
      BY DEF AloneInv, NextRunComes, TimeoutPasses, NoTask
    <2> QED  BY <2>1, <2>2 DEF NextRunComes, TimeoutPasses, Task
  <1>3. ASSUME NEW x \in Executor PROVE RunInv(x)'
    BY <1>1, <1>2 DEF AloneInv, RunInv, Active, execVars, Exists
  <1>4. ASSUME NEW c \in Client PROVE CallInv(c)'
    BY <1>1, <1>2 DEF AloneInv, CallInv, clientVars, Exists
  <1>5. AtMostOneRunner' /\ Owed' /\ EnqueuedOncePerFault'
    BY <1>1, <1>2 DEF AloneInv, AtMostOneRunner, Active, Owed, EnqueuedOncePerFault, execVars
  <1> QED  BY <1>1, <1>2, <1>3, <1>4, <1>5 DEF AloneInv, clientVars, Exists

\* No task, no call, no execution: nothing is owed.
LEMMA InitAlone == Init => AloneInv
  <1> SUFFICES ASSUME Init PROVE AloneInv  OBVIOUS
  <1>1. ~Exists(task) /\ bc = Draft /\ task.retries = 0 /\ task.status = "absent"
    BY DEF Init, Exists, NoTask
  <1>2. \A c \in Client : CallInv(c)  BY DEF Init, CallInv, Exists, NoTask, Draft
  <1>3. \A x \in Executor : RunInv(x) /\ ~Active(x)  BY DEF Init, RunInv, Active
  <1>4. Owed /\ EnqueuedOncePerFault  BY DEF Init, Owed, EnqueuedOncePerFault
  <1>5. bc.status \notin {"paused", "cancelled"} /\ task.retries <= faults
    BY <1>1 DEF Init, Draft
  <1> QED  BY <1>1, <1>2, <1>3, <1>4, <1>5 DEF AloneInv, AtMostOneRunner, Init

\* AloneInv is inductive as long as nobody calls again.
LEMMA AloneNext ==
  ASSUME ~Overruns, IInv, Alone, Alone', AloneInv, [Next]_vars
  PROVE  AloneInv'
  <1>1. ASSUME NEW x \in Executor, Dispatch(x) \/ Progress(x) \/ Mishap(x) PROVE AloneInv'
    BY <1>1, AloneExecution
  <1>2. ASSUME NEW c \in Client, (\E op \in Op : Check(c, op)) \/ CallStep(c) \/ Rollback(c)
        PROVE  AloneInv'
    BY <1>2, AloneCall
  <1>3. CASE NextRunComes \/ TimeoutPasses  BY <1>3, AloneTime
  <1>4. CASE UNCHANGED vars
    <2>1. \A x \in Executor : RunInv(x)'
      BY <1>4 DEF vars, execVars, AloneInv, RunInv, Active
    <2>2. \A c \in Client : CallInv(c)'
      BY <1>4 DEF vars, clientVars, AloneInv, CallInv
    <2> QED
      BY <1>4, <2>1, <2>2 DEF vars, execVars, clientVars, AloneInv, AtMostOneRunner, Active, Owed,
                              EnqueuedOncePerFault
  <1> QED  BY <1>1, <1>2, <1>3, <1>4 DEF Next

\* A broadcast that is scheduled once, whose executions end before their
\* timeout, keeps AloneInv through every crash, rollback, failed write, failed
\* batch and failed execution.
THEOREM LeftAlone ==
  ASSUME ~Overruns
  PROVE  Spec /\ []Alone => []AloneInv
  <1>1. IInv /\ Alone /\ Alone' /\ AloneInv /\ [Next]_vars => AloneInv'
    BY AloneNext
  <1> QED  BY <1>1, InitAlone, Invariance, PTL DEF Spec

\* Two executions are never at work on it at once.
THEOREM OneRunner ==
  ASSUME ~Overruns
  PROVE  Spec /\ []Alone => []AtMostOneRunner
  <1>1. AloneInv => AtMostOneRunner  BY DEF AloneInv
  <1> QED  BY <1>1, LeftAlone, PTL

\* No batch is enqueued more often than once plus once per fault.
THEOREM OneCopyPerFault ==
  ASSUME ~Overruns
  PROVE  Spec /\ []Alone => []EnqueuedOncePerFault
  <1>1. AloneInv => EnqueuedOncePerFault  BY DEF AloneInv
  <1> QED  BY <1>1, LeftAlone, PTL

\* Its task is given up only after max_retries + 1 executions that failed
\* through a fault.
THEOREM AllRetriesAreUsed ==
  ASSUME ~Overruns
  PROVE  Spec /\ []Alone => []RetriesAreUsed
  <1>1. IInv /\ AloneInv => RetriesAreUsed
    <2> SUFFICES ASSUME IInv, AloneInv, task.status = "failed", ~bc.done
                 PROVE  faults >= MaxRetries + 1
      BY DEF RetriesAreUsed
    <2>1. task.retries \in Nat /\ faults \in Nat /\ MaxRetries \in Nat
      BY MaxRetriesAssumption DEF IInv, TypeOK, Task
    <2>2. task.retries > MaxRetries /\ task.retries <= faults  BY DEF AloneInv
    <2> QED  BY <2>1, <2>2
  <1> QED  BY <1>1, LeftAlone, Invariance, PTL

\* Its task, once completed, is not taken up again.
THEOREM CompletionIsFinal ==
  ASSUME ~Overruns
  PROVE  Spec /\ []Alone => CompletedIsFinal
  <1>1. IInv /\ Alone /\ AloneInv /\ [Next]_vars
          => [task.status = "completed" => task'.status = "completed"]_vars
    <2> SUFFICES ASSUME IInv, Alone, AloneInv, [Next]_vars, task.status = "completed"
                 PROVE  task'.status = "completed"
      OBVIOUS
    <2>1. ~Runnable(task) /\ Exists(task)  BY DEF Runnable, Exists
    <2>2. \A x \in Executor : ~Active(x)  BY DEF AloneInv, RunInv
    <2>3. \A c \in Client : cpc[c] \in {"idle", "handled"}  BY <2>1, BehindTheCall
    <2>4. ASSUME NEW x \in Executor, Dispatch(x) \/ Progress(x) \/ Mishap(x)
          PROVE  task' = task
      BY <2>1, <2>2, <2>4
         DEF Active, Dispatch, Progress, Mishap, Claim, Count, Refresh, DeleteQueueEntries,
             PauseQueueEntries, Yield, FetchBatch, SendBatch, OutOfTime, Advance, AllDone, Complete,
             MarkBroadcastFailed, Finish, SendBatchFails, FeedFails, ProcessFails, Crash
    <2>5. ASSUME NEW c \in Client, (\E op \in Op : Check(c, op)) \/ CallStep(c) \/ Rollback(c)
          PROVE  task' = task
      BY <2>3, <2>5 DEF Check, CallStep, Lock, Handle, Commit, ReadEvent, Rollback
    <2>6. CASE NextRunComes \/ TimeoutPasses
      <3>1. task \in Task  BY DEF IInv, TypeOK
      <3> QED  BY <2>6, <3>1 DEF NextRunComes, TimeoutPasses, Task
    <2>7. CASE task' = task  BY <2>7
    <2> QED  BY <2>4, <2>5, <2>6, <2>7 DEF Next, vars
  <1> QED  BY <1>1, LeftAlone, Invariance, PTL DEF Spec, CompletedIsFinal
===============================================================================
