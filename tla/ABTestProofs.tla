---------------------------- MODULE ABTestProofs -----------------------------
(***************************************************************************)
(* Nobody falls between the sample and the rest, for every audience,       *)
(* sample, batch size and number of variations, executions, SelectWinner   *)
(* calls and faults: IInv is an inductive invariant of ABTest and implies  *)
(* NobodyForgotten.  And the rest get the winner alone while nobody        *)
(* selects one by hand and nothing fails: QuietInv says how broadcast row, *)
(* phase and loaded templates then go together.                            *)
(***************************************************************************)
EXTENDS ABTest, TLAPS

\* The sample has somebody in it and is no larger than the audience.
LEMMA SampleInAudience == Sample \in 1 .. Total
  <1> USE ABTestAssumption
  <1>1. Total * Percentage \in Nat /\ Total * Percentage <= 100 * Total
    OBVIOUS
  <1>2. (Total * Percentage) \div 100 \in Nat /\ (Total * Percentage) \div 100 <= Total
    BY <1>1
  <1> QED  BY <1>2 DEF Sample

\* Each statement of TaskRepository that ExecuteTask uses yields a row whose
\* state is the one before or the one that was handed in.
LEMMA TaskStatements ==
  ASSUME NEW t \in ABTask, NEW s \in State
  PROVE  /\ MarkAsRunning(t) \in ABTask /\ MarkAsRunning(t).cursor = t.cursor
         /\ MarkAsRunning(t).status # "completed"
         /\ SaveState(t, s) \in ABTask /\ SaveState(t, s).cursor \in {t.cursor, s}
         /\ SaveState(t, s).status = t.status
         /\ MarkAsCompleted(t, s) \in ABTask /\ MarkAsCompleted(t, s).cursor \in {t.cursor, s}
         /\ MarkAsFailed(t) \in ABTask /\ MarkAsFailed(t).cursor = t.cursor
         /\ MarkAsFailed(t).status # "completed" 
         /\ MarkAsPending(t, "due", s) \in ABTask /\ MarkAsPending(t, "due", s).cursor \in {t.cursor, s}
         /\ MarkAsPending(t, "due", s).status # "completed"
  <1> USE DEF ABTask, TaskStatus
  <1>1. MarkAsRunning(t) \in ABTask /\ MarkAsRunning(t).cursor = t.cursor
        /\ MarkAsRunning(t).status # "completed"
    BY DEF MarkAsRunning
  <1>2. SaveState(t, s) \in ABTask /\ SaveState(t, s).cursor \in {t.cursor, s}
        /\ SaveState(t, s).status = t.status
    BY DEF SaveState
  <1>3. MarkAsCompleted(t, s) \in ABTask /\ MarkAsCompleted(t, s).cursor \in {t.cursor, s}
    BY DEF MarkAsCompleted, Update, Exists
  <1>4. MarkAsFailed(t) \in ABTask /\ MarkAsFailed(t).cursor = t.cursor
        /\ MarkAsFailed(t).status # "completed"
    <2>1. t.retries + 1 \in Nat  OBVIOUS
    <2>2. CASE t.retries < MaxRetries  BY <2>1, <2>2 DEF MarkAsFailed, Update, Exists
    <2>3. CASE ~(t.retries < MaxRetries)  BY <2>1, <2>3 DEF MarkAsFailed, Update, Exists
    <2> QED  BY <2>2, <2>3
  <1>5. MarkAsPending(t, "due", s) \in ABTask /\ MarkAsPending(t, "due", s).cursor \in {t.cursor, s}
        /\ MarkAsPending(t, "due", s).status # "completed"
    BY DEF MarkAsPending, Update, Exists
  <1> QED  BY <1>1, <1>2, <1>3, <1>4, <1>5

\* The locals of goroutines at rest.
LEMMA Blank ==
  /\ Started \in Broadcast /\ Started.status # "processed"
  /\ NoState \in State /\ NoState.offset = Fresh
  /\ NewTask \in ABTask /\ NewTask.cursor = NoState /\ NewTask.status # "completed"
  <1>1. Started \in Broadcast /\ Started.status # "processed"
    BY DEF Started, Broadcast, Status
  <1>2. NoState \in State /\ NoState.offset = Fresh
    BY ABTestAssumption DEF NoState, State, Fresh
  <1>3. NewTask \in ABTask /\ NewTask.cursor = NoState /\ NewTask.status # "completed"
    BY <1>2 DEF NewTask, Create, NoTask, ABTask, TaskStatus
  <1> QED  BY <1>1, <1>2, <1>3

LEMMA BlankIsSound == StateSound(NoState) /\ StateSound(NoState)'
  BY Blank, ABTestAssumption DEF StateSound, Recipient, Fresh

\* What was handled stays handled.
Grows ==
  /\ \A r \in Recipient : sent[r] # {} => sent'[r] # {}
  /\ dropped \subseteq dropped'

LEMMA SoundStays ==
  ASSUME Grows
  PROVE  /\ \A s : StateSound(s) => StateSound(s)'
         /\ Covered => Covered'
         /\ \A c : CopySound(c) => CopySound(c)'
  <1>1. \A r \in Recipient : Handled(r) => Handled(r)'  BY DEF Grows, Handled
  <1>2. \A s : StateSound(s) => StateSound(s)'  BY <1>1 DEF StateSound
  <1>3. Covered => Covered'  BY <1>1 DEF Covered
  <1>4. \A c : CopySound(c) => CopySound(c)'  BY <1>3 DEF CopySound
  <1> QED  BY <1>2, <1>3, <1>4

LEMMA QueueStays ==
  ASSUME UNCHANGED <<sent, dropped>>
  PROVE  Grows
  BY DEF Grows

\* The initial state satisfies the invariant.
LEMMA InitIInv == Init => IInv
  <1> SUFFICES ASSUME Init PROVE IInv  OBVIOUS
  <1>1. TypeOK
    BY Blank DEF Init, TypeOK, ExecPC
  <1>2. \A x \in Executor : ExecInv(x)
    BY Blank, BlankIsSound DEF Init, ExecInv, CopySound
  <1>3. \A u \in User : UserInv(u)
    BY Blank, BlankIsSound DEF Init, UserInv, CopySound
  <1> QED  BY <1>1, <1>2, <1>3, Blank, BlankIsSound DEF IInv, Init, CopySound

-----------------------------------------------------------------------------
(* Executions.                                                             *)

Elsewhere(x) ==
  \A y \in Executor \ {x} :
    pc'[y] = pc[y] /\ copy'[y] = copy[y] /\ st'[y] = st[y] /\ out'[y] = out[y]

\* A step of one execution keeps the invariant when it keeps the execution's
\* own part and the rows'.
LEMMA ExecStep ==
  ASSUME IInv, NEW x \in Executor, Grows, Elsewhere(x), UNCHANGED <<usnap, ucopy, upc, upick>>,
         TypeOK', StateSound(task.cursor)', (task.status = "completed" => Covered)',
         CopySound(bc)', ExecInv(x)'
  PROVE  IInv'
  <1>1. ASSUME NEW y \in Executor \ {x} PROVE ExecInv(y)'
    BY SoundStays DEF IInv, ExecInv, Elsewhere, CopySound, StateSound
  <1>2. ASSUME NEW u \in User PROVE UserInv(u)'
    BY SoundStays DEF IInv, UserInv, CopySound, StateSound
  <1> QED  BY <1>1, <1>2 DEF IInv

\* Broadcast rows with some fields changed.
LEMMA Rows ==
  ASSUME NEW b \in Broadcast
  PROVE  /\ \A g \in Status : [b EXCEPT !.status = g] \in Broadcast /\ [b EXCEPT !.status = g].status = g
         /\ \A t \in Template \cup {None} :
              WithWinner(b, t) \in Broadcast /\ WithWinner(b, t).status # "processed"
         /\ TestSent(b) \in Broadcast /\ TestSent(b).status # "processed"
  <1>1. ASSUME NEW g \in Status
        PROVE  [b EXCEPT !.status = g] \in Broadcast /\ [b EXCEPT !.status = g].status = g
    BY DEF Broadcast
  <1>2. ASSUME NEW t \in Template \cup {None}
        PROVE  WithWinner(b, t) \in Broadcast /\ WithWinner(b, t).status # "processed"
    BY DEF Broadcast, Status, WithWinner
  <1>3. TestSent(b) \in Broadcast /\ TestSent(b).status # "processed"
    BY DEF Broadcast, Status, TestSent
  <1> QED  BY <1>1, <1>2, <1>3

\* An execution's state with its phase or its offset changed.
LEMMA States ==
  ASSUME TypeOK, NEW x \in Executor
  PROVE  /\ \A p \in {"unset", "test", "winner"} :
              SetPhase(x, p) => /\ st' \in [Executor -> State]
                                /\ st'[x].offset = st[x].offset
                                /\ \A y \in Executor \ {x} : st'[y] = st[y]
         /\ \A n \in Fresh .. Total :
              SetOffset(x, n) => /\ st' \in [Executor -> State]
                                 /\ st'[x].offset = n
                                 /\ \A y \in Executor \ {x} : st'[y] = st[y]
  <1>1. ASSUME NEW p \in {"unset", "test", "winner"}, SetPhase(x, p)
        PROVE  st' \in [Executor -> State] /\ st'[x].offset = st[x].offset
               /\ \A y \in Executor \ {x} : st'[y] = st[y]
    BY <1>1 DEF TypeOK, State, SetPhase
  <1>2. ASSUME NEW n \in Fresh .. Total, SetOffset(x, n)
        PROVE  st' \in [Executor -> State] /\ st'[x].offset = n
               /\ \A y \in Executor \ {x} : st'[y] = st[y]
    BY <1>2 DEF TypeOK, State, SetOffset
  <1> QED  BY <1>1, <1>2

\* The soundness of a state is a matter of its offset.
LEMMA SameOffset ==
  ASSUME NEW s, NEW t, Grows, StateSound(s), t.offset = s.offset
  PROVE  StateSound(t)'
  BY SoundStays DEF StateSound

LEMMA CountInv ==
  ASSUME IInv, NEW x \in Executor, Count(x)
  PROVE  IInv'
  <1> USE DEF Count, Goto, Return, userVars
  <1>0. TypeOK /\ ExecInv(x) /\ StateSound(task.cursor) /\ CopySound(bc)  BY DEF IInv
  <1>0a. /\ st[x] \in State /\ st[x].phase \in {"unset", "test", "winner"} /\ st[x].offset \in Fresh .. Total
         /\ copy[x] \in Broadcast /\ bc \in Broadcast /\ task.cursor \in State
    BY <1>0 DEF TypeOK, State, ABTask
  <1>2. Grows  BY QueueStays
  <1>2b. 0 \in Fresh .. Total  BY ABTestAssumption DEF Fresh
  <1>1. TypeOK'
    <2>1. task' \in ABTask  BY <1>0, <1>0a, TaskStatements DEF TypeOK
    <2>2. bc' \in Broadcast /\ chosen' \subseteq Template  BY <1>0, <1>0a, Rows DEF TypeOK, Status, Broadcast
    <2>3. st' \in [Executor -> State]  BY <1>0, <1>0a, <1>2b, States, Blank DEF TypeOK
    <2>4. copy' \in [Executor -> Broadcast]  BY <1>0, <1>0a, Rows, Blank DEF TypeOK, Status
    <2>5. faults' \in Nat  BY <1>0 DEF TypeOK
    <2>6. pc' \in [Executor -> ExecPC] /\ out' \in [Executor -> {"done", "more", "error"}]
      BY <1>0 DEF TypeOK, ExecPC
    <2>7. tmpl' \in [Executor -> SUBSET Template]  BY <1>0, <1>0a DEF TypeOK, Broadcast
    <2>8. last' \in [Executor -> BOOLEAN]  BY <1>0 DEF TypeOK
    <2> QED  BY <1>0, <2>1, <2>2, <2>3, <2>4, <2>5, <2>6, <2>7, <2>8 DEF TypeOK
  <1>2a. Elsewhere(x)
    BY <1>0, <1>0a, <1>2b, States DEF Elsewhere, TypeOK
  <1>3. StateSound(task.cursor)' /\ (task.status = "completed" => Covered)'
    BY <1>0, <1>0a, <1>2, SoundStays, TaskStatements DEF IInv, ExecInv, TypeOK
  <1>3a. CopySound(bc)'
    BY <1>0, <1>0a, <1>2, SoundStays, Rows DEF IInv, ExecInv, CopySound, Status
  <1>4. ExecInv(x)'
    <2>1. StateSound(st[x])'
      <3>1. st'[x].offset = 0  BY <1>0, <1>2b, States
      <3>2. \A r \in Recipient : ~(r <= 0)  BY ABTestAssumption DEF Recipient
      <3> QED  BY <3>1, <3>2 DEF StateSound
    <2>2. CopySound(copy[x])'  BY <1>0, <1>0a, <1>2, SoundStays, Blank DEF ExecInv, CopySound, TypeOK
    <2>3. (pc[x] \notin {"idle", "dispatched", "count", "failing", "finish"} => st[x].offset # Fresh)'
      BY <1>0, <1>0a, <1>2b, States DEF ExecInv, TypeOK
    <2>4. (pc[x] = "completing" => st[x].offset = Total)'
      BY <1>0, <1>0a, <1>2b, States, ABTestAssumption DEF ExecInv, TypeOK, Fresh
    <2>5. (out[x] = "done" => Covered)'
      BY <1>0, <1>2, SoundStays DEF ExecInv, TypeOK
    <2> QED  BY <2>1, <2>2, <2>3, <2>4, <2>5 DEF ExecInv
  <1> QED  BY <1>1, <1>2, <1>2a, <1>3, <1>3a, <1>4, ExecStep

LEMMA ElectInv ==
  ASSUME IInv, NEW x \in Executor, Elect(x)
  PROVE  IInv'
  <1> USE DEF Elect, Goto, Fault, Updatable, userVars
  <1>0. TypeOK /\ ExecInv(x) /\ StateSound(task.cursor) /\ CopySound(bc)  BY DEF IInv
  <1>0a. /\ st[x] \in State /\ st[x].phase \in {"unset", "test", "winner"} /\ st[x].offset \in Fresh .. Total
         /\ copy[x] \in Broadcast /\ bc \in Broadcast /\ task.cursor \in State
    BY <1>0 DEF TypeOK, State, ABTask
  <1>0c. /\ bc' = bc \/ \E t \in Template : bc' = WithWinner(copy[x], t)
         /\ chosen' \subseteq Template
    BY <1>0 DEF TypeOK
  <1>0d. bc' \in Broadcast /\ (bc' = bc \/ bc'.status # "processed")
    <2> HIDE DEF Elect
    <2>1. CASE bc' = bc  BY <1>0a, <2>1
    <2>2. ASSUME NEW t \in Template, bc' = WithWinner(copy[x], t)
          PROVE  bc' \in Broadcast /\ bc'.status # "processed"
      <3>1. t \in Template \cup {None}  OBVIOUS
      <3> QED  BY <1>0a, <2>2, <3>1, Rows
    <2> QED  BY <1>0c, <2>1, <2>2
  <1>2. Grows  BY QueueStays
  <1>1. TypeOK'
    <2>1. task' \in ABTask  BY <1>0, <1>0a, TaskStatements DEF TypeOK
    <2>2. bc' \in Broadcast /\ chosen' \subseteq Template  BY <1>0c, <1>0d
    <2>3. st' \in [Executor -> State]  BY <1>0, <1>0a, States, Blank DEF TypeOK
    <2>4. copy' \in [Executor -> Broadcast]  BY <1>0, <1>0a, Rows, Blank DEF TypeOK, Status
    <2>5. faults' \in Nat  BY <1>0 DEF TypeOK
    <2>6. pc' \in [Executor -> ExecPC] /\ out' \in [Executor -> {"done", "more", "error"}]
      BY <1>0 DEF TypeOK, ExecPC
    <2>7. tmpl' \in [Executor -> SUBSET Template]  BY <1>0, <1>0a DEF TypeOK, Broadcast
    <2>8. last' \in [Executor -> BOOLEAN]  BY <1>0 DEF TypeOK
    <2> QED  BY <1>0, <2>1, <2>2, <2>3, <2>4, <2>5, <2>6, <2>7, <2>8 DEF TypeOK
  <1>2a. Elsewhere(x)
    BY <1>0, <1>0a, States DEF Elsewhere, TypeOK
  <1>3. StateSound(task.cursor)' /\ (task.status = "completed" => Covered)'
    BY <1>0, <1>0a, <1>2, SoundStays, TaskStatements DEF IInv, ExecInv, TypeOK
  <1>3a. CopySound(bc)'
    BY <1>0, <1>0d, <1>2, SoundStays DEF CopySound
  <1>4. ExecInv(x)'
    <2>1. StateSound(st[x])'  BY <1>0, <1>0a, <1>2, States, SoundStays, SameOffset, BlankIsSound DEF ExecInv, TypeOK
    <2>2. CopySound(copy[x])'  BY <1>0, <1>0a, <1>2, SoundStays, Blank DEF ExecInv, CopySound, TypeOK
    <2>3. (pc[x] \notin {"idle", "dispatched", "count", "failing", "finish"} => st[x].offset # Fresh)'
      BY <1>0, <1>0a, States DEF ExecInv, TypeOK
    <2>4. (pc[x] = "completing" => st[x].offset = Total)'
      BY <1>0, <1>0a, States, ABTestAssumption DEF ExecInv, TypeOK, Fresh
    <2>5. (out[x] = "done" => Covered)'
      BY <1>0, <1>2, SoundStays DEF ExecInv, TypeOK
    <2> QED  BY <2>1, <2>2, <2>3, <2>4, <2>5 DEF ExecInv
  <1> QED  BY <1>1, <1>2, <1>2a, <1>3, <1>3a, <1>4, ExecStep

LEMMA BeginTestInv ==
  ASSUME IInv, NEW x \in Executor, BeginTest(x)
  PROVE  IInv'
  <1> USE DEF BeginTest, Goto, Return, Fault, Updatable, userVars
  <1>0. TypeOK /\ ExecInv(x) /\ StateSound(task.cursor) /\ CopySound(bc)  BY DEF IInv
  <1>0a. /\ st[x] \in State /\ st[x].phase \in {"unset", "test", "winner"} /\ st[x].offset \in Fresh .. Total
         /\ copy[x] \in Broadcast /\ bc \in Broadcast /\ task.cursor \in State
    BY <1>0 DEF TypeOK, State, ABTask
  <1>0c. \/ bc' = bc /\ copy' = copy
         \/ bc' = [copy[x] EXCEPT !.status = "testing"] /\ copy' = [copy EXCEPT ![x].status = "testing"]
    OBVIOUS
  <1>0d. [copy[x] EXCEPT !.status = "testing"] \in Broadcast
         /\ [copy[x] EXCEPT !.status = "testing"].status = "testing"
    BY <1>0a, Rows DEF Status
  <1>0e. /\ copy' \in [Executor -> Broadcast]
         /\ copy'[x] = copy[x] \/ copy'[x].status = "testing"
         /\ \A y \in Executor \ {x} : copy'[y] = copy[y]
    <2> HIDE DEF BeginTest
    <2>1. CASE copy' = copy  BY <1>0, <2>1 DEF TypeOK
    <2>2. CASE copy' = [copy EXCEPT ![x].status = "testing"]  BY <1>0, <1>0d, <2>2 DEF TypeOK
    <2> QED  BY <1>0c, <2>1, <2>2
  <1>2. Grows  BY QueueStays
  <1>1. TypeOK'
    <2>1. task' \in ABTask  BY <1>0, <1>0a, TaskStatements DEF TypeOK
    <2>2. bc' \in Broadcast /\ chosen' \subseteq Template  BY <1>0, <1>0a, <1>0c, <1>0d DEF TypeOK
    <2>3. st' \in [Executor -> State]  BY <1>0, <1>0a, States, Blank DEF TypeOK
    <2>4. copy' \in [Executor -> Broadcast]  BY <1>0e
    <2>5. faults' \in Nat  BY <1>0 DEF TypeOK
    <2>6. pc' \in [Executor -> ExecPC] /\ out' \in [Executor -> {"done", "more", "error"}]
      BY <1>0 DEF TypeOK, ExecPC
    <2>7. tmpl' \in [Executor -> SUBSET Template]  BY <1>0, <1>0a DEF TypeOK, Broadcast
    <2>8. last' \in [Executor -> BOOLEAN]  BY <1>0 DEF TypeOK
    <2> QED  BY <1>0, <2>1, <2>2, <2>3, <2>4, <2>5, <2>6, <2>7, <2>8 DEF TypeOK
  <1>2a. Elsewhere(x)
    BY <1>0, <1>0a, <1>0e, States DEF Elsewhere, TypeOK
  <1>3. StateSound(task.cursor)' /\ (task.status = "completed" => Covered)'
    BY <1>0, <1>0a, <1>2, SoundStays, TaskStatements DEF IInv, ExecInv, TypeOK
  <1>3a. CopySound(bc)'
    BY <1>0, <1>0c, <1>0d, <1>2, SoundStays DEF CopySound
  <1>4. ExecInv(x)'
    <2>1. StateSound(st[x])'  BY <1>0, <1>0a, <1>2, States, SoundStays, SameOffset, BlankIsSound DEF ExecInv, TypeOK
    <2>2. CopySound(copy[x])'  BY <1>0, <1>0e, <1>2, SoundStays DEF ExecInv, CopySound
    <2>3. (pc[x] \notin {"idle", "dispatched", "count", "failing", "finish"} => st[x].offset # Fresh)'
      BY <1>0, <1>0a, States DEF ExecInv, TypeOK
    <2>4. (pc[x] = "completing" => st[x].offset = Total)'
      BY <1>0, <1>0a, States, ABTestAssumption DEF ExecInv, TypeOK, Fresh
    <2>5. (out[x] = "done" => Covered)'
      BY <1>0, <1>2, SoundStays DEF ExecInv, TypeOK
    <2> QED  BY <2>1, <2>2, <2>3, <2>4, <2>5 DEF ExecInv
  <1> QED  BY <1>1, <1>2, <1>2a, <1>3, <1>3a, <1>4, ExecStep

LEMMA BeginInv ==
  ASSUME IInv, NEW x \in Executor, Begin(x)
  PROVE  IInv'
  <1> USE DEF Begin, Goto, InitialPhase, userVars
  <1>0. TypeOK /\ ExecInv(x) /\ StateSound(task.cursor) /\ CopySound(bc)  BY DEF IInv
  <1>0a. /\ st[x] \in State /\ st[x].phase \in {"unset", "test", "winner"} /\ st[x].offset \in Fresh .. Total
         /\ copy[x] \in Broadcast /\ bc \in Broadcast /\ task.cursor \in State
    BY <1>0 DEF TypeOK, State, ABTask
  <1>2. Grows  BY QueueStays
  <1>1. TypeOK'
    <2>1. task' \in ABTask  BY <1>0, <1>0a, TaskStatements DEF TypeOK
    <2>2. bc' \in Broadcast /\ chosen' \subseteq Template  BY <1>0, <1>0a, Rows DEF TypeOK, Status, Broadcast
    <2>3. st' \in [Executor -> State]  BY <1>0, <1>0a, States, Blank DEF TypeOK
    <2>4. copy' \in [Executor -> Broadcast]  BY <1>0, <1>0a, Rows, Blank DEF TypeOK, Status
    <2>5. faults' \in Nat  BY <1>0 DEF TypeOK
    <2>6. pc' \in [Executor -> ExecPC] /\ out' \in [Executor -> {"done", "more", "error"}]
      BY <1>0 DEF TypeOK, ExecPC
    <2>7. tmpl' \in [Executor -> SUBSET Template]  BY <1>0, <1>0a DEF TypeOK, Broadcast
    <2>8. last' \in [Executor -> BOOLEAN]  BY <1>0 DEF TypeOK
    <2> QED  BY <1>0, <2>1, <2>2, <2>3, <2>4, <2>5, <2>6, <2>7, <2>8 DEF TypeOK
  <1>2a. Elsewhere(x)
    BY <1>0, <1>0a, States DEF Elsewhere, TypeOK
  <1>3. StateSound(task.cursor)' /\ (task.status = "completed" => Covered)'
    BY <1>0, <1>0a, <1>2, SoundStays, TaskStatements DEF IInv, ExecInv, TypeOK
  <1>3a. CopySound(bc)'
    BY <1>0, <1>0a, <1>2, SoundStays, Rows DEF IInv, ExecInv, CopySound, Status
  <1>4. ExecInv(x)'
    <2>1. StateSound(st[x])'  BY <1>0, <1>0a, <1>2, States, SoundStays, SameOffset, BlankIsSound DEF ExecInv, TypeOK
    <2>2. CopySound(copy[x])'  BY <1>0, <1>0a, <1>2, SoundStays, Blank DEF ExecInv, CopySound, TypeOK
    <2>3. (pc[x] \notin {"idle", "dispatched", "count", "failing", "finish"} => st[x].offset # Fresh)'
      BY <1>0, <1>0a, States DEF ExecInv, TypeOK
    <2>4. (pc[x] = "completing" => st[x].offset = Total)'
      BY <1>0, <1>0a, States, ABTestAssumption DEF ExecInv, TypeOK, Fresh
    <2>5. (out[x] = "done" => Covered)'
      BY <1>0, <1>2, SoundStays DEF ExecInv, TypeOK
    <2> QED  BY <2>1, <2>2, <2>3, <2>4, <2>5 DEF ExecInv
  <1> QED  BY <1>1, <1>2, <1>2a, <1>3, <1>3a, <1>4, ExecStep

LEMMA LoadTemplatesInv ==
  ASSUME IInv, NEW x \in Executor, LoadTemplates(x)
  PROVE  IInv'
  <1> USE DEF LoadTemplates, Goto, Return, userVars
  <1>0. TypeOK /\ ExecInv(x) /\ StateSound(task.cursor) /\ CopySound(bc)  BY DEF IInv
  <1>0a. /\ st[x] \in State /\ st[x].phase \in {"unset", "test", "winner"} /\ st[x].offset \in Fresh .. Total
         /\ copy[x] \in Broadcast /\ bc \in Broadcast /\ task.cursor \in State
    BY <1>0 DEF TypeOK, State, ABTask
  <1>0b. copy[x].winner \in Template \cup {None}  BY <1>0a DEF Broadcast
  <1>2. Grows  BY QueueStays
  <1>1. TypeOK'
    <2>1. task' \in ABTask  BY <1>0, <1>0a, TaskStatements DEF TypeOK
    <2>2. bc' \in Broadcast /\ chosen' \subseteq Template  BY <1>0, <1>0a, Rows DEF TypeOK, Status, Broadcast
    <2>3. st' \in [Executor -> State]  BY <1>0, <1>0a, States, Blank DEF TypeOK
    <2>4. copy' \in [Executor -> Broadcast]  BY <1>0, <1>0a, Rows, Blank DEF TypeOK, Status
    <2>5. faults' \in Nat  BY <1>0 DEF TypeOK
    <2>6. pc' \in [Executor -> ExecPC] /\ out' \in [Executor -> {"done", "more", "error"}]
      BY <1>0 DEF TypeOK, ExecPC
    <2>7. tmpl' \in [Executor -> SUBSET Template]  BY <1>0, <1>0b DEF TypeOK
    <2>8. last' \in [Executor -> BOOLEAN]  BY <1>0 DEF TypeOK
    <2> QED  BY <1>0, <2>1, <2>2, <2>3, <2>4, <2>5, <2>6, <2>7, <2>8 DEF TypeOK
  <1>2a. Elsewhere(x)
    BY <1>0, <1>0a, States DEF Elsewhere, TypeOK
  <1>3. StateSound(task.cursor)' /\ (task.status = "completed" => Covered)'
    BY <1>0, <1>0a, <1>2, SoundStays, TaskStatements DEF IInv, ExecInv, TypeOK
  <1>3a. CopySound(bc)'
    BY <1>0, <1>0a, <1>2, SoundStays, Rows DEF IInv, ExecInv, CopySound, Status
  <1>4. ExecInv(x)'
    <2>1. StateSound(st[x])'  BY <1>0, <1>0a, <1>2, States, SoundStays, SameOffset, BlankIsSound DEF ExecInv, TypeOK
    <2>2. CopySound(copy[x])'  BY <1>0, <1>0a, <1>2, SoundStays, Blank DEF ExecInv, CopySound, TypeOK
    <2>3. (pc[x] \notin {"idle", "dispatched", "count", "failing", "finish"} => st[x].offset # Fresh)'
      BY <1>0, <1>0a, States DEF ExecInv, TypeOK
    <2>4. (pc[x] = "completing" => st[x].offset = Total)'
      BY <1>0, <1>0a, States, ABTestAssumption DEF ExecInv, TypeOK, Fresh
    <2>5. (out[x] = "done" => Covered)'
      BY <1>0, <1>2, SoundStays DEF ExecInv, TypeOK
    <2> QED  BY <2>1, <2>2, <2>3, <2>4, <2>5 DEF ExecInv
  <1> QED  BY <1>1, <1>2, <1>2a, <1>3, <1>3a, <1>4, ExecStep

LEMMA RefreshInv ==
  ASSUME IInv, NEW x \in Executor, Refresh(x)
  PROVE  IInv'
  <1> USE DEF Refresh, Goto, Fault, userVars
  <1>0. TypeOK /\ ExecInv(x) /\ StateSound(task.cursor) /\ CopySound(bc)  BY DEF IInv
  <1>0a. /\ st[x] \in State /\ st[x].phase \in {"unset", "test", "winner"} /\ st[x].offset \in Fresh .. Total
         /\ copy[x] \in Broadcast /\ bc \in Broadcast /\ task.cursor \in State
    BY <1>0 DEF TypeOK, State, ABTask
  <1>2. Grows  BY QueueStays
  <1>1. TypeOK'
    <2>1. task' \in ABTask  BY <1>0, <1>0a, TaskStatements DEF TypeOK
    <2>2. bc' \in Broadcast /\ chosen' \subseteq Template  BY <1>0, <1>0a, Rows DEF TypeOK, Status, Broadcast
    <2>3. st' \in [Executor -> State]  BY <1>0, <1>0a, States, Blank DEF TypeOK
    <2>4. copy' \in [Executor -> Broadcast]  BY <1>0, <1>0a, Rows, Blank DEF TypeOK, Status
    <2>5. faults' \in Nat  BY <1>0 DEF TypeOK
    <2>6. pc' \in [Executor -> ExecPC] /\ out' \in [Executor -> {"done", "more", "error"}]
      BY <1>0 DEF TypeOK, ExecPC
    <2>7. tmpl' \in [Executor -> SUBSET Template]  BY <1>0, <1>0a DEF TypeOK, Broadcast
    <2>8. last' \in [Executor -> BOOLEAN]  BY <1>0 DEF TypeOK
    <2> QED  BY <1>0, <2>1, <2>2, <2>3, <2>4, <2>5, <2>6, <2>7, <2>8 DEF TypeOK
  <1>2a. Elsewhere(x)
    BY <1>0, <1>0a, States DEF Elsewhere, TypeOK
  <1>3. StateSound(task.cursor)' /\ (task.status = "completed" => Covered)'
    BY <1>0, <1>0a, <1>2, SoundStays, TaskStatements DEF IInv, ExecInv, TypeOK
  <1>3a. CopySound(bc)'
    BY <1>0, <1>0a, <1>2, SoundStays, Rows DEF IInv, ExecInv, CopySound, Status
  <1>4. ExecInv(x)'
    <2>1. StateSound(st[x])'  BY <1>0, <1>0a, <1>2, States, SoundStays, SameOffset, BlankIsSound DEF ExecInv, TypeOK
    <2>2. CopySound(copy[x])'  BY <1>0, <1>0a, <1>2, SoundStays, Blank DEF ExecInv, CopySound, TypeOK
    <2>3. (pc[x] \notin {"idle", "dispatched", "count", "failing", "finish"} => st[x].offset # Fresh)'
      BY <1>0, <1>0a, States DEF ExecInv, TypeOK
    <2>4. (pc[x] = "completing" => st[x].offset = Total)'
      BY <1>0, <1>0a, States, ABTestAssumption DEF ExecInv, TypeOK, Fresh
    <2>5. (out[x] = "done" => Covered)'
      BY <1>0, <1>2, SoundStays DEF ExecInv, TypeOK
    <2> QED  BY <2>1, <2>2, <2>3, <2>4, <2>5 DEF ExecInv
  <1> QED  BY <1>1, <1>2, <1>2a, <1>3, <1>3a, <1>4, ExecStep

LEMMA TestDoneInv ==
  ASSUME IInv, NEW x \in Executor, TestDone(x)
  PROVE  IInv'
  <1> USE DEF TestDone, Goto, Return, Fault, userVars
  <1>0. TypeOK /\ ExecInv(x) /\ StateSound(task.cursor) /\ CopySound(bc)  BY DEF IInv
  <1>0a. /\ st[x] \in State /\ st[x].phase \in {"unset", "test", "winner"} /\ st[x].offset \in Fresh .. Total
         /\ copy[x] \in Broadcast /\ bc \in Broadcast /\ task.cursor \in State
    BY <1>0 DEF TypeOK, State, ABTask
  <1>2. Grows  BY QueueStays
  <1>1. TypeOK'
    <2>1. task' \in ABTask  BY <1>0, <1>0a, TaskStatements DEF TypeOK
    <2>2. bc' \in Broadcast /\ chosen' \subseteq Template  BY <1>0, <1>0a, Rows DEF TypeOK, Status, Broadcast
    <2>3. st' \in [Executor -> State]  BY <1>0, <1>0a, States, Blank DEF TypeOK
    <2>4. copy' \in [Executor -> Broadcast]  BY <1>0, <1>0a, Rows, Blank DEF TypeOK, Status
    <2>5. faults' \in Nat  BY <1>0 DEF TypeOK
    <2>6. pc' \in [Executor -> ExecPC] /\ out' \in [Executor -> {"done", "more", "error"}]
      BY <1>0 DEF TypeOK, ExecPC
    <2>7. tmpl' \in [Executor -> SUBSET Template]  BY <1>0, <1>0a DEF TypeOK, Broadcast
    <2>8. last' \in [Executor -> BOOLEAN]  BY <1>0 DEF TypeOK
    <2> QED  BY <1>0, <2>1, <2>2, <2>3, <2>4, <2>5, <2>6, <2>7, <2>8 DEF TypeOK
  <1>2a. Elsewhere(x)
    BY <1>0, <1>0a, States DEF Elsewhere, TypeOK
  <1>3. StateSound(task.cursor)' /\ (task.status = "completed" => Covered)'
    BY <1>0, <1>0a, <1>2, SoundStays, TaskStatements DEF IInv, ExecInv, TypeOK
  <1>3a. CopySound(bc)'
    BY <1>0, <1>0a, <1>2, SoundStays, Rows DEF IInv, ExecInv, CopySound, Status
  <1>4. ExecInv(x)'
    <2>1. StateSound(st[x])'  BY <1>0, <1>0a, <1>2, States, SoundStays, SameOffset, BlankIsSound DEF ExecInv, TypeOK
    <2>2. CopySound(copy[x])'  BY <1>0, <1>0a, <1>2, SoundStays, Blank DEF ExecInv, CopySound, TypeOK
    <2>3. (pc[x] \notin {"idle", "dispatched", "count", "failing", "finish"} => st[x].offset # Fresh)'
      BY <1>0, <1>0a, States DEF ExecInv, TypeOK
    <2>4. (pc[x] = "completing" => st[x].offset = Total)'
      BY <1>0, <1>0a, States, ABTestAssumption DEF ExecInv, TypeOK, Fresh
    <2>5. (out[x] = "done" => Covered)'
      BY <1>0, <1>2, SoundStays DEF ExecInv, TypeOK
    <2> QED  BY <2>1, <2>2, <2>3, <2>4, <2>5 DEF ExecInv
  <1> QED  BY <1>1, <1>2, <1>2a, <1>3, <1>3a, <1>4, ExecStep

LEMMA SaveProgressInv ==
  ASSUME IInv, NEW x \in Executor, SaveProgress(x)
  PROVE  IInv'
  <1> USE DEF SaveProgress, Goto, Fault, userVars
  <1>0. TypeOK /\ ExecInv(x) /\ StateSound(task.cursor) /\ CopySound(bc)  BY DEF IInv
  <1>0a. /\ st[x] \in State /\ st[x].phase \in {"unset", "test", "winner"} /\ st[x].offset \in Fresh .. Total
         /\ copy[x] \in Broadcast /\ bc \in Broadcast /\ task.cursor \in State
    BY <1>0 DEF TypeOK, State, ABTask
  <1>2. Grows  BY QueueStays
  <1>1. TypeOK'
    <2>1. task' \in ABTask  BY <1>0, <1>0a, TaskStatements DEF TypeOK
    <2>2. bc' \in Broadcast /\ chosen' \subseteq Template  BY <1>0, <1>0a, Rows DEF TypeOK, Status, Broadcast
    <2>3. st' \in [Executor -> State]  BY <1>0, <1>0a, States, Blank DEF TypeOK
    <2>4. copy' \in [Executor -> Broadcast]  BY <1>0, <1>0a, Rows, Blank DEF TypeOK, Status
    <2>5. faults' \in Nat  BY <1>0 DEF TypeOK
    <2>6. pc' \in [Executor -> ExecPC] /\ out' \in [Executor -> {"done", "more", "error"}]
      BY <1>0 DEF TypeOK, ExecPC
    <2>7. tmpl' \in [Executor -> SUBSET Template]  BY <1>0, <1>0a DEF TypeOK, Broadcast
    <2>8. last' \in [Executor -> BOOLEAN]  BY <1>0 DEF TypeOK
    <2> QED  BY <1>0, <2>1, <2>2, <2>3, <2>4, <2>5, <2>6, <2>7, <2>8 DEF TypeOK
  <1>2a. Elsewhere(x)
    BY <1>0, <1>0a, States DEF Elsewhere, TypeOK
  <1>3. StateSound(task.cursor)' /\ (task.status = "completed" => Covered)'
    <2>1. task' = task \/ task' = SaveState(task, st[x])  OBVIOUS
    <2>2. task'.cursor \in {task.cursor, st[x]} /\ task'.status = task.status
      <3>1. task \in ABTask  BY <1>0 DEF TypeOK
      <3>2. SaveState(task, st[x]).cursor \in {task.cursor, st[x]} /\ SaveState(task, st[x]).status = task.status
        BY <3>1, <1>0a, TaskStatements
      <3> QED  BY <2>1, <3>2
    <2>3. StateSound(task'.cursor)  BY <1>0, <2>2 DEF ExecInv
    <2> QED  BY <1>2, <2>2, <2>3, SoundStays DEF IInv
  <1>3a. CopySound(bc)'
    BY <1>0, <1>0a, <1>2, SoundStays, Rows DEF IInv, ExecInv, CopySound, Status
  <1>4. ExecInv(x)'
    <2>1. StateSound(st[x])'  BY <1>0, <1>0a, <1>2, States, SoundStays, SameOffset, BlankIsSound DEF ExecInv, TypeOK
    <2>2. CopySound(copy[x])'  BY <1>0, <1>0a, <1>2, SoundStays, Blank DEF ExecInv, CopySound, TypeOK
    <2>3. (pc[x] \notin {"idle", "dispatched", "count", "failing", "finish"} => st[x].offset # Fresh)'
      BY <1>0, <1>0a, States DEF ExecInv, TypeOK
    <2>4. (pc[x] = "completing" => st[x].offset = Total)'
      BY <1>0, <1>0a, States, ABTestAssumption DEF ExecInv, TypeOK, Fresh
    <2>5. (out[x] = "done" => Covered)'
      BY <1>0, <1>2, SoundStays DEF ExecInv, TypeOK
    <2> QED  BY <2>1, <2>2, <2>3, <2>4, <2>5 DEF ExecInv
  <1> QED  BY <1>1, <1>2, <1>2a, <1>3, <1>3a, <1>4, ExecStep

LEMMA MarkTestCompletedInv ==
  ASSUME IInv, NEW x \in Executor, MarkTestCompleted(x)
  PROVE  IInv'
  <1> USE DEF MarkTestCompleted, Goto, Return, Fault, Updatable, userVars
  <1>0. TypeOK /\ ExecInv(x) /\ StateSound(task.cursor) /\ CopySound(bc)  BY DEF IInv
  <1>0a. /\ st[x] \in State /\ st[x].phase \in {"unset", "test", "winner"} /\ st[x].offset \in Fresh .. Total
         /\ copy[x] \in Broadcast /\ bc \in Broadcast /\ task.cursor \in State
    BY <1>0 DEF TypeOK, State, ABTask
  <1>0c. bc' = bc \/ bc' = TestSent(copy[x])  OBVIOUS
  <1>0d. bc' \in Broadcast /\ (bc' = bc \/ bc'.status # "processed")
    <2> HIDE DEF MarkTestCompleted
    <2> QED  BY <1>0a, <1>0c, Rows
  <1>2. Grows  BY QueueStays
  <1>1. TypeOK'
    <2>1. task' \in ABTask  BY <1>0, <1>0a, TaskStatements DEF TypeOK
    <2>2. bc' \in Broadcast /\ chosen' \subseteq Template  BY <1>0, <1>0d DEF TypeOK
    <2>3. st' \in [Executor -> State]  BY <1>0, <1>0a, States, Blank DEF TypeOK
    <2>4. copy' \in [Executor -> Broadcast]  BY <1>0, <1>0a, Rows, Blank DEF TypeOK, Status
    <2>5. faults' \in Nat  BY <1>0 DEF TypeOK
    <2>6. pc' \in [Executor -> ExecPC] /\ out' \in [Executor -> {"done", "more", "error"}]
      BY <1>0 DEF TypeOK, ExecPC
    <2>7. tmpl' \in [Executor -> SUBSET Template]  BY <1>0, <1>0a DEF TypeOK, Broadcast
    <2>8. last' \in [Executor -> BOOLEAN]  BY <1>0 DEF TypeOK
    <2> QED  BY <1>0, <2>1, <2>2, <2>3, <2>4, <2>5, <2>6, <2>7, <2>8 DEF TypeOK
  <1>2a. Elsewhere(x)
    BY <1>0, <1>0a, States DEF Elsewhere, TypeOK
  <1>3. StateSound(task.cursor)' /\ (task.status = "completed" => Covered)'
    BY <1>0, <1>0a, <1>2, SoundStays, TaskStatements DEF IInv, ExecInv, TypeOK
  <1>3a. CopySound(bc)'
    BY <1>0, <1>0d, <1>2, SoundStays DEF CopySound
  <1>4. ExecInv(x)'
    <2>1. StateSound(st[x])'  BY <1>0, <1>0a, <1>2, States, SoundStays, SameOffset, BlankIsSound DEF ExecInv, TypeOK
    <2>2. CopySound(copy[x])'  BY <1>0, <1>0a, <1>2, SoundStays, Blank DEF ExecInv, CopySound, TypeOK
    <2>3. (pc[x] \notin {"idle", "dispatched", "count", "failing", "finish"} => st[x].offset # Fresh)'
      BY <1>0, <1>0a, States DEF ExecInv, TypeOK
    <2>4. (pc[x] = "completing" => st[x].offset = Total)'
      BY <1>0, <1>0a, States, ABTestAssumption DEF ExecInv, TypeOK, Fresh
    <2>5. (out[x] = "done" => Covered)'
      BY <1>0, <1>2, SoundStays DEF ExecInv, TypeOK
    <2> QED  BY <2>1, <2>2, <2>3, <2>4, <2>5 DEF ExecInv
  <1> QED  BY <1>1, <1>2, <1>2a, <1>3, <1>3a, <1>4, ExecStep

LEMMA AllDoneInv ==
  ASSUME IInv, NEW x \in Executor, AllDone(x)
  PROVE  IInv'
  <1> USE DEF AllDone, Goto, userVars
  <1>0. TypeOK /\ ExecInv(x) /\ StateSound(task.cursor) /\ CopySound(bc)  BY DEF IInv
  <1>0a. /\ st[x] \in State /\ st[x].phase \in {"unset", "test", "winner"} /\ st[x].offset \in Fresh .. Total
         /\ copy[x] \in Broadcast /\ bc \in Broadcast /\ task.cursor \in State
    BY <1>0 DEF TypeOK, State, ABTask
  <1>0b. st[x].offset = Total
    <2>1. st[x].offset >= Total /\ Total \in Nat  BY ABTestAssumption
    <2>2. st[x].offset \in Fresh .. Total  BY <1>0a
    <2> HIDE DEF AllDone
    <2> QED  BY <2>1, <2>2 DEF Fresh
  <1>2. Grows  BY QueueStays
  <1>1. TypeOK'
    <2>1. task' \in ABTask  BY <1>0, <1>0a, TaskStatements DEF TypeOK
    <2>2. bc' \in Broadcast /\ chosen' \subseteq Template  BY <1>0, <1>0a, Rows DEF TypeOK, Status, Broadcast
    <2>3. st' \in [Executor -> State]  BY <1>0, <1>0a, States, Blank DEF TypeOK
    <2>4. copy' \in [Executor -> Broadcast]  BY <1>0, <1>0a, Rows, Blank DEF TypeOK, Status
    <2>5. faults' \in Nat  BY <1>0 DEF TypeOK
    <2>6. pc' \in [Executor -> ExecPC] /\ out' \in [Executor -> {"done", "more", "error"}]
      BY <1>0 DEF TypeOK, ExecPC
    <2>7. tmpl' \in [Executor -> SUBSET Template]  BY <1>0, <1>0a DEF TypeOK, Broadcast
    <2>8. last' \in [Executor -> BOOLEAN]  BY <1>0 DEF TypeOK
    <2> QED  BY <1>0, <2>1, <2>2, <2>3, <2>4, <2>5, <2>6, <2>7, <2>8 DEF TypeOK
  <1>2a. Elsewhere(x)
    BY <1>0, <1>0a, States DEF Elsewhere, TypeOK
  <1>3. StateSound(task.cursor)' /\ (task.status = "completed" => Covered)'
    BY <1>0, <1>0a, <1>2, SoundStays, TaskStatements DEF IInv, ExecInv, TypeOK
  <1>3a. CopySound(bc)'
    BY <1>0, <1>0a, <1>2, SoundStays, Rows DEF IInv, ExecInv, CopySound, Status
  <1>4. ExecInv(x)'
    <2>1. StateSound(st[x])'  BY <1>0, <1>0a, <1>2, States, SoundStays, SameOffset, BlankIsSound DEF ExecInv, TypeOK
    <2>2. CopySound(copy[x])'  BY <1>0, <1>0a, <1>2, SoundStays, Blank DEF ExecInv, CopySound, TypeOK
    <2>3. (pc[x] \notin {"idle", "dispatched", "count", "failing", "finish"} => st[x].offset # Fresh)'
      BY <1>0, <1>0a, States DEF ExecInv, TypeOK
    <2>4. (pc[x] = "completing" => st[x].offset = Total)'
      BY <1>0b
    <2>5. (out[x] = "done" => Covered)'
      BY <1>0, <1>2, SoundStays DEF ExecInv, TypeOK
    <2> QED  BY <2>1, <2>2, <2>3, <2>4, <2>5 DEF ExecInv
  <1> QED  BY <1>1, <1>2, <1>2a, <1>3, <1>3a, <1>4, ExecStep

LEMMA CompleteInv ==
  ASSUME IInv, NEW x \in Executor, Complete(x)
  PROVE  IInv'
  <1> USE DEF Complete, Goto, Return, Failing, Updatable, userVars
  <1>0. TypeOK /\ ExecInv(x) /\ StateSound(task.cursor) /\ CopySound(bc)  BY DEF IInv
  <1>0a. /\ st[x] \in State /\ st[x].phase \in {"unset", "test", "winner"} /\ st[x].offset \in Fresh .. Total
         /\ copy[x] \in Broadcast /\ bc \in Broadcast /\ task.cursor \in State
    BY <1>0 DEF TypeOK, State, ABTask
  <1>0b. Covered  BY <1>0, ABTestAssumption DEF ExecInv, StateSound, Covered, Recipient
  <1>0c. \/ bc' = bc
         \/ bc' = [copy[x] EXCEPT !.status = "processed"]
         \/ bc' = [copy[x] EXCEPT !.status = copy[x].status]
    OBVIOUS
  <1>0d. "processed" \in Status /\ copy[x].status \in Status  BY <1>0a DEF Broadcast, Status
  <1>0e. bc' \in Broadcast
    <2> HIDE DEF Complete
    <2>1. CASE bc' = bc  BY <1>0a, <2>1
    <2>2. CASE bc' = [copy[x] EXCEPT !.status = "processed"]  BY <1>0a, <1>0d, <2>2, Rows
    <2>3. CASE bc' = [copy[x] EXCEPT !.status = copy[x].status]  BY <1>0a, <1>0d, <2>3, Rows
    <2> QED  BY <1>0c, <2>1, <2>2, <2>3
  <1>2. Grows  BY QueueStays
  <1>1. TypeOK'
    <2>1. task' \in ABTask  BY <1>0, <1>0a, TaskStatements DEF TypeOK
    <2>2. bc' \in Broadcast /\ chosen' \subseteq Template  BY <1>0, <1>0e DEF TypeOK
    <2>3. st' \in [Executor -> State]  BY <1>0, <1>0a, States, Blank DEF TypeOK
    <2>4. copy' \in [Executor -> Broadcast]  BY <1>0, <1>0a, Rows, Blank DEF TypeOK, Status
    <2>5. faults' \in Nat  BY <1>0 DEF TypeOK
    <2>6. pc' \in [Executor -> ExecPC] /\ out' \in [Executor -> {"done", "more", "error"}]
      BY <1>0 DEF TypeOK, ExecPC
    <2>7. tmpl' \in [Executor -> SUBSET Template]  BY <1>0, <1>0a DEF TypeOK, Broadcast
    <2>8. last' \in [Executor -> BOOLEAN]  BY <1>0 DEF TypeOK
    <2> QED  BY <1>0, <2>1, <2>2, <2>3, <2>4, <2>5, <2>6, <2>7, <2>8 DEF TypeOK
  <1>2a. Elsewhere(x)
    BY <1>0, <1>0a, States DEF Elsewhere, TypeOK
  <1>3. StateSound(task.cursor)' /\ (task.status = "completed" => Covered)'
    BY <1>0, <1>0a, <1>2, SoundStays, TaskStatements DEF IInv, ExecInv, TypeOK
  <1>3a. CopySound(bc)'
    BY <1>0b, <1>2, SoundStays DEF CopySound
  <1>4. ExecInv(x)'
    <2>1. StateSound(st[x])'  BY <1>0, <1>0a, <1>2, States, SoundStays, SameOffset, BlankIsSound DEF ExecInv, TypeOK
    <2>2. CopySound(copy[x])'  BY <1>0, <1>0a, <1>2, SoundStays, Blank DEF ExecInv, CopySound, TypeOK
    <2>3. (pc[x] \notin {"idle", "dispatched", "count", "failing", "finish"} => st[x].offset # Fresh)'
      BY <1>0, <1>0a, States DEF ExecInv, TypeOK
    <2>4. (pc[x] = "completing" => st[x].offset = Total)'
      BY <1>0, <1>0a, States, ABTestAssumption DEF ExecInv, TypeOK, Fresh
    <2>5. (out[x] = "done" => Covered)'
      BY <1>0b, <1>2, SoundStays
    <2> QED  BY <2>1, <2>2, <2>3, <2>4, <2>5 DEF ExecInv
  <1> QED  BY <1>1, <1>2, <1>2a, <1>3, <1>3a, <1>4, ExecStep

LEMMA MarkBroadcastFailedInv ==
  ASSUME IInv, NEW x \in Executor, MarkBroadcastFailed(x)
  PROVE  IInv'
  <1> USE DEF MarkBroadcastFailed, Goto, Fault, Updatable, userVars
  <1>0. TypeOK /\ ExecInv(x) /\ StateSound(task.cursor) /\ CopySound(bc)  BY DEF IInv
  <1>0a. /\ st[x] \in State /\ st[x].phase \in {"unset", "test", "winner"} /\ st[x].offset \in Fresh .. Total
         /\ copy[x] \in Broadcast /\ bc \in Broadcast /\ task.cursor \in State
    BY <1>0 DEF TypeOK, State, ABTask
  <1>0c. \/ bc' = bc
         \/ bc' = [bc EXCEPT !.status = "failed"]
         \/ bc' = [bc EXCEPT !.status = bc.status]
    OBVIOUS
  <1>0d. "failed" \in Status /\ bc.status \in Status  BY <1>0a DEF Broadcast, Status
  <1>0e. bc' \in Broadcast /\ bc'.status \in {"failed", bc.status}
    <2> HIDE DEF MarkBroadcastFailed
    <2> QED  BY <1>0a, <1>0c, <1>0d, Rows
  <1>2. Grows  BY QueueStays
  <1>1. TypeOK'
    <2>1. task' \in ABTask  BY <1>0, <1>0a, TaskStatements DEF TypeOK
    <2>2. bc' \in Broadcast /\ chosen' \subseteq Template  BY <1>0, <1>0e DEF TypeOK
    <2>3. st' \in [Executor -> State]  BY <1>0, <1>0a, States, Blank DEF TypeOK
    <2>4. copy' \in [Executor -> Broadcast]  BY <1>0, <1>0a, Rows, Blank DEF TypeOK, Status
    <2>5. faults' \in Nat  BY <1>0 DEF TypeOK
    <2>6. pc' \in [Executor -> ExecPC] /\ out' \in [Executor -> {"done", "more", "error"}]
      BY <1>0 DEF TypeOK, ExecPC
    <2>7. tmpl' \in [Executor -> SUBSET Template]  BY <1>0, <1>0a DEF TypeOK, Broadcast
    <2>8. last' \in [Executor -> BOOLEAN]  BY <1>0 DEF TypeOK
    <2> QED  BY <1>0, <2>1, <2>2, <2>3, <2>4, <2>5, <2>6, <2>7, <2>8 DEF TypeOK
  <1>2a. Elsewhere(x)
    BY <1>0, <1>0a, States DEF Elsewhere, TypeOK
  <1>3. StateSound(task.cursor)' /\ (task.status = "completed" => Covered)'
    BY <1>0, <1>0a, <1>2, SoundStays, TaskStatements DEF IInv, ExecInv, TypeOK
  <1>3a. CopySound(bc)'
    BY <1>0, <1>0e, <1>2, SoundStays DEF CopySound
  <1>4. ExecInv(x)'
    <2>1. StateSound(st[x])'  BY <1>0, <1>0a, <1>2, States, SoundStays, SameOffset, BlankIsSound DEF ExecInv, TypeOK
    <2>2. CopySound(copy[x])'  BY <1>0, <1>0a, <1>2, SoundStays, Blank DEF ExecInv, CopySound, TypeOK
    <2>3. (pc[x] \notin {"idle", "dispatched", "count", "failing", "finish"} => st[x].offset # Fresh)'
      BY <1>0, <1>0a, States DEF ExecInv, TypeOK
    <2>4. (pc[x] = "completing" => st[x].offset = Total)'
      BY <1>0, <1>0a, States, ABTestAssumption DEF ExecInv, TypeOK, Fresh
    <2>5. (out[x] = "done" => Covered)'
      BY <1>0, <1>2, SoundStays DEF ExecInv, TypeOK
    <2> QED  BY <2>1, <2>2, <2>3, <2>4, <2>5 DEF ExecInv
  <1> QED  BY <1>1, <1>2, <1>2a, <1>3, <1>3a, <1>4, ExecStep

LEMMA ClaimInv ==
  ASSUME IInv, NEW x \in Executor, Claim(x)
  PROVE  IInv'
  <1>0. TypeOK /\ ExecInv(x) /\ StateSound(task.cursor) /\ CopySound(bc)  BY DEF IInv
  <1>1. task \in ABTask /\ task.cursor \in State /\ task.retries \in Nat  BY <1>0 DEF TypeOK, ABTask
  <1>2. Grows  BY QueueStays DEF Claim
  <1>3. CASE /\ task' = MarkAsRunning(task)
             /\ st' = [st EXCEPT ![x] = task.cursor]
             /\ last' = [last EXCEPT ![x] = task.retries >= MaxRetries - 1]
             /\ Goto(x, IF task.cursor.offset = Fresh THEN "count" ELSE "read")
             /\ UNCHANGED <<copy, tmpl, out, bc, sent, dropped, userVars, auto, picks, chosen, faults>>
    <2> USE <1>3 DEF Goto, userVars
    <2>1. TypeOK'
      <3>1. task' \in ABTask  BY <1>1, TaskStatements
      <3>2. st' \in [Executor -> State] /\ pc' \in [Executor -> ExecPC]  BY <1>0, <1>1 DEF TypeOK, ExecPC
      <3>3. (task.retries >= MaxRetries - 1) \in BOOLEAN  BY <1>1, MaxRetriesAssumption
      <3>4. last' \in [Executor -> BOOLEAN]  BY <1>0, <3>3, Zenon DEF TypeOK
      <3> QED  BY <1>0, <3>1, <3>2, <3>4 DEF TypeOK
    <2>2. Elsewhere(x)  BY <1>0 DEF Elsewhere, TypeOK
    <2>3. StateSound(task.cursor)' /\ (task.status = "completed" => Covered)' /\ CopySound(bc)'
      BY <1>0, <1>1, <1>2, SoundStays, TaskStatements
    <2>4. st'[x] = task.cursor /\ copy'[x] = copy[x] /\ out'[x] = out[x]
          /\ pc'[x] = IF task.cursor.offset = Fresh THEN "count" ELSE "read"
      BY <1>0 DEF TypeOK
    <2>5. ExecInv(x)'
      BY <1>0, <1>2, <2>4, SoundStays DEF ExecInv, StateSound, CopySound
    <2> QED  BY <1>2, <2>1, <2>2, <2>3, <2>5, ExecStep
  <1>4. CASE ExecutionEnds(x) /\ UNCHANGED <<task, bc, sent, dropped, userVars, auto, picks, chosen, faults>>
    <2> USE <1>4 DEF ExecutionEnds, userVars
    <2>1. TypeOK'  BY <1>0, Blank DEF TypeOK, ExecPC
    <2>2. Elsewhere(x)  BY <1>0 DEF Elsewhere, TypeOK
    <2>3. StateSound(task.cursor)' /\ (task.status = "completed" => Covered)' /\ CopySound(bc)'
      BY <1>0, <1>2, SoundStays DEF IInv
    <2>4. ExecInv(x)'  BY <1>0, Blank, BlankIsSound DEF ExecInv, CopySound, TypeOK
    <2> QED  BY <1>2, <2>1, <2>2, <2>3, <2>4, ExecStep
  <1> QED  BY <1>3, <1>4 DEF Claim

LEMMA DispatchInv ==
  ASSUME IInv, NEW x \in Executor, Dispatch(x)
  PROVE  IInv'
  <1> USE DEF Dispatch, Goto, userVars
  <1>0. TypeOK /\ ExecInv(x) /\ StateSound(task.cursor) /\ CopySound(bc)  BY DEF IInv
  <1>1. TypeOK'
    <2>1. task' \in ABTask  BY <1>0, TaskStatements DEF TypeOK
    <2>2. /\ st' \in [Executor -> State] /\ copy' \in [Executor -> Broadcast]
          /\ tmpl' \in [Executor -> SUBSET Template] /\ last' \in [Executor -> BOOLEAN]
      BY <1>0, Blank DEF TypeOK
    <2>3. faults' \in Nat  BY <1>0 DEF TypeOK
    <2>4. pc' \in [Executor -> ExecPC] /\ out' \in [Executor -> {"done", "more", "error"}]
      BY <1>0 DEF TypeOK, ExecPC
    <2> QED  BY <1>0, <2>1, <2>2, <2>3, <2>4 DEF TypeOK
  <1>2. Grows /\ Elsewhere(x)
    BY <1>0, QueueStays DEF Elsewhere, TypeOK
  <1>3. StateSound(task.cursor)' /\ (task.status = "completed" => Covered)' /\ CopySound(bc)'
    BY <1>0, <1>2, SoundStays, TaskStatements DEF IInv, ExecInv, TypeOK
  <1>4. ExecInv(x)'
    BY <1>0, <1>2, SoundStays, Blank, BlankIsSound DEF ExecInv, CopySound, TypeOK
  <1> QED  BY <1>1, <1>2, <1>3, <1>4, ExecStep

LEMMA ReadBroadcastInv ==
  ASSUME IInv, NEW x \in Executor, ReadBroadcast(x)
  PROVE  IInv'
  <1> USE DEF ReadBroadcast, Goto, userVars
  <1>0. TypeOK /\ ExecInv(x) /\ StateSound(task.cursor) /\ CopySound(bc)  BY DEF IInv
  <1>1. TypeOK'
    <2>1. task' \in ABTask  BY <1>0, TaskStatements DEF TypeOK
    <2>2. /\ st' \in [Executor -> State] /\ copy' \in [Executor -> Broadcast]
          /\ tmpl' \in [Executor -> SUBSET Template] /\ last' \in [Executor -> BOOLEAN]
      BY <1>0, Blank DEF TypeOK
    <2>3. faults' \in Nat  BY <1>0 DEF TypeOK
    <2>4. pc' \in [Executor -> ExecPC] /\ out' \in [Executor -> {"done", "more", "error"}]
      BY <1>0 DEF TypeOK, ExecPC
    <2> QED  BY <1>0, <2>1, <2>2, <2>3, <2>4 DEF TypeOK
  <1>2. Grows /\ Elsewhere(x)
    BY <1>0, QueueStays DEF Elsewhere, TypeOK
  <1>3. StateSound(task.cursor)' /\ (task.status = "completed" => Covered)' /\ CopySound(bc)'
    BY <1>0, <1>2, SoundStays, TaskStatements DEF IInv, ExecInv, TypeOK
  <1>4. ExecInv(x)'
    BY <1>0, <1>2, SoundStays, Blank, BlankIsSound DEF ExecInv, CopySound, TypeOK
  <1> QED  BY <1>1, <1>2, <1>3, <1>4, ExecStep

LEMMA EvaluateInv ==
  ASSUME IInv, NEW x \in Executor, Evaluate(x)
  PROVE  IInv'
  <1> USE DEF Evaluate, Goto, Fault, userVars
  <1>0. TypeOK /\ ExecInv(x) /\ StateSound(task.cursor) /\ CopySound(bc)  BY DEF IInv
  <1>1. TypeOK'
    <2>1. task' \in ABTask  BY <1>0, TaskStatements DEF TypeOK
    <2>2. /\ st' \in [Executor -> State] /\ copy' \in [Executor -> Broadcast]
          /\ tmpl' \in [Executor -> SUBSET Template] /\ last' \in [Executor -> BOOLEAN]
      BY <1>0, Blank DEF TypeOK
    <2>3. faults' \in Nat  BY <1>0 DEF TypeOK
    <2>4. pc' \in [Executor -> ExecPC] /\ out' \in [Executor -> {"done", "more", "error"}]
      BY <1>0 DEF TypeOK, ExecPC
    <2> QED  BY <1>0, <2>1, <2>2, <2>3, <2>4 DEF TypeOK
  <1>2. Grows /\ Elsewhere(x)
    BY <1>0, QueueStays DEF Elsewhere, TypeOK
  <1>3. StateSound(task.cursor)' /\ (task.status = "completed" => Covered)' /\ CopySound(bc)'
    BY <1>0, <1>2, SoundStays, TaskStatements DEF IInv, ExecInv, TypeOK
  <1>4. ExecInv(x)'
    BY <1>0, <1>2, SoundStays, Blank, BlankIsSound DEF ExecInv, CopySound, TypeOK
  <1> QED  BY <1>1, <1>2, <1>3, <1>4, ExecStep

LEMMA RereadInv ==
  ASSUME IInv, NEW x \in Executor, Reread(x)
  PROVE  IInv'
  <1> USE DEF Reread, Goto, userVars
  <1>0. TypeOK /\ ExecInv(x) /\ StateSound(task.cursor) /\ CopySound(bc)  BY DEF IInv
  <1>1. TypeOK'
    <2>1. task' \in ABTask  BY <1>0, TaskStatements DEF TypeOK
    <2>2. /\ st' \in [Executor -> State] /\ copy' \in [Executor -> Broadcast]
          /\ tmpl' \in [Executor -> SUBSET Template] /\ last' \in [Executor -> BOOLEAN]
      BY <1>0, Blank DEF TypeOK
    <2>3. faults' \in Nat  BY <1>0 DEF TypeOK
    <2>4. pc' \in [Executor -> ExecPC] /\ out' \in [Executor -> {"done", "more", "error"}]
      BY <1>0 DEF TypeOK, ExecPC
    <2> QED  BY <1>0, <2>1, <2>2, <2>3, <2>4 DEF TypeOK
  <1>2. Grows /\ Elsewhere(x)
    BY <1>0, QueueStays DEF Elsewhere, TypeOK
  <1>3. StateSound(task.cursor)' /\ (task.status = "completed" => Covered)' /\ CopySound(bc)'
    BY <1>0, <1>2, SoundStays, TaskStatements DEF IInv, ExecInv, TypeOK
  <1>4. ExecInv(x)'
    BY <1>0, <1>2, SoundStays, Blank, BlankIsSound DEF ExecInv, CopySound, TypeOK
  <1> QED  BY <1>1, <1>2, <1>3, <1>4, ExecStep

LEMMA YieldInv ==
  ASSUME IInv, NEW x \in Executor, Yield(x)
  PROVE  IInv'
  <1> USE DEF Yield, Goto, Return, userVars
  <1>0. TypeOK /\ ExecInv(x) /\ StateSound(task.cursor) /\ CopySound(bc)  BY DEF IInv
  <1>1. TypeOK'
    <2>1. task' \in ABTask  BY <1>0, TaskStatements DEF TypeOK
    <2>2. /\ st' \in [Executor -> State] /\ copy' \in [Executor -> Broadcast]
          /\ tmpl' \in [Executor -> SUBSET Template] /\ last' \in [Executor -> BOOLEAN]
      BY <1>0, Blank DEF TypeOK
    <2>3. faults' \in Nat  BY <1>0 DEF TypeOK
    <2>4. pc' \in [Executor -> ExecPC] /\ out' \in [Executor -> {"done", "more", "error"}]
      BY <1>0 DEF TypeOK, ExecPC
    <2> QED  BY <1>0, <2>1, <2>2, <2>3, <2>4 DEF TypeOK
  <1>2. Grows /\ Elsewhere(x)
    BY <1>0, QueueStays DEF Elsewhere, TypeOK
  <1>3. StateSound(task.cursor)' /\ (task.status = "completed" => Covered)' /\ CopySound(bc)'
    BY <1>0, <1>2, SoundStays, TaskStatements DEF IInv, ExecInv, TypeOK
  <1>4. ExecInv(x)'
    BY <1>0, <1>2, SoundStays, Blank, BlankIsSound DEF ExecInv, CopySound, TypeOK
  <1> QED  BY <1>1, <1>2, <1>3, <1>4, ExecStep

LEMMA ProcessFailsInv ==
  ASSUME IInv, NEW x \in Executor, ProcessFails(x)
  PROVE  IInv'
  <1> USE DEF ProcessFails, Goto, Failing, Fault, userVars
  <1>0. TypeOK /\ ExecInv(x) /\ StateSound(task.cursor) /\ CopySound(bc)  BY DEF IInv
  <1>1. TypeOK'
    <2>1. task' \in ABTask  BY <1>0, TaskStatements DEF TypeOK
    <2>2. /\ st' \in [Executor -> State] /\ copy' \in [Executor -> Broadcast]
          /\ tmpl' \in [Executor -> SUBSET Template] /\ last' \in [Executor -> BOOLEAN]
      BY <1>0, Blank DEF TypeOK
    <2>3. faults' \in Nat  BY <1>0 DEF TypeOK
    <2>4. pc' \in [Executor -> ExecPC] /\ out' \in [Executor -> {"done", "more", "error"}]
      BY <1>0 DEF TypeOK, ExecPC
    <2> QED  BY <1>0, <2>1, <2>2, <2>3, <2>4 DEF TypeOK
  <1>2. Grows /\ Elsewhere(x)
    BY <1>0, QueueStays DEF Elsewhere, TypeOK
  <1>3. StateSound(task.cursor)' /\ (task.status = "completed" => Covered)' /\ CopySound(bc)'
    BY <1>0, <1>2, SoundStays, TaskStatements DEF IInv, ExecInv, TypeOK
  <1>4. ExecInv(x)'
    BY <1>0, <1>2, SoundStays, Blank, BlankIsSound DEF ExecInv, CopySound, TypeOK
  <1> QED  BY <1>1, <1>2, <1>3, <1>4, ExecStep

LEMMA FinishInv ==
  ASSUME IInv, NEW x \in Executor, Finish(x)
  PROVE  IInv'
  <1> USE DEF Finish, ExecutionEnds, userVars
  <1>0. TypeOK /\ ExecInv(x) /\ StateSound(task.cursor) /\ CopySound(bc)  BY DEF IInv
  <1>1. TypeOK'
    <2>1. task' \in ABTask  BY <1>0, TaskStatements DEF TypeOK
    <2>2. /\ st' \in [Executor -> State] /\ copy' \in [Executor -> Broadcast]
          /\ tmpl' \in [Executor -> SUBSET Template] /\ last' \in [Executor -> BOOLEAN]
      BY <1>0, Blank DEF TypeOK
    <2>3. faults' \in Nat  BY <1>0 DEF TypeOK
    <2>4. pc' \in [Executor -> ExecPC] /\ out' \in [Executor -> {"done", "more", "error"}]
      BY <1>0 DEF TypeOK, ExecPC
    <2> QED  BY <1>0, <2>1, <2>2, <2>3, <2>4 DEF TypeOK
  <1>2. Grows /\ Elsewhere(x)
    BY <1>0, QueueStays DEF Elsewhere, TypeOK
  <1>3. StateSound(task.cursor)' /\ (task.status = "completed" => Covered)' /\ CopySound(bc)'
    BY <1>0, <1>2, SoundStays, TaskStatements DEF IInv, ExecInv, TypeOK
  <1>4. ExecInv(x)'
    BY <1>0, <1>2, SoundStays, Blank, BlankIsSound DEF ExecInv, CopySound, TypeOK
  <1> QED  BY <1>1, <1>2, <1>3, <1>4, ExecStep

LEMMA CrashInv ==
  ASSUME IInv, NEW x \in Executor, Crash(x)
  PROVE  IInv'
  <1> USE DEF Crash, ExecutionEnds, Fault, userVars
  <1>0. TypeOK /\ ExecInv(x) /\ StateSound(task.cursor) /\ CopySound(bc)  BY DEF IInv
  <1>1. TypeOK'
    <2>1. task' \in ABTask  BY <1>0, TaskStatements DEF TypeOK
    <2>2. /\ st' \in [Executor -> State] /\ copy' \in [Executor -> Broadcast]
          /\ tmpl' \in [Executor -> SUBSET Template] /\ last' \in [Executor -> BOOLEAN]
      BY <1>0, Blank DEF TypeOK
    <2>3. faults' \in Nat  BY <1>0 DEF TypeOK
    <2>4. pc' \in [Executor -> ExecPC] /\ out' \in [Executor -> {"done", "more", "error"}]
      BY <1>0 DEF TypeOK, ExecPC
    <2> QED  BY <1>0, <2>1, <2>2, <2>3, <2>4 DEF TypeOK
  <1>2. Grows /\ Elsewhere(x)
    BY <1>0, QueueStays DEF Elsewhere, TypeOK
  <1>3. StateSound(task.cursor)' /\ (task.status = "completed" => Covered)' /\ CopySound(bc)'
    BY <1>0, <1>2, SoundStays, TaskStatements DEF IInv, ExecInv, TypeOK
  <1>4. ExecInv(x)'
    BY <1>0, <1>2, SoundStays, Blank, BlankIsSound DEF ExecInv, CopySound, TypeOK
  <1> QED  BY <1>1, <1>2, <1>3, <1>4, ExecStep

\* A batch that was enqueued or counted as failed is behind the new offset.
LEMMA BatchInv ==
  ASSUME IInv, NEW x \in Executor, SendBatch(x) \/ SendBatchFails(x)
  PROVE  IInv'
  <1>0. TypeOK /\ ExecInv(x) /\ StateSound(task.cursor) /\ CopySound(bc)  BY DEF IInv
  <1>1. pc[x] = "ready" /\ st[x].offset < Limit(x)  BY DEF SendBatch, SendBatchFails
  <1>2. st[x] \in State /\ st[x].offset \in Nat /\ Limit(x) \in 1 .. Total /\ Total \in Nat /\ BatchSize \in Nat
    <2>1. st[x] \in State /\ st[x].offset \in Fresh .. Total  BY <1>0 DEF TypeOK, State
    <2>2. st[x].offset # Fresh  BY <1>0, <1>1 DEF ExecInv
    <2>3. Limit(x) \in 1 .. Total /\ Total \in Nat  BY SampleInAudience, ABTestAssumption DEF Limit
    <2> QED  BY <2>1, <2>2, <2>3, ABTestAssumption DEF Fresh
  <1>3. /\ NextBatch(x) \subseteq Recipient
        /\ \A end \in NextBatch(x) : end \in st[x].offset + 1 .. Total
        /\ \A end \in NextBatch(x) : \A r \in st[x].offset + 1 .. end : r \in NextBatch(x)
    BY <1>1, <1>2 DEF NextBatch, Recipient
  <1>4. PICK end \in {st[x].offset} \cup NextBatch(x) :
          /\ SetOffset(x, end)
          /\ Grows
          /\ sent' \in [Recipient -> SUBSET Template] /\ dropped' \subseteq Recipient
          /\ \A r \in Recipient : r \in st[x].offset + 1 .. end => Handled(r)'
    <2>1. CASE SendBatch(x)
      <3>0. PICK end \in {st[x].offset} \cup NextBatch(x) :
              /\ \E pick \in [st[x].offset + 1 .. end -> tmpl[x]] :
                   sent' = [r \in Recipient |-> IF r \in st[x].offset + 1 .. end THEN sent[r] \cup {pick[r]} ELSE sent[r]]
              /\ SetOffset(x, end)
              /\ dropped' = dropped
        BY <2>1 DEF SendBatch
      <3>1. PICK pick \in [st[x].offset + 1 .. end -> tmpl[x]] :
              sent' = [r \in Recipient |-> IF r \in st[x].offset + 1 .. end THEN sent[r] \cup {pick[r]} ELSE sent[r]]
        BY <3>0
      <3>2. \A r \in st[x].offset + 1 .. end : pick[r] \in Template
        BY <1>0 DEF TypeOK
      <3>3. sent' \in [Recipient -> SUBSET Template]  BY <1>0, <3>1, <3>2 DEF TypeOK
      <3>4. Grows  BY <3>0, <3>1 DEF Grows
      <3>5. \A r \in Recipient : r \in st[x].offset + 1 .. end => Handled(r)'
        BY <3>1 DEF Handled
      <3> QED  BY <1>0, <3>0, <3>3, <3>4, <3>5 DEF TypeOK
    <2>2. CASE SendBatchFails(x)
      <3>1. PICK end \in NextBatch(x) : SetOffset(x, end) /\ dropped' = dropped \cup NextBatch(x) /\ sent' = sent
        BY <2>2 DEF SendBatchFails
      <3>2. Grows /\ dropped' \subseteq Recipient  BY <1>0, <1>3, <3>1 DEF Grows, TypeOK
      <3>3. \A r \in Recipient : r \in st[x].offset + 1 .. end => Handled(r)'
        BY <1>3, <3>1 DEF Handled
      <3> QED  BY <1>0, <3>1, <3>2, <3>3 DEF TypeOK
    <2> QED  BY <2>1, <2>2
  <1>5. end \in Fresh .. Total /\ end \in Nat
    <2>1. st[x].offset \in Fresh .. Total  BY <1>2 DEF State
    <2>2. CASE end = st[x].offset  BY <1>2, <2>1, <2>2
    <2>3. CASE end \in NextBatch(x)
      <3>1. end \in st[x].offset + 1 .. Total  BY <1>3, <2>3
      <3> QED  BY <1>2, <3>1 DEF Fresh
    <2> QED  BY <1>4, <2>2, <2>3
  <1>6. /\ st' \in [Executor -> State] /\ st'[x].offset = end
        /\ \A y \in Executor \ {x} : st'[y] = st[y]
    BY <1>0, <1>4, <1>5, States
  <1>7. /\ UNCHANGED <<auto, bc, task, copy, tmpl, out, last, userVars, picks, chosen>>
        /\ pc' = [pc EXCEPT ![x] = "sent"]
        /\ faults' \in Nat
    BY <1>0 DEF SendBatch, SendBatchFails, Goto, Fault, TypeOK
  <1>8. TypeOK'
    BY <1>0, <1>4, <1>6, <1>7 DEF TypeOK, ExecPC, userVars
  <1>9. Elsewhere(x)  BY <1>0, <1>6, <1>7 DEF Elsewhere, TypeOK
  <1>10. StateSound(task.cursor)' /\ (task.status = "completed" => Covered)' /\ CopySound(bc)'
    BY <1>0, <1>4, <1>7, SoundStays DEF IInv
  <1>11. StateSound(st[x])'
    <2>1. ASSUME NEW r \in Recipient, r <= end  PROVE Handled(r)'
      <3>1. CASE r <= st[x].offset
        <4>1. Handled(r)  BY <1>0, <3>1 DEF ExecInv, StateSound
        <4> QED  BY <1>4, <4>1 DEF Grows, Handled
      <3>2. CASE ~(r <= st[x].offset)
        <4>1. r \in st[x].offset + 1 .. end  BY <1>2, <1>5, <2>1, <3>2 DEF Recipient
        <4> QED  BY <1>4, <4>1
      <3> QED  BY <3>1, <3>2
    <2> QED  BY <1>6, <2>1 DEF StateSound
  <1>12. ExecInv(x)'
    <2>1. pc'[x] = "sent" /\ copy'[x] = copy[x] /\ out'[x] = out[x]  BY <1>0, <1>7 DEF TypeOK
    <2>2. st'[x].offset # Fresh  BY <1>5, <1>6 DEF Fresh
    <2> QED  BY <1>0, <1>4, <1>11, <2>1, <2>2, SoundStays DEF ExecInv, CopySound
  <1> QED  BY <1>4, <1>7, <1>8, <1>9, <1>10, <1>12, ExecStep DEF userVars

-----------------------------------------------------------------------------
(* SelectWinner calls and time.                                            *)

\* A step that leaves the executions alone keeps the invariant when it keeps
\* the calls' part and the rows'.
LEMMA CallStepInv ==
  ASSUME IInv, UNCHANGED <<sent, dropped, execVars>>,
         TypeOK', StateSound(task.cursor), task'.status = "completed" => Covered,
         StateSound(task'.cursor), CopySound(bc'),
         \A u \in User : /\ StateSound(usnap'[u].cursor) /\ CopySound(ucopy'[u])
                         /\ upc'[u] # "idle" => upick'[u] \in Template
  PROVE  IInv'
  <1>1. Grows  BY QueueStays
  <1>2. ASSUME NEW y \in Executor PROVE ExecInv(y)'
    BY <1>1, SoundStays DEF IInv, ExecInv, execVars, CopySound, StateSound
  <1>3. ASSUME NEW u \in User PROVE UserInv(u)'
    BY <1>1, SoundStays DEF UserInv
  <1> QED  BY <1>1, <1>2, <1>3, SoundStays DEF IInv

LEMMA CallsInv ==
  ASSUME IInv, NEW u \in User,
         \/ \E t \in Template : SelectWinner(u, t)
         \/ LockBroadcast(u) \/ ResumeTask(u) \/ CommitWinner(u) \/ Rollback(u)
  PROVE  IInv'
  <1>0. /\ TypeOK /\ StateSound(task.cursor) /\ CopySound(bc)
        /\ \A v \in User : /\ StateSound(usnap[v].cursor) /\ CopySound(ucopy[v])
                           /\ upc[v] # "idle" => upick[v] \in Template
        /\ task.status = "completed" => Covered
    BY DEF IInv, UserInv
  <1>1. /\ usnap[u] \in ABTask /\ ucopy[u] \in Broadcast /\ upick[u] \in Template \cup {None}
        /\ task \in ABTask /\ bc \in Broadcast
    BY <1>0 DEF TypeOK
  <1>2. CopySound(Started) /\ StateSound(NewTask.cursor)  BY Blank, BlankIsSound DEF CopySound
  <1>3. ASSUME NEW t \in Template, SelectWinner(u, t) PROVE IInv'
    <2> USE <1>3 DEF SelectWinner
    <2>1. TypeOK'  BY <1>0, <1>1 DEF TypeOK, execVars
    <2>2. \A v \in User : /\ StateSound(usnap'[v].cursor) /\ CopySound(ucopy'[v])
                          /\ upc'[v] # "idle" => upick'[v] \in Template
      BY <1>0 DEF TypeOK
    <2> QED  BY <1>0, <2>1, <2>2, CallStepInv DEF execVars
  <1>4. CASE LockBroadcast(u)
    <2> USE <1>4 DEF LockBroadcast, CallEnds, Fault
    <2>1. TypeOK'
      <3>1. upc' \in [User -> {"idle", "chosen", "locked", "handled"}]  BY <1>0 DEF TypeOK
      <3>2. usnap' \in [User -> ABTask] /\ ucopy' \in [User -> Broadcast]  BY <1>0, <1>1, Blank DEF TypeOK
      <3>3. upick' \in [User -> Template \cup {None}]  BY <1>0 DEF TypeOK
      <3>4. faults' \in Nat  BY <1>0 DEF TypeOK
      <3> QED  BY <1>0, <3>1, <3>2, <3>3, <3>4 DEF TypeOK, execVars
    <2>2. \A v \in User : /\ usnap'[v] \in {usnap[v], task, NewTask}
                          /\ ucopy'[v] \in {ucopy[v], Started}
                          /\ upc'[v] = "idle" \/ (upc[v] # "idle" /\ upick'[v] = upick[v])
      BY <1>0 DEF TypeOK
    <2>3. \A v \in User : /\ StateSound(usnap'[v].cursor) /\ CopySound(ucopy'[v])
                          /\ upc'[v] # "idle" => upick'[v] \in Template
      BY <1>0, <1>2, <2>2
    <2>4. task' = task /\ bc' = bc /\ UNCHANGED <<sent, dropped, execVars>>  BY DEF execVars
    <2> HIDE DEF LockBroadcast, CallEnds, Fault
    <2>5. StateSound(task'.cursor) /\ CopySound(bc')  BY <1>0, <2>4
    <2>6. StateSound(task.cursor) /\ (task'.status = "completed" => Covered)  BY <1>0, <2>4
    <2> QED  BY <2>1, <2>3, <2>4, <2>5, <2>6, CallStepInv
  <1>5. CASE ResumeTask(u)
    <2> USE <1>5 DEF ResumeTask
    <2>1. task' = task \/ task' = [usnap[u] EXCEPT !.status = "pending", !.next = "due"]
      BY DEF Update
    <2>2. task' \in ABTask /\ task'.cursor \in {task.cursor, usnap[u].cursor}
          /\ (task'.status = "completed" => task.status = "completed")
      <3>1. [usnap[u] EXCEPT !.status = "pending", !.next = "due"] \in ABTask
            /\ [usnap[u] EXCEPT !.status = "pending", !.next = "due"].cursor = usnap[u].cursor
            /\ [usnap[u] EXCEPT !.status = "pending", !.next = "due"].status = "pending"
        BY <1>1 DEF ABTask, TaskStatus
      <3> QED  BY <1>1, <2>1, <3>1
    <2>3. TypeOK'  BY <1>0, <2>2 DEF TypeOK, execVars
    <2>4. \A v \in User : upc'[v] # "idle" => upick'[v] \in Template  BY <1>0 DEF TypeOK
    <2> QED  BY <1>0, <2>2, <2>3, <2>4, CallStepInv DEF execVars
  <1>6. CASE CommitWinner(u)
    <2> USE <1>6 DEF CommitWinner, CallEnds
    <2>1. bc' \in Broadcast /\ CopySound(bc')  BY <1>1, Rows DEF CopySound
    <2>2. TypeOK'
      <3>1. upc' \in [User -> {"idle", "chosen", "locked", "handled"}]  BY <1>0 DEF TypeOK
      <3>2. usnap' \in [User -> ABTask] /\ ucopy' \in [User -> Broadcast]  BY <1>0, Blank DEF TypeOK
      <3>3. upick' \in [User -> Template \cup {None}]  BY <1>0 DEF TypeOK
      <3>4. chosen' \subseteq Template  BY <1>0 DEF TypeOK
      <3> QED  BY <1>0, <2>1, <3>1, <3>2, <3>3, <3>4 DEF TypeOK, execVars
    <2>3. \A v \in User : /\ StateSound(usnap'[v].cursor) /\ CopySound(ucopy'[v])
                          /\ upc'[v] # "idle" => upick'[v] \in Template
      BY <1>0, <1>2 DEF TypeOK
    <2>4. task' = task /\ UNCHANGED <<sent, dropped, execVars>>  BY DEF execVars
    <2> HIDE DEF CommitWinner, CallEnds
    <2>5. StateSound(task'.cursor)  BY <1>0, <2>4
    <2>6. StateSound(task.cursor) /\ (task'.status = "completed" => Covered)  BY <1>0, <2>4
    <2> QED  BY <2>1, <2>2, <2>3, <2>4, <2>5, <2>6, CallStepInv
  <1>7. CASE Rollback(u)
    <2> USE <1>7 DEF Rollback, CallEnds, Fault
    <2>1. TypeOK'  BY <1>0, Blank DEF TypeOK, execVars
    <2>2. \A v \in User : /\ StateSound(usnap'[v].cursor) /\ CopySound(ucopy'[v])
                          /\ upc'[v] # "idle" => upick'[v] \in Template
      BY <1>0, <1>2 DEF TypeOK
    <2>3. task' = task /\ bc' = bc /\ UNCHANGED <<sent, dropped, execVars>>  BY DEF execVars
    <2> HIDE DEF Rollback, CallEnds, Fault
    <2>4. StateSound(task'.cursor) /\ CopySound(bc')  BY <1>0, <2>3
    <2>5. StateSound(task.cursor) /\ (task'.status = "completed" => Covered)  BY <1>0, <2>3
    <2> QED  BY <2>1, <2>2, <2>3, <2>4, <2>5, CallStepInv
  <1> QED  BY <1>3, <1>4, <1>5, <1>6, <1>7

LEMMA TimeInv ==
  ASSUME IInv, NextRunComes \/ TimeoutPasses \/ TestRipens
  PROVE  IInv'
  <1>0. TypeOK /\ StateSound(task.cursor)  BY DEF IInv
  <1>1. CASE NextRunComes \/ TimeoutPasses
    <2> USE <1>1 DEF NextRunComes, TimeoutPasses
    <2>1. task' \in ABTask /\ task'.cursor = task.cursor /\ task'.status = task.status
      BY <1>0 DEF TypeOK, ABTask
    <2>2. UNCHANGED <<auto, bc, sent, dropped, execVars, userVars, picks, chosen, faults>>  OBVIOUS
    <2> HIDE DEF NextRunComes, TimeoutPasses
    <2>3. TypeOK'  BY <1>0, <2>1, <2>2 DEF TypeOK, execVars, userVars
    <2> QED  BY <1>0, <2>1, <2>2, <2>3, CallStepInv DEF IInv, UserInv, userVars
  <1>2. CASE TestRipens
    <2> DEFINE Older(c) == [c EXCEPT !.sentAt = IF @ = "recent" THEN "ripe" ELSE @]
    <2>1. /\ bc' = Older(bc)
          /\ copy' = [x \in Executor |-> Older(copy[x])]
          /\ ucopy' = [u \in User |-> Older(ucopy[u])]
          /\ UNCHANGED <<auto, task, sent, dropped, pc, st, tmpl, out, last, upc, usnap, upick, picks, chosen, faults>>
      BY <1>2 DEF TestRipens
    <2>2. ASSUME NEW c \in Broadcast  PROVE Older(c) \in Broadcast /\ Older(c).status = c.status
      BY DEF Broadcast
    <2> HIDE DEF Older
    <2>3. TypeOK'
      <3>1. bc' \in Broadcast  BY <1>0, <2>1, <2>2 DEF TypeOK
      <3>2. copy' \in [Executor -> Broadcast]  BY <1>0, <2>1, <2>2 DEF TypeOK
      <3>3. ucopy' \in [User -> Broadcast]  BY <1>0, <2>1, <2>2 DEF TypeOK
      <3> QED  BY <1>0, <2>1, <3>1, <3>2, <3>3 DEF TypeOK
    <2>4. Grows  BY <2>1, QueueStays
    <2>5. bc'.status = bc.status  BY <1>0, <2>1, <2>2 DEF TypeOK
    <2>6. ASSUME NEW x \in Executor  PROVE ExecInv(x)'
      <3>1. copy'[x].status = copy[x].status  BY <1>0, <2>1, <2>2 DEF TypeOK
      <3> QED  BY <2>1, <2>4, <3>1, SoundStays DEF IInv, ExecInv, CopySound, StateSound
    <2>7. ASSUME NEW u \in User  PROVE UserInv(u)'
      <3>1. ucopy'[u].status = ucopy[u].status  BY <1>0, <2>1, <2>2 DEF TypeOK
      <3> QED  BY <2>1, <2>4, <3>1, SoundStays DEF IInv, UserInv, CopySound, StateSound
    <2> QED  BY <2>1, <2>3, <2>4, <2>5, <2>6, <2>7, SoundStays DEF IInv, CopySound, StateSound
  <1> QED  BY <1>1, <1>2

-----------------------------------------------------------------------------
LEMMA StutterInv ==
  ASSUME IInv, UNCHANGED vars
  PROVE  IInv'
  <1> USE DEF vars, execVars, userVars
  <1>1. TypeOK'  BY DEF IInv, TypeOK
  <1>2. Grows  BY QueueStays
  <1>3. ASSUME NEW x \in Executor  PROVE ExecInv(x)'
    BY <1>2, SoundStays DEF IInv, ExecInv, CopySound, StateSound
  <1>4. ASSUME NEW u \in User  PROVE UserInv(u)'
    BY <1>2, SoundStays DEF IInv, UserInv, CopySound, StateSound
  <1> QED  BY <1>1, <1>2, <1>3, <1>4, SoundStays DEF IInv, CopySound, StateSound

\* Every step of Process, ExecuteTask and SelectWinner preserves the
\* invariant: one lemma for each action.
LEMMA NextIInv == IInv /\ [Next]_vars => IInv'
  <1> SUFFICES ASSUME IInv, [Next]_vars PROVE IInv'  OBVIOUS
  <1>1. ASSUME NEW x \in Executor, Dispatch(x) \/ Progress(x) \/ Mishap(x)  PROVE IInv'
    BY <1>1, DispatchInv, ClaimInv, CountInv, ReadBroadcastInv, EvaluateInv, ElectInv, RereadInv,
       BeginTestInv, BeginInv, LoadTemplatesInv, RefreshInv, YieldInv, BatchInv, SaveProgressInv,
       TestDoneInv, MarkTestCompletedInv, AllDoneInv, CompleteInv, MarkBroadcastFailedInv, FinishInv,
       ProcessFailsInv, CrashInv
    DEF Progress, Mishap
  <1>2. ASSUME NEW u \in User,
               (\E t \in Template : SelectWinner(u, t)) \/ CallStep(u) \/ Rollback(u)
        PROVE  IInv'
    BY <1>2, CallsInv DEF CallStep
  <1>3. CASE NextRunComes \/ TimeoutPasses \/ TestRipens  BY <1>3, TimeInv
  <1>4. CASE UNCHANGED vars  BY <1>4, StutterInv
  <1> QED  BY <1>1, <1>2, <1>3, <1>4 DEF Next

\* The invariant holds in every reachable state.
THEOREM Invariance == Spec => []IInv
  <1>1. Init => IInv  BY InitIInv
  <1>2. IInv /\ [Next]_vars => IInv'  BY NextIInv
  <1> QED  BY <1>1, <1>2, PTL DEF Spec

\* Nobody is forgotten: a processed A/B broadcast, or a completed task, has
\* every recipient enqueued or counted as failed (the offset of Process, what
\* SaveProgressState stores and what SelectWinner writes back never run ahead
\* of the queue, and the winner phase starts where the test phase stopped).
THEOREM EverybodyReached == Spec => []NobodyForgotten
  <1>1. IInv => NobodyForgotten  BY DEF IInv, CopySound, Covered, NobodyForgotten
  <1> QED  BY <1>1, Invariance, PTL

-----------------------------------------------------------------------------
(* The winner of an undisturbed automatic test.                            *)

\* Nobody selects a winner by hand and nothing fails.
Quiet == auto /\ picks = 0 /\ faults = 0

\* A task state that is up to date with the broadcast: it leaves the test
\* phase in the execution that stores the winner.
PhaseInv(s) ==
  \/ /\ chosen = {} /\ bc.winner = None
     /\ \/ s.phase = "unset" /\ s.offset <= 0 /\ bc.status = "processing"
        \/ s.phase = "test" /\ s.offset <= Sample /\ bc.status \in {"testing", "test_completed"}
  \/ /\ chosen = {bc.winner} /\ bc.winner # None /\ s.phase = "winner"
     /\ bc.status \in {"winner_selected", "processed"}

\* The one execution at work holds the task, the phase and the broadcast.
RunInv(x) ==
  /\ task.status = "running" /\ task.timeout = "armed"
  /\ PhaseInv(st[x])
  /\ pc[x] # "failing" /\ out[x] # "error"
  /\ out[x] = "done" => pc[x] = "finish"
  /\ bc.status = "processed" => out[x] = "done"
  /\ pc[x] \in {"evaluate", "elected", "testDone"} => st[x].phase = "test"
  /\ pc[x] = "elected" => bc.status = "test_completed"
  /\ pc[x] = "completing" => st[x].phase = "winner"
  /\ pc[x] \in {"begin", "load", "loop", "ready", "sent", "testDone", "completing"} => copy[x] = bc
  /\ pc[x] \in {"load", "loop", "ready", "sent"} => st[x].phase # "unset"
  /\ pc[x] \in {"loop", "ready", "sent"} /\ st[x].phase = "winner" => tmpl[x] = chosen

\* Between executions the state is in the row.
RestInv ==
  /\ PhaseInv(task.cursor)
  /\ task.status # "running"
  /\ bc.status = "processed" => task.status = "completed"

QuietInv ==
  Quiet =>
    /\ \A u \in User : upc[u] = "idle"
    /\ \A x \in Executor : Active(x) => RunInv(x) /\ \A y \in Executor \ {x} : ~Active(y)
    /\ (\A x \in Executor : ~Active(x)) => RestInv
    /\ \A x \in Executor : ~Active(x) => out[x] = "more"
    /\ \A r \in Rest : sent[r] \subseteq chosen

\* A phase or an offset, and nothing else of the state.
LEMMA PhaseSet ==
  ASSUME TypeOK, NEW x \in Executor
  PROVE  /\ \A p \in {"unset", "test", "winner"} :
              SetPhase(x, p) => st'[x].phase = p /\ st'[x].offset = st[x].offset
         /\ \A n \in Fresh .. Total :
              SetOffset(x, n) => st'[x].phase = st[x].phase /\ st'[x].offset = n
  <1>1. st \in [Executor -> State] /\ st[x] \in State
    BY DEF TypeOK
  <1>2. ASSUME NEW p \in {"unset", "test", "winner"}, SetPhase(x, p)
        PROVE  st'[x].phase = p /\ st'[x].offset = st[x].offset
    BY <1>1, <1>2 DEF State, SetPhase
  <1>3. ASSUME NEW n \in Fresh .. Total, SetOffset(x, n)
        PROVE  st'[x].phase = st[x].phase /\ st'[x].offset = n
    BY <1>1, <1>3 DEF State, SetOffset
  <1> QED
    BY <1>2, <1>3

\* An execution under way goes on alone.
LEMMA GoesOn ==
  ASSUME Quiet, QuietInv, NEW x \in Executor, Active(x), upc' = upc, Elsewhere(x),
         Active(x)', RunInv(x)', \A r \in Rest : sent'[r] \subseteq chosen'
  PROVE  QuietInv'
  <1>1. \A y \in Executor \ {x} : ~Active(y) /\ ~Active(y)' /\ out'[y] = "more"
    BY DEF QuietInv, Active, Elsewhere
  <1> QED
    BY <1>1 DEF QuietInv

\* What the step of an execution may rely on while nothing fails.
LEMMA AtWork ==
  ASSUME TypeOK, Quiet, QuietInv, NEW x \in Executor, Active(x)
  PROVE  /\ RunInv(x) /\ Unlocked
         /\ \A r \in Rest : sent[r] \subseteq chosen
         /\ st[x] \in State /\ copy[x] \in Broadcast /\ bc \in Broadcast /\ task \in ABTask
         /\ st[x].offset \in Fresh .. Total /\ st[x].phase \in {"unset", "test", "winner"}
         /\ ~Runnable(task)
  <1>1. /\ st[x] \in State /\ copy[x] \in Broadcast /\ bc \in Broadcast /\ task \in ABTask
    BY DEF TypeOK
  <1>2. st[x].offset \in Fresh .. Total /\ st[x].phase \in {"unset", "test", "winner"}
    BY <1>1 DEF State
  <1>3. RunInv(x) /\ Unlocked /\ \A r \in Rest : sent[r] \subseteq chosen
    BY DEF QuietInv, Unlocked
  <1>4. ~Runnable(task)
    BY <1>3 DEF RunInv, Runnable
  <1> QED
    BY <1>1, <1>2, <1>3, <1>4

\* A claim takes the state as the row has it.
LEMMA ClaimQuiet ==
  ASSUME TypeOK, Quiet, QuietInv, NEW x \in Executor, Dispatch(x) \/ Claim(x), Quiet'
  PROVE  QuietInv'
  <1>1. pc \in [Executor -> ExecPC] /\ task \in ABTask /\ st \in [Executor -> State]
        /\ out \in [Executor -> {"done", "more", "error"}]
    BY DEF TypeOK
  <1>2. UNCHANGED <<bc, chosen, sent, upc>> /\ ~Active(x)
    BY DEF Dispatch, Claim, userVars, Active
  <1>3. CASE Dispatch(x) \/ ~Runnable(task)
    <2>1. ASSUME NEW y \in Executor \ {x}
          PROVE  pc'[y] = pc[y] /\ st'[y] = st[y] /\ copy'[y] = copy[y] /\ tmpl'[y] = tmpl[y] /\ out'[y] = out[y]
      BY <1>1, <1>3 DEF Dispatch, Claim, Goto, ExecutionEnds, TypeOK
    <2>2. pc'[x] \in {"idle", "dispatched"} /\ task' = task
      BY <1>1, <1>3 DEF Dispatch, Claim, Goto, ExecutionEnds
    <2>3. \A y \in Executor : Active(y)' <=> Active(y)
      BY <1>2, <2>1, <2>2 DEF Active
    <2>4. ASSUME NEW y \in Executor, Active(y) PROVE RunInv(y)'
      <3>1. y # x /\ RunInv(y)
        BY <1>2, <2>4 DEF QuietInv
      <3> QED
        BY <1>2, <2>1, <2>2, <3>1 DEF RunInv, PhaseInv
    <2>5. RestInv => RestInv'
      BY <1>2, <2>2 DEF RestInv, PhaseInv
    <2>6. \A y \in Executor : ~Active(y)' => out'[y] = "more"
      BY <1>1, <1>2, <1>3, <2>1, <2>3 DEF QuietInv, Dispatch, Claim, ExecutionEnds
    <2> QED
      BY <1>2, <2>3, <2>4, <2>5, <2>6 DEF QuietInv
  <1>4. CASE Claim(x) /\ Runnable(task)
    <2>1. \A y \in Executor : ~Active(y)
      BY <1>4, AtWork
    <2>2. RestInv /\ task.status # "completed"
      BY <1>4, <2>1 DEF QuietInv, Runnable
    <2>3. /\ task' = MarkAsRunning(task) /\ st' = [st EXCEPT ![x] = task.cursor] /\ out' = out
          /\ pc' = [pc EXCEPT ![x] = IF task.cursor.offset = Fresh THEN "count" ELSE "read"]
      BY <1>4 DEF Claim, Goto
    <2>4. task'.status = "running" /\ task'.timeout = "armed"
      BY <1>1, <2>3 DEF MarkAsRunning, ABTask
    <2>5. st'[x] = task.cursor /\ pc'[x] \in {"count", "read"} /\ \A y \in Executor \ {x} : pc'[y] = pc[y]
      BY <1>1, <2>3
    <2>6. out[x] = "more"
      BY <1>2 DEF QuietInv
    <2>7. RunInv(x)'
      BY <1>2, <2>2, <2>3, <2>4, <2>5, <2>6 DEF RunInv, RestInv, PhaseInv
    <2>8. Active(x)' /\ \A y \in Executor \ {x} : ~Active(y)'
      BY <2>1, <2>5 DEF Active
    <2>9. \A y \in Executor \ {x} : out'[y] = "more"
      BY <2>1, <2>3 DEF QuietInv
    <2> QED
      BY <1>2, <2>7, <2>8, <2>9 DEF QuietInv
  <1> QED
    BY <1>3, <1>4

\* Before the loop: the winner that is stored is the winner of the phase.
LEMMA PrepareQuiet ==
  ASSUME IInv, Quiet, QuietInv, NEW x \in Executor, Quiet',
         \/ Count(x) \/ ReadBroadcast(x) \/ Evaluate(x) \/ Elect(x) \/ Reread(x)
         \/ BeginTest(x) \/ Begin(x) \/ LoadTemplates(x)
  PROVE  QuietInv'
  <1>1. TypeOK /\ Active(x) /\ pc[x] # "finish"
    BY DEF IInv, Active, Count, ReadBroadcast, Evaluate, Elect, Reread, BeginTest, Begin, LoadTemplates
  <1>2. /\ RunInv(x) /\ Unlocked /\ \A r \in Rest : sent[r] \subseteq chosen
        /\ st[x] \in State /\ copy[x] \in Broadcast /\ bc \in Broadcast
        /\ st[x].offset \in Fresh .. Total /\ st[x].phase \in {"unset", "test", "winner"}
    BY <1>1, AtWork
  <1>3. /\ pc \in [Executor -> ExecPC] /\ st \in [Executor -> State] /\ copy \in [Executor -> Broadcast]
        /\ out \in [Executor -> {"done", "more", "error"}] /\ tmpl \in [Executor -> SUBSET Template]
        /\ faults \in Nat
    BY <1>1 DEF TypeOK
  <1>4. faults' = faults /\ ~Fault
    BY <1>3 DEF Quiet, Fault
  <1>5. Sample \in 1 .. Total /\ None \notin Template /\ 0 \in Fresh .. Total
    BY SampleInAudience, ABTestAssumption DEF Fresh
  <1>6. SUFFICES Elsewhere(x) /\ upc' = upc /\ pc'[x] \notin {"idle", "dispatched"} /\ RunInv(x)'
                 /\ \A r \in Rest : sent'[r] \subseteq chosen'
    BY <1>1, GoesOn DEF Active
  <1>7. Updatable
    BY <1>1, <1>2 DEF Updatable, RunInv
  <1>8. CASE Count(x)
    <2>1. SetOffset(x, 0) /\ Return(x, "more") /\ UNCHANGED <<bc, task, sent, copy, tmpl, chosen, upc>> /\ pc[x] = "count"
      BY <1>8 DEF Count, userVars
    <2>2. Elsewhere(x) /\ out'[x] = "more" /\ pc'[x] = "finish"
      BY <1>1, <1>3, <1>5, <2>1, States DEF Elsewhere, Return, Goto
    <2>3. st'[x].phase = st[x].phase /\ st'[x].offset = 0
      BY <1>1, <1>5, <2>1, PhaseSet
    <2> QED
      BY <1>2, <1>5, <1>7, <2>1, <2>2, <2>3 DEF RunInv, PhaseInv, Updatable
  <1>9. CASE ReadBroadcast(x) \/ Reread(x)
    <2>1. /\ UNCHANGED <<bc, task, sent, st, out, tmpl, chosen, upc>>
          /\ copy' = [copy EXCEPT ![x] = bc]
          /\ \/ pc' = [pc EXCEPT ![x] = "begin"]
             \/ pc' = [pc EXCEPT ![x] = "evaluate"] /\ st[x].phase = "test"
      BY <1>9 DEF ReadBroadcast, Reread, Goto, userVars
    <2>2. Elsewhere(x) /\ copy'[x] = bc
          /\ (pc'[x] = "begin" \/ (pc'[x] = "evaluate" /\ st[x].phase = "test"))
      <3>1. Elsewhere(x) /\ copy'[x] = bc
        BY <1>3, <2>1 DEF Elsewhere
      <3>2. CASE pc' = [pc EXCEPT ![x] = "begin"]
        BY <1>3, <3>1, <3>2
      <3>3. CASE pc' = [pc EXCEPT ![x] = "evaluate"] /\ st[x].phase = "test"
        BY <1>3, <3>1, <3>3
      <3> QED
        BY <2>1, <3>2, <3>3
    <2> QED
      BY <1>1, <1>2, <2>1, <2>2 DEF RunInv, PhaseInv
  <1>10. CASE Evaluate(x)
    <2>1. /\ UNCHANGED <<bc, task, sent, st, out, tmpl, chosen, upc>> /\ pc[x] = "evaluate"
          /\ copy' = [copy EXCEPT ![x] = bc]
          /\ \/ pc' = [pc EXCEPT ![x] = "elected"] /\ bc.status = "test_completed"
             \/ pc' = [pc EXCEPT ![x] = "reread"]
      BY <1>4, <1>10 DEF Evaluate, Goto, userVars
    <2>2. Elsewhere(x) /\ ((pc'[x] = "elected" /\ bc.status = "test_completed") \/ pc'[x] = "reread")
      BY <1>3, <2>1 DEF Elsewhere
    <2> QED
      BY <1>1, <1>2, <2>1, <2>2 DEF RunInv, PhaseInv
  <1>11. CASE Elect(x)
    <2>1. PICK t \in Template : bc' = WithWinner(copy[x], t) /\ chosen' = chosen \cup {t}
      BY <1>4, <1>7, <1>11 DEF Elect
    <2>2. /\ UNCHANGED <<task, sent, copy, tmpl, out, upc>> /\ pc[x] = "elected"
          /\ SetPhase(x, "winner") /\ pc' = [pc EXCEPT ![x] = "reread"]
      BY <1>4, <1>7, <1>11 DEF Elect, Goto, userVars
    <2>3. Elsewhere(x) /\ pc'[x] = "reread"
      BY <1>1, <1>3, <2>2, States DEF Elsewhere
    <2>4. st'[x].phase = "winner" /\ st'[x].offset = st[x].offset
      BY <1>1, <2>2, PhaseSet
    <2>5. bc'.winner = t /\ bc'.status = "winner_selected" /\ t # None
      BY <1>2, <1>5, <2>1 DEF WithWinner, Broadcast
    <2>6. chosen = {}
      BY <1>2, <2>2 DEF RunInv, PhaseInv
    <2>7. PhaseInv(st[x])'
      BY <2>1, <2>4, <2>5, <2>6 DEF PhaseInv
    <2> QED
      BY <1>2, <2>1, <2>2, <2>3, <2>5, <2>7 DEF RunInv
  <1>12. CASE BeginTest(x)
    <2>1. /\ UNCHANGED <<task, sent, tmpl, out, chosen, upc>> /\ pc[x] = "begin" /\ StartsTest(x)
          /\ bc' = [copy[x] EXCEPT !.status = "testing"]
          /\ copy' = [copy EXCEPT ![x].status = "testing"]
          /\ SetPhase(x, "test") /\ pc' = [pc EXCEPT ![x] = "load"]
      BY <1>4, <1>7, <1>12 DEF BeginTest, Goto, userVars
    <2>2. Elsewhere(x) /\ pc'[x] = "load" /\ copy'[x] = [copy[x] EXCEPT !.status = "testing"]
      BY <1>1, <1>3, <2>1, States DEF Elsewhere
    <2>3. st'[x].phase = "test" /\ st'[x].offset = st[x].offset
      BY <1>1, <2>1, PhaseSet
    <2>4. bc'.status = "testing" /\ bc'.winner = copy[x].winner
      BY <1>2, <2>1 DEF Broadcast
    <2>5. copy[x] = bc /\ st[x].phase = "unset"
      BY <1>2, <2>1 DEF RunInv, StartsTest
    <2>6. PhaseInv(st[x])'
      BY <1>2, <1>5, <2>1, <2>3, <2>4, <2>5 DEF PhaseInv, RunInv
    <2> QED
      BY <1>1, <1>2, <2>1, <2>2, <2>3, <2>4, <2>6 DEF RunInv
  <1>13. CASE Begin(x)
    <2>1. /\ UNCHANGED <<bc, task, sent, copy, tmpl, out, chosen, upc>> /\ pc[x] = "begin" /\ ~StartsTest(x)
          /\ SetPhase(x, IF st[x].phase = "unset" THEN InitialPhase(copy[x]) ELSE st[x].phase)
          /\ pc' = [pc EXCEPT ![x] = "load"]
      BY <1>13 DEF Begin, Goto, userVars
    <2>2. st[x].phase # "unset"
      BY <1>2, <2>1 DEF RunInv, PhaseInv, StartsTest, InitialPhase
    <2>3. Elsewhere(x) /\ pc'[x] = "load"
      BY <1>1, <1>2, <1>3, <2>1, <2>2, States DEF Elsewhere
    <2>4. st'[x].phase = st[x].phase /\ st'[x].offset = st[x].offset
      BY <1>1, <1>2, <2>1, <2>2, PhaseSet
    <2> QED
      BY <1>1, <1>2, <2>1, <2>2, <2>3, <2>4 DEF RunInv, PhaseInv
  <1>14. CASE LoadTemplates(x)
    <2>1. copy[x] = bc /\ pc[x] = "load" /\ st[x].phase # "unset" /\ PhaseInv(st[x])
      BY <1>2, <1>14 DEF RunInv, LoadTemplates
    <2>2. (st[x].phase = "winner" => bc.winner # None) /\ (st[x].phase = "test" => ~Won(bc))
      BY <2>1 DEF PhaseInv, Won
    <2>3. /\ UNCHANGED <<bc, task, sent, copy, out, chosen, upc>>
          /\ tmpl' = [tmpl EXCEPT ![x] = IF st[x].phase = "winner" THEN {copy[x].winner} ELSE Template]
          /\ SetPhase(x, st[x].phase) /\ pc' = [pc EXCEPT ![x] = "loop"]
      BY <1>14, <2>1, <2>2 DEF LoadTemplates, Goto, userVars
    <2>4. /\ Elsewhere(x) /\ pc'[x] = "loop"
          /\ tmpl'[x] = IF st[x].phase = "winner" THEN {copy[x].winner} ELSE Template
      BY <1>1, <1>2, <1>3, <2>3, States DEF Elsewhere
    <2>5. st'[x].phase = st[x].phase /\ st'[x].offset = st[x].offset
      BY <1>1, <1>2, <2>3, PhaseSet
    <2> QED
      BY <1>1, <1>2, <2>1, <2>3, <2>4, <2>5 DEF RunInv, PhaseInv
  <1> QED
    BY <1>8, <1>9, <1>10, <1>11, <1>12, <1>13, <1>14

\* In the loop: the test stays within its sample, the winner phase sends the
\* winner alone.
LEMMA LoopQuiet ==
  ASSUME IInv, Quiet, QuietInv, NEW x \in Executor, Quiet',
         \/ Refresh(x) \/ Yield(x) \/ SendBatch(x) \/ SaveProgress(x) \/ TestDone(x)
         \/ MarkTestCompleted(x) \/ AllDone(x) \/ Complete(x)
  PROVE  QuietInv'
  <1>1. TypeOK /\ Active(x) /\ pc[x] # "finish"
    BY DEF IInv, Active, Refresh, Yield, SendBatch, SaveProgress, TestDone, MarkTestCompleted, AllDone, Complete
  <1>2. /\ RunInv(x) /\ Unlocked /\ \A r \in Rest : sent[r] \subseteq chosen
        /\ st[x] \in State /\ copy[x] \in Broadcast /\ bc \in Broadcast /\ task \in ABTask
        /\ st[x].offset \in Fresh .. Total /\ st[x].phase \in {"unset", "test", "winner"}
    BY <1>1, AtWork
  <1>3. /\ pc \in [Executor -> ExecPC] /\ st \in [Executor -> State] /\ copy \in [Executor -> Broadcast]
        /\ out \in [Executor -> {"done", "more", "error"}] /\ tmpl \in [Executor -> SUBSET Template]
        /\ faults \in Nat /\ sent \in [Recipient -> SUBSET Template]
    BY <1>1 DEF TypeOK
  <1>4. faults' = faults /\ ~Fault
    BY <1>3 DEF Quiet, Fault
  <1>5. Sample \in 1 .. Total /\ None \notin Template /\ Total \in Nat /\ BatchSize \in Nat /\ Fresh = -1
    BY SampleInAudience, ABTestAssumption DEF Fresh
  <1>6. SUFFICES Elsewhere(x) /\ upc' = upc /\ pc'[x] \notin {"idle", "dispatched"} /\ RunInv(x)'
                 /\ \A r \in Rest : sent'[r] \subseteq chosen'
    BY <1>1, GoesOn DEF Active
  <1>7. Updatable
    BY <1>1, <1>2 DEF Updatable, RunInv
  <1>8. CASE Refresh(x)
    <2>1. st[x].phase = "test" => ~Won(bc)
      BY <1>2 DEF RunInv, PhaseInv, Won
    <2>2. /\ UNCHANGED <<bc, task, sent, tmpl, out, chosen, upc>> /\ pc[x] = "loop"
          /\ SetPhase(x, st[x].phase) /\ copy' = [copy EXCEPT ![x] = bc]
          /\ pc' = [pc EXCEPT ![x] = "ready"]
      BY <1>4, <1>8, <2>1 DEF Refresh, Goto, userVars
    <2>3. Elsewhere(x) /\ pc'[x] = "ready" /\ copy'[x] = bc
      BY <1>1, <1>2, <1>3, <2>2, States DEF Elsewhere
    <2>4. st'[x].phase = st[x].phase /\ st'[x].offset = st[x].offset
      BY <1>1, <1>2, <2>2, PhaseSet
    <2> QED
      BY <1>1, <1>2, <2>2, <2>3, <2>4 DEF RunInv, PhaseInv
  <1>9. CASE Yield(x)
    <2>1. UNCHANGED <<bc, task, sent, copy, st, tmpl, chosen, upc>> /\ Return(x, "more")
      BY <1>9 DEF Yield, userVars
    <2>2. Elsewhere(x) /\ pc'[x] = "finish" /\ out'[x] = "more"
      BY <1>3, <2>1 DEF Elsewhere, Return, Goto
    <2> QED
      BY <1>2, <1>7, <2>1, <2>2 DEF RunInv, PhaseInv, Updatable
  <1>10. CASE SendBatch(x)
    <2>1. PICK end \in {st[x].offset} \cup NextBatch(x) :
            /\ \E pick \in [st[x].offset + 1 .. end -> tmpl[x]] :
                 sent' = [r \in Recipient |-> IF r \in st[x].offset + 1 .. end
                                             THEN sent[r] \cup {pick[r]} ELSE sent[r]]
            /\ SetOffset(x, end)
      BY <1>10 DEF SendBatch
    <2>2. PICK pick \in [st[x].offset + 1 .. end -> tmpl[x]] :
            sent' = [r \in Recipient |-> IF r \in st[x].offset + 1 .. end
                                        THEN sent[r] \cup {pick[r]} ELSE sent[r]]
      BY <2>1
    <2>3. /\ UNCHANGED <<bc, task, copy, tmpl, out, chosen, upc>> /\ pc[x] = "ready"
          /\ st[x].offset < Limit(x) /\ pc' = [pc EXCEPT ![x] = "sent"]
      BY <1>10 DEF SendBatch, Goto, userVars
    <2>4. Limit(x) \in 1 .. Total /\ (st[x].phase = "test" => Limit(x) = Sample)
      BY <1>5 DEF Limit
    <2>5. end \in st[x].offset .. Limit(x) /\ end \in Fresh .. Total
      BY <1>2, <1>5, <2>3, <2>4 DEF NextBatch
    <2>6. Elsewhere(x) /\ pc'[x] = "sent"
      BY <1>1, <1>3, <2>1, <2>3, <2>5, States DEF Elsewhere
    <2>7. st'[x].phase = st[x].phase /\ st'[x].offset = end
      BY <1>1, <2>1, <2>5, PhaseSet
    <2>8. st[x].phase \in {"test", "winner"}
      BY <1>2, <2>3 DEF RunInv
    <2>9. ASSUME NEW r \in Rest PROVE sent'[r] \subseteq chosen'
      <3>1. r \in Recipient /\ r > Sample
        BY DEF Rest
      <3>2. sent'[r] = IF r \in st[x].offset + 1 .. end THEN sent[r] \cup {pick[r]} ELSE sent[r]
        BY <2>2, <3>1
      <3>3. CASE st[x].phase = "test"
        <4>1. r \notin st[x].offset + 1 .. end
          BY <1>2, <1>5, <2>4, <2>5, <3>1, <3>3 DEF Recipient
        <4> QED
          BY <1>2, <2>3, <3>2, <4>1
      <3>4. CASE st[x].phase = "winner"
        <4>1. tmpl[x] = chosen
          BY <1>2, <2>3, <3>4 DEF RunInv
        <4>2. r \in st[x].offset + 1 .. end => pick[r] \in chosen
          BY <4>1
        <4> QED
          BY <1>2, <2>3, <3>2, <4>2
      <3> QED
        BY <2>8, <3>3, <3>4
    <2>10. PhaseInv(st[x])'
      BY <1>2, <1>5, <2>3, <2>4, <2>5, <2>7, <2>8 DEF RunInv, PhaseInv
    <2> QED
      BY <1>1, <1>2, <2>3, <2>6, <2>7, <2>9, <2>10 DEF RunInv
  <1>11. CASE SaveProgress(x)
    <2>1. /\ UNCHANGED <<bc, sent, copy, st, tmpl, out, chosen, upc>> /\ pc[x] = "sent"
          /\ task' = SaveState(task, st[x]) /\ pc' = [pc EXCEPT ![x] = "loop"]
      BY <1>4, <1>11 DEF SaveProgress, Goto, userVars
    <2>2. Elsewhere(x) /\ pc'[x] = "loop"
      BY <1>3, <2>1 DEF Elsewhere
    <2>3. task'.status = task.status /\ task'.timeout = task.timeout
      BY <1>2, <2>1 DEF SaveState, ABTask
    <2> QED
      BY <1>1, <1>2, <2>1, <2>2, <2>3 DEF RunInv, PhaseInv
  <1>12. CASE TestDone(x)
    <2>1. st[x].phase = "test" /\ ~Won(bc)
      BY <1>2, <1>12 DEF TestDone, RunInv, PhaseInv, Won
    <2>2. /\ UNCHANGED <<bc, task, sent, copy, tmpl, st, out, chosen, upc>> /\ pc[x] = "ready"
          /\ pc' = [pc EXCEPT ![x] = "testDone"]
      BY <1>4, <1>12, <2>1 DEF TestDone, Goto, userVars
    <2>3. Elsewhere(x) /\ pc'[x] = "testDone"
      BY <1>3, <2>2 DEF Elsewhere
    <2> QED
      BY <1>1, <1>2, <2>1, <2>2, <2>3 DEF RunInv, PhaseInv
  <1>13. CASE MarkTestCompleted(x)
    <2>1. /\ UNCHANGED <<task, sent, copy, st, tmpl, chosen, upc>> /\ pc[x] = "testDone"
          /\ bc' = TestSent(copy[x]) /\ Return(x, "more")
      BY <1>4, <1>7, <1>13 DEF MarkTestCompleted, userVars
    <2>2. Elsewhere(x) /\ pc'[x] = "finish" /\ out'[x] = "more"
      BY <1>3, <2>1 DEF Elsewhere, Return, Goto
    <2>3. bc'.status = "test_completed" /\ bc'.winner = copy[x].winner
      BY <1>2, <2>1 DEF TestSent, Broadcast
    <2>4. copy[x] = bc /\ st[x].phase = "test" /\ PhaseInv(st[x])
      BY <1>2, <2>1 DEF RunInv
    <2>5. PhaseInv(st[x])'
      BY <2>1, <2>3, <2>4 DEF PhaseInv
    <2> QED
      BY <1>2, <2>1, <2>2, <2>3, <2>5 DEF RunInv
  <1>14. CASE AllDone(x)
    <2>1. /\ UNCHANGED <<bc, task, sent, copy, st, tmpl, out, chosen, upc>> /\ pc[x] = "ready"
          /\ st[x].phase # "test" /\ pc' = [pc EXCEPT ![x] = "completing"]
      BY <1>14 DEF AllDone, Goto, userVars
    <2>2. Elsewhere(x) /\ pc'[x] = "completing" /\ st[x].phase = "winner"
      BY <1>2, <1>3, <2>1 DEF Elsewhere, RunInv
    <2> QED
      BY <1>1, <1>2, <2>1, <2>2 DEF RunInv, PhaseInv
  <1>15. CASE Complete(x)
    <2>1. copy[x] = bc /\ st[x].phase = "winner" /\ PhaseInv(st[x]) /\ pc[x] = "completing"
      BY <1>2, <1>15 DEF RunInv, Complete
    <2>2. /\ UNCHANGED <<task, sent, copy, st, tmpl, chosen, upc>>
          /\ bc' = [copy[x] EXCEPT !.status = "processed"] /\ Return(x, "done")
      BY <1>7, <1>15, <2>1 DEF Complete, userVars
    <2>3. Elsewhere(x) /\ pc'[x] = "finish" /\ out'[x] = "done"
      BY <1>3, <2>2 DEF Elsewhere, Return, Goto
    <2>4. bc'.status = "processed" /\ bc'.winner = copy[x].winner
      BY <1>2, <2>2 DEF Broadcast
    <2>5. PhaseInv(st[x])'
      BY <2>1, <2>2, <2>4 DEF PhaseInv
    <2> QED
      BY <1>2, <2>1, <2>2, <2>3, <2>4, <2>5 DEF RunInv
  <1> QED
    BY <1>8, <1>9, <1>10, <1>11, <1>12, <1>13, <1>14, <1>15

\* The outcome puts the state back into the row.
LEMMA FinishQuiet ==
  ASSUME IInv, Quiet, QuietInv, NEW x \in Executor, Finish(x)
  PROVE  QuietInv'
  <1>1. TypeOK /\ Active(x) /\ pc[x] = "finish"
    BY DEF IInv, Active, Finish
  <1>2. RunInv(x) /\ task \in ABTask /\ \A r \in Rest : sent[r] \subseteq chosen
    BY <1>1, AtWork
  <1>3. /\ pc \in [Executor -> ExecPC] /\ out \in [Executor -> {"done", "more", "error"}]
    BY <1>1 DEF TypeOK
  <1>4. /\ UNCHANGED <<bc, sent, chosen, upc>>
        /\ pc' = [pc EXCEPT ![x] = "idle"] /\ out' = [out EXCEPT ![x] = "more"]
        /\ \/ out[x] = "done" /\ task' = MarkAsCompleted(task, st[x])
           \/ out[x] = "more" /\ task' = MarkAsPending(task, "due", st[x])
    <2>1. out[x] \in {"done", "more"}
      BY <1>2, <1>3 DEF RunInv
    <2> QED
      BY <2>1 DEF Finish, ExecutionEnds, userVars
  <1>5. \A y \in Executor : ~Active(y)' /\ out'[y] = "more"
    BY <1>1, <1>3, <1>4 DEF QuietInv, Active
  <1>6. task.status = "running" /\ PhaseInv(st[x]) /\ (bc.status = "processed" => out[x] = "done")
    BY <1>2 DEF RunInv
  <1>7. /\ task'.cursor = st[x] /\ task'.status \in {"completed", "pending"}
        /\ out[x] = "done" => task'.status = "completed"
    BY <1>2, <1>4, <1>6 DEF MarkAsCompleted, MarkAsPending, Update, Exists, ABTask
  <1>8. RestInv'
    BY <1>4, <1>6, <1>7 DEF RestInv, PhaseInv
  <1> QED
    BY <1>2, <1>4, <1>5, <1>8 DEF QuietInv

\* Time makes a test ripe and a task due.
LEMMA TimeQuiet ==
  ASSUME IInv, Quiet, QuietInv, NextRunComes \/ TimeoutPasses \/ TestRipens
  PROVE  QuietInv'
  <1>1. /\ bc \in Broadcast /\ copy \in [Executor -> Broadcast] /\ task \in ABTask
    BY DEF IInv, TypeOK
  <1>2. UNCHANGED <<pc, st, out, tmpl, sent, chosen, upc>>
    BY DEF NextRunComes, TimeoutPasses, TestRipens, execVars, userVars
  <1>3. /\ bc'.status = bc.status /\ bc'.winner = bc.winner
        /\ \A x \in Executor : copy[x] = bc => copy'[x] = bc'
    <2>1. CASE TestRipens
      BY <1>1, <2>1 DEF TestRipens, Broadcast
    <2>2. CASE NextRunComes \/ TimeoutPasses
      BY <2>2 DEF NextRunComes, TimeoutPasses, execVars
    <2> QED
      BY <2>1, <2>2
  <1>4. /\ task'.status = task.status /\ task'.cursor = task.cursor
        /\ task'.timeout = task.timeout \/ \A x \in Executor : ~Active(x)
    BY <1>1 DEF NextRunComes, TimeoutPasses, TestRipens, ABTask
  <1>5. \A x \in Executor : Active(x)' <=> Active(x)
    BY <1>2 DEF Active
  <1>6. ASSUME NEW x \in Executor, Active(x) PROVE RunInv(x)'
    <2>1. RunInv(x)
      BY <1>6 DEF QuietInv
    <2>2. PhaseInv(st[x])'
      BY <1>2, <1>3, <2>1 DEF RunInv, PhaseInv
    <2> QED
      BY <1>2, <1>3, <1>4, <1>6, <2>1, <2>2 DEF RunInv
  <1>7. RestInv => RestInv'
    BY <1>2, <1>3, <1>4 DEF RestInv, PhaseInv
  <1> QED
    BY <1>2, <1>5, <1>6, <1>7 DEF QuietInv

\* A selection by hand or a fault ends the quiet; every other step keeps it.
LEMMA NextQuiet == IInv /\ QuietInv /\ [Next]_vars => QuietInv'
  <1> SUFFICES ASSUME IInv, QuietInv, [Next]_vars, Quiet' PROVE QuietInv'
    BY DEF QuietInv
  <1>1. picks \in Nat /\ faults \in Nat
    BY DEF IInv, TypeOK
  <1>2. Quiet
    <2>1. ASSUME NEW x \in Executor, Dispatch(x) \/ Progress(x)
          PROVE  auto' = auto /\ picks' = picks /\ faults' \in {faults, faults + 1}
      BY <2>1 DEF Progress, Fault,
         Dispatch, Claim, Count, ReadBroadcast, Evaluate, Elect, Reread, BeginTest, Begin, LoadTemplates,
         Refresh, Yield, SendBatch, SaveProgress, TestDone, MarkTestCompleted, AllDone, Complete,
         MarkBroadcastFailed, Finish
    <2>2. ASSUME NEW x \in Executor, Mishap(x)
          PROVE  auto' = auto /\ picks' = picks /\ faults' = faults + 1
      BY <2>2 DEF Mishap, Fault, SendBatchFails, ProcessFails, Crash
    <2>3. ASSUME NEW u \in User, (\E t \in Template : SelectWinner(u, t)) \/ CallStep(u) \/ Rollback(u)
          PROVE  auto' = auto /\ picks' \in {picks, picks + 1} /\ faults' \in {faults, faults + 1}
      BY <2>3 DEF CallStep, Fault, SelectWinner, LockBroadcast, ResumeTask, CommitWinner, Rollback
    <2>4. ASSUME NextRunComes \/ TimeoutPasses \/ TestRipens \/ UNCHANGED vars
          PROVE  auto' = auto /\ picks' = picks /\ faults' = faults
      BY <2>4 DEF NextRunComes, TimeoutPasses, TestRipens, vars
    <2>5. auto' = auto /\ picks' \in {picks, picks + 1} /\ faults' \in {faults, faults + 1}
      BY <2>1, <2>2, <2>3, <2>4 DEF Next
    <2> QED
      BY <1>1, <2>5 DEF Quiet
  <1>3. \A u \in User : upc[u] = "idle"
    BY <1>2 DEF QuietInv
  <1>4. ASSUME NEW u \in User, (\E t \in Template : SelectWinner(u, t)) \/ CallStep(u) \/ Rollback(u)
        PROVE  FALSE
    BY <1>1, <1>2, <1>3, <1>4 DEF SelectWinner, CallStep, LockBroadcast, ResumeTask, CommitWinner, Rollback, Quiet
  <1>5. ASSUME NEW x \in Executor, Mishap(x) PROVE FALSE
    BY <1>1, <1>2, <1>5 DEF Mishap, SendBatchFails, ProcessFails, Crash, Fault, Quiet
  <1>6. ASSUME NEW x \in Executor, MarkBroadcastFailed(x) PROVE FALSE
    <2>1. Active(x) /\ pc[x] = "failing"
      BY <1>6 DEF MarkBroadcastFailed, Active
    <2> QED
      BY <1>2, <2>1 DEF QuietInv, RunInv
  <1>7. ASSUME NEW x \in Executor, Dispatch(x) \/ Progress(x) PROVE QuietInv'
    BY <1>2, <1>6, <1>7, ClaimQuiet, PrepareQuiet, LoopQuiet, FinishQuiet DEF Progress, IInv
  <1>8. CASE UNCHANGED vars
    BY <1>2, <1>8 DEF vars, execVars, userVars, QuietInv, Active, RunInv, RestInv, PhaseInv
  <1> QED
    BY <1>2, <1>4, <1>5, <1>7, <1>8, TimeQuiet DEF Next

\* An automatic test that nothing interrupts keeps to its sample and sends
\* everybody else the winner alone, with any number of goroutines that serve
\* the task, wherever its timeouts and batches fall.
THEOREM WinnerAloneToTheRest == Spec => []RestGetsWinner
  <1>1. Init => QuietInv
    <2> SUFFICES ASSUME Init PROVE QuietInv
      OBVIOUS
    <2>1. /\ \A x \in Executor : ~Active(x) /\ out[x] = "more"
          /\ \A u \in User : upc[u] = "idle"
          /\ bc = Started /\ task = NewTask /\ chosen = {}
          /\ \A r \in Rest : sent[r] = {}
      BY DEF Init, Active, Rest
    <2>2. /\ bc.status = "processing" /\ bc.winner = None
      BY <2>1 DEF Started
    <2>3. task.cursor.phase = "unset" /\ task.cursor.offset = -1
      BY <2>1, Blank DEF NoState, Fresh
    <2>4. task.status = "pending"
      BY <2>1 DEF NewTask, Create, NoTask
    <2>5. RestInv
      BY <2>1, <2>2, <2>3, <2>4 DEF RestInv, PhaseInv
    <2> QED
      BY <2>1, <2>5 DEF QuietInv
  <1>2. QuietInv => RestGetsWinner
    BY DEF QuietInv, Quiet, RestGetsWinner
  <1> QED
    BY <1>1, <1>2, NextQuiet, Invariance, PTL DEF Spec
==============================================================================
