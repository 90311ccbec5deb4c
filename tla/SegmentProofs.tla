---------------------------- MODULE SegmentProofs ----------------------------
(***************************************************************************)
(* Two results about a segment, for every number of contacts, trees,       *)
(* users, queue workers and builds, every batch size and every sequence of *)
(* faults.                                                                 *)
(*                                                                         *)
(* ChangesStayQueued: a change of a contact leaves the queue of            *)
(* recomputations looked at, or with a batch that is discarded, and in no  *)
(* other way.  Its invariant is LockInv.                                   *)
(*                                                                         *)
(* BuildsAreExact: a build that nothing disturbs leaves exactly the        *)
(* contacts that meet the tree.  Its invariant is CalmInv, which says      *)
(* which contacts a build has behind it, and that the copies others have   *)
(* of the segment are up to date meanwhile.                                *)
(*                                                                         *)
(* TypeCorrect, on the way, goes through the parts of TypeOK, and through  *)
(* IInv, since only a worker that writes is known to have a contact in     *)
(* hand.                                                                   *)
(***************************************************************************)
EXTENDS SegmentWorkers, FiniteSetTheorems, TLAPS

\* What the argument needs of the types.
QueueTypes ==
  /\ qpc \in [Worker -> QPC]
  /\ held \in [Worker -> SUBSET Contact]
  /\ seen \in [Worker -> SUBSET Contact]
  /\ cur \in [Worker -> Contact \cup {NoContact}]

IInv == QueueTypes /\ LockInv

\* An empty queue, idle workers.
LEMMA InitIInv == WInit => IInv
  BY DEF WInit, Init, IInv, QueueTypes, LockInv, QPC

\* Steps that touch neither the queue nor its workers.
LEMMA QueueUntouched ==
  ASSUME IInv, UNCHANGED <<queue, stale, discarded, qpc, held, seen, cur>>
  PROVE  IInv'
  BY DEF IInv, QueueTypes, LockInv

\* Commands and builds are such steps.
LEMMA CommandsPreserve ==
  ASSUME IInv, CommandStep
  PROVE  IInv'
  <1>1. ASSUME NEW u \in User,
               \/ GetSegment(u) \/ Rename(u) \/ RebuildSegment(u)
               \/ \E t \in Tree : UpdateTree(u, t)
               \/ DeleteSegment(u) \/ PurgeMembers(u) \/ CommandFails(u)
        PROVE  UNCHANGED <<queue, stale, discarded>>
    BY <1>1 DEF GetSegment, Rename, RebuildSegment, UpdateTree, DeleteSegment, PurgeMembers, CommandFails, contactVars
  <1>2. ASSUME (\E t \in Tree : CreateSegment(t)) \/ RecomputeComesDue \/ RecomputeTask
        PROVE  UNCHANGED <<queue, stale, discarded>>
    BY <1>2 DEF CreateSegment, RecomputeComesDue, RecomputeTask, contactVars
  <1>3. UNCHANGED <<queue, stale, discarded>>
    BY <1>1, <1>2 DEF CommandStep
  <1>4. UNCHANGED <<qpc, held, seen, cur>>
    BY DEF CommandStep, queueVars
  <1> QED
    BY <1>3, <1>4, QueueUntouched

LEMMA BuildsPreserve ==
  ASSUME IInv, NEW b \in Build,
         BuildStep(b) \/ BuildTimeout(b) \/ BuildFails(b) \/ BuildCrash(b)
  PROVE  IInv'
  <1>1. CASE BuildStart(b) \/ BuildMark(b) \/ BuildCheck(b) \/ BuildAbort(b) \/ BuildQuery(b)
    BY <1>1, QueueUntouched
       DEF BuildStart, BuildMark, BuildCheck, BuildAbort, BuildQuery, contactVars, queueVars
  <1>2. ASSUME NEW c \in Contact, BuildAdd(b, c) PROVE IInv'
    BY <1>2, QueueUntouched DEF BuildAdd, contactVars, queueVars
  <1>3. CASE BuildSave(b) \/ BuildClean(b) \/ BuildActivate(b) \/ BuildReschedule(b)
    BY <1>3, QueueUntouched
       DEF BuildSave, BuildClean, BuildActivate, BuildReschedule, contactVars, queueVars
  <1>4. CASE BuildTimeout(b) \/ BuildFails(b) \/ BuildCrash(b)
    BY <1>4, QueueUntouched DEF BuildTimeout, BuildFails, BuildCrash, contactVars, queueVars
  <1> QED
    BY <1>1, <1>2, <1>3, <1>4 DEF BuildStep

\* A change queues its contact, which no worker holds.
LEMMA ContactsPreserve ==
  ASSUME IInv, ContactStep
  PROVE  IInv'
  <1>1. UNCHANGED <<qpc, held, seen, cur>>
    BY DEF ContactStep, queueVars
  <1>2. ASSUME NEW c \in Contact, Enqueue(c, Locked)
        PROVE  IInv'
    <2>1. \A p \in Worker : c \notin held[p]
      BY <1>2 DEF Enqueue, Locked, IInv, QueueTypes
    <2> QED
      BY <1>1, <1>2, <2>1 DEF Enqueue, IInv, QueueTypes, LockInv
  <1>3. CASE UNCHANGED <<queue, stale, discarded>>
    BY <1>1, <1>3, QueueUntouched
  <1>4. \/ UNCHANGED <<queue, stale, discarded>>
        \/ \E c \in Contact : Enqueue(c, Locked)
    BY DEF ContactStep, ContactChanges, ContactAdded, ContactDeleted, DatePasses
  <1> QED
    BY <1>2, <1>3, <1>4

\* SKIP LOCKED: the rows a worker takes have no other owner.
LEMMA LockPreserves ==
  ASSUME IInv, NEW p \in Worker, NEW S \in SUBSET Contact, QueueLock(p, S)
  PROVE  IInv'
  <1>1. /\ qpc[p] = "idle" /\ S \subseteq queue /\ held' = [held EXCEPT ![p] = S]
        /\ qpc' = [qpc EXCEPT ![p] = "read"]
        /\ UNCHANGED <<queue, stale, discarded, seen, cur>>
    BY DEF QueueLock, QGoto, contactVars
  <1>2. \A o \in Worker : S \cap held[o] = {}
    BY DEF QueueLock, Locked, IInv, QueueTypes
  <1>3. seen[p] = {}
    BY <1>1 DEF IInv, LockInv
  <1> QED
    BY <1>1, <1>2, <1>3 DEF IInv, QueueTypes, LockInv, QPC

\* A worker that looks at a contact holds its row.
LEMMA WorkPreserves ==
  ASSUME IInv, NEW p \in Worker, QueueRead(p) \/ (\E c \in Contact : QueueEvaluate(p, c)) \/ QueueWrite(p)
  PROVE  IInv'
  <1> USE DEF IInv, QueueTypes, LockInv, QPC, QGoto
  <1>1. CASE QueueRead(p)
    <2>1. qpc' = [qpc EXCEPT ![p] = "contacts"] \/ qpc' = [qpc EXCEPT ![p] = "discard"]
      BY <1>1 DEF QueueRead
    <2>2. qpc[p] = "read" /\ UNCHANGED <<queue, stale, discarded, held, seen, cur>>
      BY <1>1 DEF QueueRead, contactVars
    <2> QED
      BY <2>1, <2>2
  <1>2. ASSUME NEW c \in Contact, QueueEvaluate(p, c) PROVE IInv'
    BY <1>2 DEF QueueEvaluate
  <1>3. CASE QueueWrite(p)
    BY <1>3 DEF QueueWrite, contactVars
  <1> QED
    BY <1>1, <1>2, <1>3

\* The commit deletes rows the worker holds and has looked at since they last
\* changed, or discards all it holds; a rollback deletes none.
LEMMA ReturnPreserves ==
  ASSUME IInv, NEW p \in Worker, QueueCommit(p) \/ QueueDiscard(p) \/ QueueRollback(p)
  PROVE  IInv'
  <1>1. /\ qpc' = [qpc EXCEPT ![p] = "idle"] /\ held' = [held EXCEPT ![p] = {}]
        /\ seen' = [seen EXCEPT ![p] = {}] /\ cur' = [cur EXCEPT ![p] = NoContact]
        /\ UNCHANGED stale
    BY DEF QueueCommit, QueueDiscard, Commit, QueueRollback, QReturn, QGoto, contactVars
  <1>2. \/ queue' = queue /\ discarded' = discarded
        \/ queue' = queue \ seen[p] /\ discarded' = discarded
        \/ queue' = queue \ held[p] /\ discarded' = discarded \cup held[p]
    BY DEF QueueCommit, QueueDiscard, Commit, QueueRollback, contactVars
  <1>3. stale' \subseteq queue' \cup discarded' /\ \A o \in Worker \ {p} : held[o] \subseteq queue'
    BY <1>1, <1>2 DEF IInv, QueueTypes, LockInv
  <1> QED
    BY <1>1, <1>3 DEF IInv, QueueTypes, LockInv, QPC

\* The queue invariant holds of every behaviour.
THEOREM Invariance == Spec => []IInv
  <1>1. IInv /\ [Next]_vars => IInv'
    <2> SUFFICES ASSUME IInv, [Next]_vars PROVE IInv'
      OBVIOUS
    <2>1. CASE UNCHANGED vars
      BY <2>1, QueueUntouched DEF vars, contactVars, queueVars
    <2>2. CASE CommandStep
      BY <2>2, CommandsPreserve
    <2>3. CASE ContactStep
      BY <2>3, ContactsPreserve
    <2>4. ASSUME NEW b \in Build, BuildStep(b) \/ BuildTimeout(b) \/ BuildFails(b) \/ BuildCrash(b)
          PROVE  IInv'
      BY <2>4, BuildsPreserve
    <2>5. ASSUME NEW p \in Worker,
                 (\E S \in SUBSET Contact : QueueLock(p, S)) \/ QueueStep(p) \/ QueueRollback(p)
          PROVE  IInv'
      BY <2>5, LockPreserves, WorkPreserves, ReturnPreserves DEF QueueStep
    <2> QED
      BY <2>1, <2>2, <2>3, <2>4, <2>5 DEF Next
  <1> QED
    BY <1>1, InitIInv, PTL DEF Spec

\* A contact that changed is in the queue until a worker has looked at it
\* after the change, or has discarded it with a batch that found no active
\* segment: the row lock of ProcessQueue, held to the commit, closes the gap
\* between the evaluation and the DELETE.
THEOREM ChangesStayQueued == Spec => []NoLostRecompute
  <1>1. IInv => NoLostRecompute
    BY DEF IInv, LockInv, NoLostRecompute
  <1> QED
    BY <1>1, Invariance, PTL

-----------------------------------------------------------------------------
(* Types.                                                                  *)

\* What calm is.
Calm == [build : Build \cup {0}, kept : SUBSET Contact]

CommandTypes ==
  /\ seg \in Row /\ ucopy \in [User -> Row] /\ upc \in [User -> {"idle", "read", "purge"}]

ContactTypes ==
  /\ member \in [Contact -> Version]
  /\ present \subseteq Contact /\ fits \in [Contact -> SUBSET Tree]
  /\ queue \subseteq Contact /\ stale \subseteq Contact /\ discarded \subseteq Contact

TaskTypes ==
  /\ task \in [Build -> Task] /\ changes \in Nat /\ faults \in Nat /\ calm \in Calm

BuildTypes ==
  /\ bpc \in [Build -> BPC] /\ bcopy \in [Build -> Row]
  /\ bmem \in [Build -> [offset : Nat, matched : BOOLEAN, moved : BOOLEAN]]
  /\ emails \in [Build -> SUBSET Contact] /\ hits \in [Build -> SUBSET Contact]

WorkerTypes ==
  /\ QueueTypes
  /\ qcopy \in [Worker -> Row] /\ match \in [Worker -> BOOLEAN]

LEMMA TypesSplit ==
  /\ TypeOK <=> CommandTypes /\ ContactTypes /\ TaskTypes /\ BuildTypes /\ WorkerTypes
  /\ TypeOK' <=> CommandTypes' /\ ContactTypes' /\ TaskTypes' /\ BuildTypes' /\ WorkerTypes'
  BY DEF TypeOK, CommandTypes, ContactTypes, TaskTypes, BuildTypes, WorkerTypes, QueueTypes, Calm

LEMMA BlankRows == NoSegment \in Row /\ NoTask \in Task /\ 0 \in Version /\ 1 \in Version /\ NotCalm \in Calm
  BY SegmentAssumption DEF NoSegment, NoTask, Row, Task, Version, NotCalm, Calm

\* Progress that is saved, and a task that is put off or complete.
LEMMA SavedTypes ==
  ASSUME task \in [Build -> Task], NEW b \in Build, NEW o \in Nat, NEW m \in BOOLEAN,
         task' = [task EXCEPT ![b].offset = o, ![b].matched = m]
  PROVE  task' \in [Build -> Task]
  BY DEF Task

LEMMA PutOffTypes ==
  ASSUME task \in [Build -> Task], NEW b \in Build, BuildTimeout(b),
         bmem[b].offset \in Nat, bmem[b].matched \in BOOLEAN
  PROVE  task' \in [Build -> Task]
  <1> DEFINE r == [task[b] EXCEPT !.state = "pending", !.offset = bmem[b].offset, !.matched = bmem[b].matched]
  <1>1. r \in Task
    BY DEF Task
  <1>2. task' = [task EXCEPT ![b] = r]
    BY DEF BuildTimeout
  <1> HIDE DEF r
  <1> QED
    BY <1>1, <1>2

LEMMA CompleteTypes ==
  ASSUME task \in [Build -> Task], NEW b \in Build, Complete(b), bmem[b].matched \in BOOLEAN
  PROVE  task' \in [Build -> Task]
  <1> DEFINE r == [task[b] EXCEPT !.state = "done", !.matched = bmem[b].matched]
  <1>1. r \in Task
    BY DEF Task
  <1>2. task' = [task EXCEPT ![b] = r]
    BY DEF Complete
  <1> HIDE DEF r
  <1> QED
    BY <1>1, <1>2

LEMMA StartedTypes ==
  ASSUME task \in [Build -> Task], NEW b \in Build, BuildStart(b)
  PROVE  task' \in [Build -> Task]
  BY DEF BuildStart, Task

LEMMA MovedTypes ==
  ASSUME bmem \in [Build -> [offset : Nat, matched : BOOLEAN, moved : BOOLEAN]],
         NEW b \in Build, BuildSave(b), NextOffset(b) \in Nat
  PROVE  bmem' \in [Build -> [offset : Nat, matched : BOOLEAN, moved : BOOLEAN]]
  BY DEF BuildSave

\* A task for the version of a row.
LEMMA CreateTaskTypes ==
  ASSUME TaskTypes, NEW v \in Version, CreateTask(v)
  PROVE  task' \in [Build -> Task] /\ faults' \in Nat
  <1>1. task \in [Build -> Task] /\ faults \in Nat
    BY DEF TaskTypes
  <1>2. ASSUME NEW b \in Build, task' = [task EXCEPT ![b] = [NoTask EXCEPT !.state = "pending", !.version = v]]
        PROVE  task' \in [Build -> Task]
    <2>1. [NoTask EXCEPT !.state = "pending", !.version = v] \in Task
      BY BlankRows DEF Task
    <2> QED
      BY <1>1, <1>2, <2>1
  <1> QED
    BY <1>1, <1>2 DEF CreateTask

LEMMA InitTypes == WInit => TypeOK
  <1> SUFFICES ASSUME WInit PROVE TypeOK
    OBVIOUS
  <1> USE BlankRows, SegmentAssumption DEF WInit, Init
  <1>1. CommandTypes
    BY DEF CommandTypes
  <1>2. ContactTypes
    BY DEF ContactTypes
  <1>3. TaskTypes
    BY DEF TaskTypes
  <1>4. BuildTypes
    BY DEF BuildTypes, BPC, NoState
  <1>5. WorkerTypes
    BY DEF WorkerTypes, QueueTypes, QPC
  <1> QED
    BY <1>1, <1>2, <1>3, <1>4, <1>5, TypesSplit

LEMMA ReturnTypes ==
  ASSUME CommandTypes, NEW u \in User, Return(u)
  PROVE  ucopy' \in [User -> Row] /\ upc' \in [User -> {"idle", "read", "purge"}]
  BY BlankRows DEF CommandTypes, Return

LEMMA CommandTypesStep ==
  ASSUME TypeOK, CommandStep
  PROVE  TypeOK'
  <1>1. CommandTypes /\ ContactTypes /\ TaskTypes /\ BuildTypes /\ WorkerTypes
    BY TypesSplit
  <1>2. seg \in Row /\ ucopy \in [User -> Row] /\ upc \in [User -> {"idle", "read", "purge"}]
    BY <1>1 DEF CommandTypes
  <1>3. BuildTypes' /\ WorkerTypes' /\ calm' \in Calm
    BY <1>1, BlankRows DEF CommandStep, BuildTypes, WorkerTypes, QueueTypes, buildVars, queueVars, TaskTypes
  <1>4. SUFFICES CommandTypes' /\ ContactTypes' /\ task' \in [Build -> Task] /\ changes' \in Nat /\ faults' \in Nat
    BY <1>3, TypesSplit DEF TaskTypes
  <1>5. ASSUME UNCHANGED <<member, contactVars>> PROVE ContactTypes'
    BY <1>1, <1>5 DEF ContactTypes, contactVars
  <1>6. task \in [Build -> Task] /\ changes \in Nat /\ faults \in Nat
    BY <1>1 DEF TaskTypes
  <1>7. ASSUME NEW t \in Tree, CreateSegment(t)
        PROVE  CommandTypes' /\ ContactTypes' /\ task' \in [Build -> Task] /\ changes' \in Nat /\ faults' \in Nat
    <2>1. seg' \in Row
      BY <1>7, BlankRows DEF CreateSegment, Row, RecomputeOf
    <2> QED
      BY <1>1, <1>5, <1>6, <1>7, <2>1, BlankRows, CreateTaskTypes DEF CreateSegment, CommandTypes, userVars
  <1>8. ASSUME NEW u \in User, GetSegment(u)
        PROVE  CommandTypes' /\ ContactTypes' /\ task' \in [Build -> Task] /\ changes' \in Nat /\ faults' \in Nat
    BY <1>2, <1>5, <1>6, <1>8 DEF GetSegment, CommandTypes, segmentVars, boundVars
  <1>9. ASSUME NEW u \in User, NEW t \in Tree, UpdateTree(u, t)
        PROVE  CommandTypes' /\ ContactTypes' /\ task' \in [Build -> Task] /\ changes' \in Nat /\ faults' \in Nat
    <2>1. ucopy[u] \in Row
      BY <1>2
    <2>2. ucopy[u].version + 1 \in Version
      BY <1>9, <2>1, SegmentAssumption DEF UpdateTree, Row, Version
    <2>3. seg' \in Row
      BY <1>9, <2>1, <2>2 DEF UpdateTree, Row, RecomputeOf
    <2> QED
      BY <1>1, <1>5, <1>6, <1>9, <2>2, <2>3, CreateTaskTypes, ReturnTypes DEF UpdateTree, CommandTypes
  <1>10. ASSUME NEW u \in User, RebuildSegment(u)
        PROVE  CommandTypes' /\ ContactTypes' /\ task' \in [Build -> Task] /\ changes' \in Nat /\ faults' \in Nat
    <2>1. ucopy[u] \in Row
      BY <1>2
    <2>2. ucopy[u].version + 1 \in Version
      BY <1>10, <2>1, SegmentAssumption DEF RebuildSegment, Row, Version
    <2>3. seg' \in Row
      BY <1>10, <2>1, <2>2 DEF RebuildSegment, Row
    <2> QED
      BY <1>1, <1>5, <1>6, <1>10, <2>2, <2>3, CreateTaskTypes, ReturnTypes DEF RebuildSegment, CommandTypes
  <1>11. ASSUME NEW u \in User, Rename(u) \/ CommandFails(u)
        PROVE  CommandTypes' /\ ContactTypes' /\ task' \in [Build -> Task] /\ changes' \in Nat /\ faults' \in Nat
    <2>1. seg' \in Row /\ Return(u) /\ UNCHANGED <<member, contactVars, task>>
      BY <1>2, <1>11 DEF Rename, CommandFails, segmentVars
    <2>2. changes' \in Nat /\ faults' \in Nat
      BY <1>6, <1>11 DEF Rename, CommandFails, Counted
    <2> QED
      BY <1>1, <1>5, <1>6, <2>1, <2>2, ReturnTypes DEF CommandTypes
  <1>12. ASSUME NEW u \in User, DeleteSegment(u)
        PROVE  CommandTypes' /\ ContactTypes' /\ task' \in [Build -> Task] /\ changes' \in Nat /\ faults' \in Nat
    <2>1. seg' \in Row
      BY <1>2, <1>12 DEF DeleteSegment, Row
    <2> QED
      BY <1>2, <1>5, <1>6, <1>12, <2>1 DEF DeleteSegment, CommandTypes, Counted
  <1>13. ASSUME NEW u \in User, PurgeMembers(u)
        PROVE  CommandTypes' /\ ContactTypes' /\ task' \in [Build -> Task] /\ changes' \in Nat /\ faults' \in Nat
    <2>1. member' \in [Contact -> Version]
      BY <1>13, BlankRows DEF PurgeMembers
    <2> QED
      BY <1>1, <1>2, <1>6, <1>13, <2>1, ReturnTypes
         DEF PurgeMembers, CommandTypes, ContactTypes, contactVars, boundVars
  <1>14. CASE RecomputeComesDue
    <2>1. seg' \in Row
      BY <1>2, <1>14 DEF RecomputeComesDue, Row
    <2> QED
      BY <1>2, <1>5, <1>6, <1>14, <2>1 DEF RecomputeComesDue, CommandTypes, Counted, userVars
  <1>15. CASE RecomputeTask
    <2>1. seg.version \in Version
      BY <1>2 DEF Row
    <2> QED
      BY <1>1, <1>2, <1>5, <1>6, <1>15, <2>1, CreateTaskTypes DEF RecomputeTask, CommandTypes, segmentVars, userVars
  <1> QED
    BY <1>7, <1>8, <1>9, <1>10, <1>11, <1>12, <1>13, <1>14, <1>15 DEF CommandStep

LEMMA ContactTypesStep ==
  ASSUME TypeOK, ContactStep
  PROVE  TypeOK'
  <1>1. CommandTypes /\ ContactTypes /\ TaskTypes /\ BuildTypes /\ WorkerTypes
    BY TypesSplit
  <1>2. BuildTypes' /\ WorkerTypes' /\ calm' \in Calm
    BY <1>1, BlankRows DEF ContactStep, BuildTypes, WorkerTypes, QueueTypes, buildVars, queueVars, TaskTypes
  <1>3. PICK c \in Contact :
          \/ \E F \in Profile : ContactChanges(c, F, Locked) \/ ContactAdded(c, F, Locked) \/ DatePasses(c, F)
          \/ ContactDeleted(c)
    BY DEF ContactStep
  <1>4. Profile \subseteq SUBSET Tree
    BY SegmentAssumption
  <1>5. UNCHANGED <<seg, member, task, upc, ucopy, faults>> /\ changes' = changes + 1
    BY <1>3 DEF ContactChanges, ContactAdded, DatePasses, ContactDeleted, Counted, segmentVars, userVars
  <1>6. /\ present' \in {present, present \cup {c}, present \ {c}}
        /\ queue' \in {queue, queue \cup {c}} /\ stale' \in {stale, stale \cup {c}}
        /\ discarded' \in {discarded, discarded \ {c}}
        /\ fits' = fits \/ \E F \in Profile : fits' = [fits EXCEPT ![c] = F]
    BY <1>3 DEF ContactChanges, ContactAdded, DatePasses, ContactDeleted, Enqueue
  <1>7. ContactTypes'
    BY <1>1, <1>4, <1>5, <1>6 DEF ContactTypes
  <1> QED
    BY <1>1, <1>2, <1>5, <1>7, TypesSplit DEF CommandTypes, TaskTypes

\* What a build forgets and what it removes.
LEMMA BuildReturnTypes ==
  ASSUME BuildTypes, NEW b \in Build, BReturn(b)
  PROVE  BuildTypes'
  BY BlankRows DEF BuildTypes, BReturn, BGoto, BPC, NoState

LEMMA RemoveTypes ==
  ASSUME member \in [Contact -> Version], NEW v, RemoveOldMemberships(v)
  PROVE  member' \in [Contact -> Version]
  BY BlankRows DEF RemoveOldMemberships

LEMMA BuildTypesStep ==
  ASSUME TypeOK, NEW b \in Build, BuildStep(b) \/ BuildTimeout(b) \/ BuildFails(b) \/ BuildCrash(b)
  PROVE  TypeOK'
  <1>1. CommandTypes /\ ContactTypes /\ TaskTypes /\ BuildTypes /\ WorkerTypes
    BY TypesSplit
  <1>2. /\ seg \in Row /\ bcopy[b] \in Row /\ task[b] \in Task /\ bmem[b].offset \in Nat
        /\ bmem[b].matched \in BOOLEAN /\ member \in [Contact -> Version] /\ task \in [Build -> Task]
        /\ emails[b] \subseteq Contact /\ present \subseteq Contact /\ faults \in Nat
        /\ bpc \in [Build -> BPC] /\ bcopy \in [Build -> Row]
        /\ bmem \in [Build -> [offset : Nat, matched : BOOLEAN, moved : BOOLEAN]]
    BY <1>1 DEF CommandTypes, ContactTypes, TaskTypes, BuildTypes
  <1>3. UNCHANGED <<userVars, present, fits, queue, stale, discarded, changes, queueVars>>
    BY DEF BuildStep, BuildStart, BuildMark, BuildCheck, BuildAbort, BuildQuery, BuildAdd, BuildSave, BuildClean,
       BuildActivate, BuildReschedule, BuildTimeout, BuildFails, BuildCrash, contactVars, boundVars
  <1>4. calm' \in Calm /\ faults' \in Nat
    <2>1. calm' \in {calm, NotCalm, [build |-> b, kept |-> Mistaken(b)]} /\ faults' \in {faults, faults + 1}
      BY DEF BuildStep, BuildStart, BuildMark, BuildCheck, BuildAbort, BuildQuery, BuildAdd, BuildSave, BuildClean,
         BuildActivate, BuildReschedule, BuildTimeout, BuildFails, BuildCrash, boundVars
    <2>2. Mistaken(b) \subseteq Contact
      BY <1>2 DEF Mistaken
    <2>3. [build |-> b, kept |-> Mistaken(b)] \in Calm
      BY <2>2 DEF Calm
    <2> QED
      BY <1>1, <1>2, <2>1, <2>3, BlankRows DEF TaskTypes
  <1>5. SUFFICES seg' \in Row /\ member' \in [Contact -> Version] /\ task' \in [Build -> Task] /\ BuildTypes'
    BY <1>1, <1>3, <1>4, TypesSplit
       DEF CommandTypes, ContactTypes, TaskTypes, WorkerTypes, QueueTypes, userVars, queueVars
  <1>6. CASE BuildStart(b)
    <2>1. task' \in [Build -> Task]
      BY <1>2, <1>6, StartedTypes
    <2>2. CASE UNCHANGED buildVars
      BY <1>1, <1>2, <1>6, <2>1, <2>2 DEF BuildStart, segmentVars, buildVars, BuildTypes
    <2>3. CASE /\ bcopy' = [bcopy EXCEPT ![b] = seg]
               /\ bmem' = [bmem EXCEPT ![b] = [offset |-> task[b].offset, matched |-> task[b].matched, moved |-> FALSE]]
               /\ BGoto(b, IF seg.status = "building" THEN "check" ELSE "mark")
               /\ UNCHANGED <<emails, hits>>
      <3>1. task[b].offset \in Nat /\ task[b].matched \in BOOLEAN
        BY <1>2 DEF Task
      <3> QED
        BY <1>1, <1>2, <1>6, <2>1, <2>3, <3>1 DEF BuildStart, segmentVars, BuildTypes, BGoto, BPC
    <2> QED
      BY <1>6, <2>2, <2>3 DEF BuildStart
  <1>7. CASE BuildMark(b)
    <2>1. [bcopy[b] EXCEPT !.status = "building"] \in Row
      BY <1>2 DEF Row
    <2>2. bcopy' = [bcopy EXCEPT ![b] = [bcopy[b] EXCEPT !.status = "building"]]
      BY <1>7 DEF BuildMark
    <2>3. bcopy'[b] \in Row /\ bcopy' \in [Build -> Row]
      BY <1>2, <2>1, <2>2
    <2> QED
      BY <1>1, <1>2, <1>7, <2>3 DEF BuildMark, BuildTypes, BGoto, BPC
  <1>8. CASE BuildCheck(b)
    <2>1. UNCHANGED <<seg, member, task, bmem, hits>>
      BY <1>8 DEF BuildCheck, segmentVars
    <2>2. /\ bcopy' = bcopy \/ bcopy' = [bcopy EXCEPT ![b] = seg]
          /\ emails' = emails \/ emails' = [emails EXCEPT ![b] = GetBatch(bmem[b].offset)]
      BY <1>8 DEF BuildCheck
    <2>3. GetBatch(bmem[b].offset) \subseteq Contact
      BY <1>2 DEF GetBatch
    <2>4. bpc' \in [Build -> BPC]
      BY <1>2, <1>8 DEF BuildCheck, BGoto, BPC
    <2> QED
      BY <1>1, <1>2, <2>1, <2>2, <2>3, <2>4 DEF BuildTypes
  <1>9. CASE BuildAbort(b)
    <2>1. task' \in [Build -> Task]
      BY <1>2, <1>9 DEF BuildAbort, Task
    <2> QED
      BY <1>1, <1>2, <1>9, <2>1, BuildReturnTypes, RemoveTypes DEF BuildAbort
  <1>10. CASE BuildQuery(b)
    BY <1>1, <1>2, <1>10 DEF BuildQuery, BuildTypes, BGoto, BPC, segmentVars
  <1>11. ASSUME NEW c \in Contact, BuildAdd(b, c)
         PROVE  seg' \in Row /\ member' \in [Contact -> Version] /\ task' \in [Build -> Task] /\ BuildTypes'
    <2>1. UNCHANGED <<seg, task, bpc, bcopy, emails>> /\ hits' = [hits EXCEPT ![b] = @ \ {c}]
      BY <1>11 DEF BuildAdd
    <2>2. member' \in [Contact -> Version]
      BY <1>2, <1>11 DEF BuildAdd, AddContact, Task
    <2>3. bmem' \in [Build -> [offset : Nat, matched : BOOLEAN, moved : BOOLEAN]]
      BY <1>2, <1>11 DEF BuildAdd
    <2> QED
      BY <1>1, <1>2, <2>1, <2>2, <2>3 DEF BuildTypes
  <1>12. CASE BuildSave(b)
    <2>1. NextOffset(b) \in Nat
      <3>1. IsFiniteSet(emails[b])
        BY <1>2, SegmentAssumption, FS_Subset
      <3>2. Cardinality(emails[b]) \in Nat
        BY <3>1, FS_CardinalityType
      <3> QED
        BY <1>2, <3>2 DEF NextOffset
    <2>2. UNCHANGED <<seg, member, bcopy, hits>> /\ emails' = [emails EXCEPT ![b] = {}]
          /\ bpc' = [bpc EXCEPT ![b] = "check"]
          /\ bmem' = [bmem EXCEPT ![b].offset = NextOffset(b), ![b].moved = TRUE]
      BY <1>12 DEF BuildSave, segmentVars, BGoto
    <2>3. bmem' \in [Build -> [offset : Nat, matched : BOOLEAN, moved : BOOLEAN]]
      BY <1>2, <1>12, <2>1, MovedTypes
    <2>4. bmem'[b].offset \in Nat /\ bmem'[b].matched \in BOOLEAN
      BY <2>3
    <2>5. task' \in [Build -> Task]
      BY <1>2, <1>12, <2>4, SavedTypes DEF BuildSave
    <2> QED
      BY <1>1, <1>2, <2>2, <2>3, <2>5 DEF BuildTypes, BPC
  <1>13. CASE BuildClean(b)
    BY <1>1, <1>2, <1>13, RemoveTypes DEF BuildClean, BuildTypes, BGoto, BPC
  <1>14. CASE BuildActivate(b) \/ BuildReschedule(b)
    <2>1. seg' \in Row /\ member' = member
      BY <1>2, <1>14 DEF BuildActivate, BuildReschedule, Row
    <2>2. CASE Complete(b)
      <3>1. task' \in [Build -> Task]
        BY <1>2, <2>2, CompleteTypes
      <3> QED
        BY <1>1, <1>2, <2>1, <2>2, <3>1, BuildReturnTypes DEF Complete
    <2>3. CASE BGoto(b, "reschedule") /\ UNCHANGED <<task, bcopy, bmem, emails, hits>>
      BY <1>1, <1>2, <2>1, <2>3 DEF BGoto, BuildTypes, BPC
    <2> QED
      BY <1>14, <2>2, <2>3 DEF BuildActivate, BuildReschedule
  <1>15. CASE BuildTimeout(b) \/ BuildFails(b) \/ BuildCrash(b)
    <2>1. BReturn(b) /\ UNCHANGED <<seg, member>>
      BY <1>15 DEF BuildTimeout, BuildFails, BuildCrash, segmentVars
    <2>2. task' \in [Build -> Task]
      <3>1. CASE BuildTimeout(b)
        BY <1>2, <3>1, PutOffTypes
      <3>2. CASE BuildFails(b) \/ BuildCrash(b)
        BY <1>2, <3>2 DEF BuildFails, BuildCrash, Task
      <3> QED
        BY <1>15, <3>1, <3>2
    <2> QED
      BY <1>1, <1>2, <2>1, <2>2, BuildReturnTypes
  <1> QED
    BY <1>6, <1>7, <1>8, <1>9, <1>10, <1>11, <1>12, <1>13, <1>14, <1>15 DEF BuildStep

LEMMA WorkerTypesStep ==
  ASSUME TypeOK, IInv', LockInv, NEW p \in Worker,
         (\E S \in SUBSET Contact : QueueLock(p, S)) \/ QueueStep(p) \/ QueueRollback(p)
  PROVE  TypeOK'
  <1>1. CommandTypes /\ ContactTypes /\ TaskTypes /\ BuildTypes /\ WorkerTypes
    BY TypesSplit
  <1>2. UNCHANGED <<seg, userVars, present, fits, task, changes, buildVars>>
    BY DEF QueueLock, QueueStep, QueueRead, QueueEvaluate, QueueWrite, QueueCommit,
       QueueDiscard, Commit, QueueRollback,
       segmentVars, contactVars, boundVars
  <1>3. calm' \in Calm /\ faults' \in Nat
    <2>1. calm' \in {calm, NotCalm} /\ faults' \in {faults, faults + 1}
      BY DEF QueueLock, QueueStep, QueueRead, QueueEvaluate, QueueWrite, QueueCommit,
         QueueDiscard, Commit, QueueRollback, boundVars
    <2> QED
      BY <1>1, <2>1, BlankRows DEF TaskTypes
  <1>4. queue' \subseteq queue /\ stale' \subseteq stale /\ discarded' \in {discarded, discarded \cup held[p]}
    BY DEF QueueLock, QueueStep, QueueRead, QueueEvaluate, QueueWrite, QueueCommit,
       QueueDiscard, Commit, QueueRollback, contactVars
  <1>5. member' \in [Contact -> Version]
    <2>1. CASE QueueWrite(p)
      <3>1. cur[p] \in Contact /\ qcopy[p].version \in Version
        BY <1>1, <2>1 DEF QueueWrite, LockInv, WorkerTypes, QueueTypes, Row
      <3> QED
        BY <1>1, <2>1, <3>1, BlankRows DEF QueueWrite, AddContact, RemoveContact, ContactTypes
    <2>2. CASE ~QueueWrite(p)
      BY <1>1, <2>2 DEF QueueLock, QueueStep, QueueRead, QueueEvaluate, QueueCommit,
         QueueDiscard, Commit, QueueRollback,
         segmentVars, ContactTypes
    <2> QED
      BY <2>1, <2>2
  <1>6. held[p] \subseteq Contact
    BY <1>1 DEF WorkerTypes, QueueTypes
  <1>7. WorkerTypes'
    <2>1. QueueTypes'
      BY DEF IInv
    <2>2. qcopy' \in {qcopy, [qcopy EXCEPT ![p] = seg], [qcopy EXCEPT ![p] = NoSegment]}
      BY DEF QueueLock, QueueStep, QueueRead, QueueEvaluate, QueueWrite, QueueCommit,
         QueueDiscard, Commit, QueueRollback, QReturn
    <2>3. match' = match \/ \E m \in BOOLEAN : match' = [match EXCEPT ![p] = m]
      BY DEF QueueLock, QueueStep, QueueRead, QueueEvaluate, QueueWrite, QueueCommit,
         QueueDiscard, Commit, QueueRollback, QReturn
    <2> QED
      BY <1>1, <2>1, <2>2, <2>3, BlankRows DEF WorkerTypes, CommandTypes
  <1> QED
    BY <1>1, <1>2, <1>3, <1>4, <1>5, <1>6, <1>7, TypesSplit
       DEF CommandTypes, ContactTypes, TaskTypes, BuildTypes, userVars, buildVars

\* The segment's row, the memberships, the tasks and every copy of them in
\* memory keep their types.
THEOREM TypeCorrect == Spec => []TypeOK
  <1>1. IInv /\ TypeOK /\ [Next]_vars /\ IInv' => TypeOK'
    <2> SUFFICES ASSUME IInv, TypeOK, [Next]_vars, IInv' PROVE TypeOK'
      OBVIOUS
    <2>1. CASE UNCHANGED vars
      BY <2>1 DEF vars, segmentVars, contactVars, userVars, boundVars, buildVars, queueVars, TypeOK
    <2>2. CASE CommandStep
      BY <2>2, CommandTypesStep
    <2>3. CASE ContactStep
      BY <2>3, ContactTypesStep
    <2>4. ASSUME NEW b \in Build, BuildStep(b) \/ BuildTimeout(b) \/ BuildFails(b) \/ BuildCrash(b)
          PROVE  TypeOK'
      BY <2>4, BuildTypesStep
    <2>5. ASSUME NEW p \in Worker,
                 (\E S \in SUBSET Contact : QueueLock(p, S)) \/ QueueStep(p) \/ QueueRollback(p)
          PROVE  TypeOK'
      BY <2>5, WorkerTypesStep DEF IInv
    <2> QED
      BY <2>1, <2>2, <2>3, <2>4, <2>5 DEF Next
  <1> QED
    BY <1>1, InitTypes, Invariance, PTL DEF Spec

-----------------------------------------------------------------------------
(* An undisturbed build.                                                   *)

\* The tree of the segment is met.
Fits(c) == seg.tree \in fits[c]

\* A queue worker is through with c, and has yet to commit.
Seen(c) == \E p \in Worker : c \in seen[p]

\* The membership of c is not up to a queue worker any more.
Sure(c) == c \in present /\ (c \in queue => Seen(c))

\* Place of a contact in the order of the batches.
Rank(c) == Cardinality({d \in present : d < c})

\* Build b has c behind it.
Passed(b, c) ==
  \/ bpc[b] = "idle" /\ task[b].state = "done"
  \/ bpc[b] = "idle" /\ task[b].state = "pending" /\ Rank(c) < task[b].offset
  \/ bpc[b] \in {"mark", "check", "query", "add"} /\ Rank(c) < bmem[b].offset
  \/ bpc[b] = "add" /\ c \in emails[b] \ hits[b]
  \/ bpc[b] \in {"clean", "activate", "reschedule"}

\* Build b has removed the memberships of earlier versions.
Cleaned(b) ==
  \/ bpc[b] \in {"activate", "reschedule"} /\ bmem[b].matched
  \/ bpc[b] = "idle" /\ task[b].state = "done" /\ task[b].matched

\* Versions start at 1.
VersionInv ==
  /\ seg.status # "none" => seg.version >= 1
  /\ \A b \in Build : task[b].state # "free" => task[b].version >= 1 /\ seg.version >= 1
  /\ \A b \in Build : bpc[b] # "idle" => bcopy[b].version >= 1
  /\ \A u \in User : upc[u] = "read" => ucopy[u].version >= 1

\* A task and its execution; progress that is saved is never ahead.
ProgressInv ==
  \A b \in Build :
    /\ bpc[b] # "idle" => task[b].state = "running" /\ task[b].begun /\ task[b].offset <= bmem[b].offset
    /\ ~task[b].begun => task[b].offset = 0
    /\ task[b].state = "free" => ~task[b].begun /\ task[b].version = 0
    /\ calm.build = b => task[b].begun

\* While all is calm, every copy of the segment has its version and tree, and
\* what was evaluated is still so.
BuildCopy(b) ==
  /\ bpc[b] # "idle" => bcopy[b].version = seg.version /\ bcopy[b].tree = seg.tree
  /\ bpc[b] \notin {"idle", "abort"} => seg.version <= task[b].version
  /\ bpc[b] = "abort" => task[b].version < seg.version
  /\ bpc[b] \in {"query", "add"} => emails[b] = GetBatch(bmem[b].offset)
  /\ bpc[b] = "add" => hits[b] \subseteq emails[b] /\ \A c \in hits[b] : Fits(c)

WorkerCopy(p) ==
  /\ qpc[p] \in {"contacts", "write"} => qcopy[p].version = seg.version /\ qcopy[p].tree = seg.tree
  /\ qpc[p] = "write" /\ cur[p] \in present => match[p] = Fits(cur[p])

CopiesInv == calm.build # 0 => (\A b \in Build : BuildCopy(b)) /\ (\A p \in Worker : WorkerCopy(p))

\* The membership of c, in the version of the segment, is right.
Right(c) == member[c] >= seg.version <=> Fits(c)

\* Memberships of the calm build's version are true, and those of contacts it
\* has behind it complete.
MembersOf(b) ==
  /\ \A c \in Contact :
       Sure(c) =>
         /\ c \notin calm.kept /\ member[c] >= seg.version => Fits(c)
         /\ Fits(c) /\ (Passed(b, c) \/ Seen(c)) => member[c] >= seg.version
  /\ Cleaned(b) => \A c \in Contact : member[c] = 0 \/ member[c] >= seg.version

MembersInv ==
  \A b \in Build :
    calm.build = b /\ task[b].version = seg.version /\ IsLast(b) => MembersOf(b)

CalmInv == VersionInv /\ ProgressInv /\ CopiesInv /\ MembersInv

-----------------------------------------------------------------------------
(* Batches.                                                                *)

\* The contacts in front of c.
Front(c) == {d \in present : d < c}

LEMMA PresentIsFinite ==
  ASSUME present \subseteq Contact
  PROVE  present \subseteq Nat /\ IsFiniteSet(present)
  BY SegmentAssumption, FS_Subset

LEMMA RankType ==
  ASSUME present \subseteq Contact, NEW c
  PROVE  IsFiniteSet(Front(c)) /\ Rank(c) = Cardinality(Front(c)) /\ Rank(c) \in Nat
  <1>1. IsFiniteSet(Front(c))
    BY PresentIsFinite, FS_Subset DEF Front
  <1> QED
    BY <1>1, FS_CardinalityType DEF Rank, Front

LEMMA RanksGrow ==
  ASSUME present \subseteq Contact, NEW c \in present, NEW d \in present, c < d
  PROVE  Front(c) \subseteq Front(d) /\ Front(c) # Front(d) /\ Rank(c) < Rank(d)
  <1>1. c \in Nat /\ d \in Nat /\ present \subseteq Nat
    BY PresentIsFinite
  <1>2. ASSUME NEW e \in Front(c) PROVE e \in Front(d)
    BY <1>1, <1>2 DEF Front
  <1>3. c \in Front(d) /\ c \notin Front(c)
    BY <1>1 DEF Front
  <1>4. Front(c) # Front(d)
    BY <1>3
  <1>5. Cardinality(Front(c)) # Cardinality(Front(d)) /\ Cardinality(Front(c)) <= Cardinality(Front(d))
    BY <1>2, <1>4, RankType, FS_Subset
  <1> QED
    BY <1>2, <1>4, <1>5, RankType

\* Contacts of different places.
LEMMA FewRanks ==
  ASSUME present \subseteq Contact, NEW S \in SUBSET present, NEW a \in Nat, NEW n \in Nat,
         \A c \in S : Rank(c) \in a .. (a + n - 1)
  PROVE  IsFiniteSet(S) /\ Cardinality(S) <= n
  <1> DEFINE f == [c \in S |-> Rank(c)]
             T == a .. (a + n - 1)
  <1>1. ASSUME NEW c \in S, NEW d \in S, Rank(c) = Rank(d)
        PROVE  c = d
    <2>1. c \in present /\ d \in present /\ c \in Nat /\ d \in Nat /\ Rank(c) \in Nat
      BY PresentIsFinite, RankType
    <2>2. ~(c < d) /\ ~(d < c)
      BY <1>1, <2>1, RanksGrow
    <2> QED
      BY <2>1, <2>2
  <1>2. f \in Injection(S, T)
    BY <1>1 DEF Injection, IsInjective
  <1>3. IsFiniteSet(T) /\ Cardinality(T) = n
    <2>1. IsFiniteSet(T) /\ Cardinality(T) = IF a > a + n - 1 THEN 0 ELSE a + n - 1 - a + 1
      BY FS_Interval
    <2> QED
      BY <2>1
  <1> HIDE DEF f, T
  <1> QED
    BY <1>2, <1>3, FS_Injection

\* GetBatchForSegment returns at most BatchSize contacts, so the offset never
\* moves past one that it did not return.
LEMMA BatchAdvances ==
  ASSUME present \subseteq Contact, NEW o \in Nat
  PROVE  /\ GetBatch(o) \subseteq present /\ Cardinality(GetBatch(o)) \in Nat
         /\ \A c \in present : Rank(c) < o + Cardinality(GetBatch(o)) => Rank(c) < o \/ c \in GetBatch(o)
  <1>1. GetBatch(o) = {c \in present : Rank(c) \in o .. (o + BatchSize - 1)}
    BY DEF GetBatch, Rank
  <1>2. IsFiniteSet(GetBatch(o)) /\ Cardinality(GetBatch(o)) <= BatchSize
    BY <1>1, WorkersAssumption, FewRanks
  <1>3. Cardinality(GetBatch(o)) \in Nat
    BY <1>2, FS_CardinalityType
  <1>4. ASSUME NEW c \in present, Rank(c) < o + Cardinality(GetBatch(o)), ~(Rank(c) < o)
        PROVE  c \in GetBatch(o)
    BY <1>1, <1>2, <1>3, <1>4, RankType, WorkersAssumption
  <1> QED
    BY <1>1, <1>3, <1>4

\* An empty batch means that no contact is left.
LEMMA LastBatch ==
  ASSUME present \subseteq Contact, NEW o \in Nat, GetBatch(o) = {}
  PROVE  \A c \in present : Rank(c) < o
  <1> DEFINE U == {c \in present : ~(Rank(c) < o)}
             P == {Front(c) : c \in U}
  <1> SUFFICES ASSUME U # {} PROVE FALSE
    OBVIOUS
  <1>1. IsWellFoundedOn(StrictSubsetOrdering(present), SUBSET present)
    BY PresentIsFinite, FS_StrictSubsetOrderingWellFounded, FS_FiniteSubsetsOfFinite
  <1>2. P \subseteq SUBSET present /\ P # {}
    BY DEF Front
  <1>3. PICK F \in P : \A G \in P : <<G, F>> \notin StrictSubsetOrdering(present)
    <2> HIDE DEF P
    <2> QED
      BY <1>1, <1>2, WFMin
  <1>4. PICK c \in U : F = Front(c)
    OBVIOUS
  <1>5. ASSUME NEW d \in Front(c) PROVE Rank(d) < o
    <2>1. d \in present /\ d < c
      BY DEF Front
    <2>2. Front(d) \subseteq Front(c) /\ Front(d) # Front(c)
      BY <2>1, RanksGrow
    <2>3. <<Front(d), F>> \in StrictSubsetOrdering(present)
      BY <1>4, <2>2 DEF StrictSubsetOrdering, Front
    <2>4. Front(d) \notin P
      BY <1>3, <2>3
    <2> QED
      BY <2>1, <2>4
  <1>6. \A d \in Front(c) : Rank(d) \in 0 .. (0 + o - 1)
    BY <1>5, RankType
  <1>7. Rank(c) <= o
    BY <1>6, FewRanks, RankType DEF Front
  <1>8. Rank(c) \in o .. (o + BatchSize - 1)
    BY <1>7, RankType, WorkersAssumption
  <1> QED
    BY <1>8 DEF GetBatch, Rank

-----------------------------------------------------------------------------
(* Versions and progress.                                                  *)

\* What the argument needs of the parts of the types.
LEMMA RowTypes ==
  ASSUME TypeOK
  PROVE  /\ seg \in Row /\ ucopy \in [User -> Row] /\ upc \in [User -> {"idle", "read", "purge"}]
         /\ task \in [Build -> Task] /\ bpc \in [Build -> BPC] /\ bcopy \in [Build -> Row]
         /\ bmem \in [Build -> [offset : Nat, matched : BOOLEAN, moved : BOOLEAN]]
         /\ member \in [Contact -> Version] /\ present \subseteq Contact
  BY DEF TypeOK

\* A free task, and what becomes of it.
Created(b, v) ==
  /\ task[b].state = "free"
  /\ task'[b].state = "pending" /\ task'[b].version = v /\ task'[b].offset = 0 /\ ~task'[b].begun

LEMMA CreateTaskSteps ==
  ASSUME task \in [Build -> Task], NEW v, CreateTask(v)
  PROVE  \A b \in Build : task'[b] = task[b] \/ Created(b, v)
  <1>1. CASE UNCHANGED task
    BY <1>1
  <1>2. CASE \E b \in Build :
               /\ IsNextTask(b)
               /\ task' = [task EXCEPT ![b] = [NoTask EXCEPT !.state = "pending", !.version = v]]
    <2>1. PICK n \in Build :
            /\ IsNextTask(n)
            /\ task' = [task EXCEPT ![n] = [NoTask EXCEPT !.state = "pending", !.version = v]]
      BY <1>2
    <2>2. task'[n] = [NoTask EXCEPT !.state = "pending", !.version = v] /\ task[n].state = "free"
      BY <2>1 DEF IsNextTask
    <2>3. Created(n, v)
      BY <2>2 DEF Created, NoTask
    <2>4. \A b \in Build \ {n} : task'[b] = task[b]
      BY <2>1
    <2> QED
      BY <2>3, <2>4
  <1> QED
    BY <1>1, <1>2 DEF CreateTask

\* A command makes a task, or lets the tasks be; it writes back a version it
\* has read, or the next; and all stays calm only if it changes nothing that
\* matters to a build.
CommandEffect ==
  /\ \A b \in Build : task'[b] = task[b] \/ \E v \in Version : v >= 1 /\ seg'.version >= 1 /\ Created(b, v)
  /\ seg'.status # "none" => seg'.version >= 1
  /\ seg.version >= 1 => seg'.version >= 1
  /\ \A u \in User : upc'[u] = "read" => ucopy'[u].version >= 1
  /\ calm' = NotCalm \/ (calm' = calm /\ member' = member /\ seg'.version = seg.version /\ seg'.tree = seg.tree)

LEMMA CommandEffects ==
  ASSUME TypeOK, VersionInv, CommandStep
  PROVE  /\ CommandEffect
         /\ UNCHANGED <<present, fits, queue, buildVars, queueVars>>
  <1>1. /\ seg \in Row /\ ucopy \in [User -> Row] /\ upc \in [User -> {"idle", "read", "purge"}]
        /\ task \in [Build -> Task]
    BY RowTypes
  <1>2. /\ seg.status # "none" => seg.version >= 1
        /\ \A u \in User : upc[u] = "read" => ucopy[u].version >= 1
    BY DEF VersionInv
  <1>3. calm' = NotCalm \/ (calm' = calm /\ member' = member /\ seg'.version = seg.version /\ seg'.tree = seg.tree)
    <2>1. CASE /\ member' = member /\ [seg' EXCEPT !.recompute = "null"] = [seg EXCEPT !.recompute = "null"]
               /\ calm' = calm
      <3>1. /\ [seg' EXCEPT !.recompute = "null"].version = seg'.version
            /\ [seg' EXCEPT !.recompute = "null"].tree = seg'.tree
        <4>1. TypeOK'
          BY CommandTypesStep
        <4>2. seg' \in Row
          BY <4>1 DEF TypeOK
        <4> QED
          BY <4>2 DEF Row
      <3>2. /\ [seg EXCEPT !.recompute = "null"].version = seg.version
            /\ [seg EXCEPT !.recompute = "null"].tree = seg.tree
        BY <1>1 DEF Row
      <3> QED
        BY <2>1, <3>1, <3>2
    <2> QED
      BY <2>1 DEF CommandStep
  <1>4. UNCHANGED <<buildVars, queueVars>>
    BY DEF CommandStep
  <1> DEFINE Others == UNCHANGED <<present, fits, queue>>
             Tasks == \A b \in Build : task'[b] = task[b] \/ \E v \in Version : v >= 1 /\ seg'.version >= 1 /\ Created(b, v)
             Vers == /\ seg'.status # "none" => seg'.version >= 1
                     /\ seg.version >= 1 => seg'.version >= 1
             Copies == \A u \in User : upc'[u] = "read" => ucopy'[u].version >= 1
  <1>5. ASSUME NEW u \in User, Return(u) PROVE Copies
    BY <1>1, <1>2, <1>5 DEF Return
  <1>6. ASSUME UNCHANGED userVars PROVE Copies
    BY <1>2, <1>6 DEF userVars
  <1>7. ASSUME NEW t \in Tree, CreateSegment(t)
        PROVE  Others /\ Tasks /\ Vers /\ Copies
    <2>1. seg'.version = 1 /\ 1 \in Version /\ UNCHANGED <<present, fits, queue, userVars>> /\ CreateTask(1)
      BY <1>7, BlankRows DEF CreateSegment, contactVars
    <2>2. \A b \in Build : task'[b] = task[b] \/ Created(b, 1)
      BY <1>1, <2>1, CreateTaskSteps
    <2> QED
      BY <2>1, <2>2, <1>6
  <1>8. ASSUME NEW u \in User, NEW t, UpdateTree(u, t) \/ RebuildSegment(u)
        PROVE  Others /\ Tasks /\ Vers /\ Copies
    <2>1. /\ upc[u] = "read" /\ ucopy[u].version < MaxVersion /\ seg'.version = ucopy[u].version + 1
          /\ CreateTask(ucopy[u].version + 1) /\ Return(u) /\ UNCHANGED <<present, fits, queue>>
      BY <1>1, <1>8 DEF UpdateTree, RebuildSegment, contactVars, Row
    <2>2. ucopy[u].version \in Version /\ ucopy[u].version >= 1
      BY <1>1, <1>2, <2>1 DEF Row
    <2>3. ucopy[u].version + 1 \in Version /\ ucopy[u].version + 1 >= 1
      BY <2>1, <2>2, SegmentAssumption DEF Version
    <2>4. \A b \in Build : task'[b] = task[b] \/ Created(b, ucopy[u].version + 1)
      BY <1>1, <2>1, CreateTaskSteps
    <2> QED
      BY <2>1, <2>3, <2>4, <1>5
  <1>9. ASSUME NEW u \in User, GetSegment(u)
        PROVE  Others /\ Tasks /\ Vers /\ Copies
    BY <1>1, <1>2, <1>9 DEF GetSegment, contactVars, segmentVars
  <1>10. ASSUME NEW u \in User, Rename(u) \/ CommandFails(u) \/ PurgeMembers(u)
         PROVE  Others /\ Tasks /\ Vers /\ Copies
    BY <1>2, <1>5, <1>10 DEF Rename, CommandFails, PurgeMembers, contactVars, segmentVars
  <1>11. ASSUME NEW u \in User, DeleteSegment(u)
         PROVE  Others /\ Tasks /\ Vers /\ Copies
    BY <1>1, <1>2, <1>11 DEF DeleteSegment, contactVars, Row
  <1>12. ASSUME RecomputeComesDue
         PROVE  Others /\ Tasks /\ Vers /\ Copies
    <2>1. Copies
      BY <1>6, <1>12 DEF RecomputeComesDue
    <2> QED
      BY <1>1, <1>2, <1>12, <2>1 DEF RecomputeComesDue, contactVars, Row
  <1>13. ASSUME RecomputeTask
         PROVE  Others /\ Tasks /\ Vers /\ Copies
    <2>1. seg.version \in Version /\ seg.version >= 1
      BY <1>1, <1>2, <1>13 DEF RecomputeTask, Row
    <2>2. \A b \in Build : task'[b] = task[b] \/ Created(b, seg.version)
      BY <1>1, <1>13, CreateTaskSteps DEF RecomputeTask
    <2>3. Copies
      BY <1>6, <1>13 DEF RecomputeTask
    <2>4. Others /\ seg' = seg
      BY <1>13 DEF RecomputeTask, contactVars, segmentVars
    <2> QED
      BY <2>1, <2>2, <2>3, <2>4
  <1>14. Others /\ Tasks /\ Vers /\ Copies
    <2> HIDE DEF Others, Tasks, Vers, Copies
    <2> QED
      BY <1>7, <1>8, <1>9, <1>10, <1>11, <1>12, <1>13 DEF CommandStep
  <1> QED
    BY <1>3, <1>4, <1>14 DEF CommandEffect

LEMMA CommandsProgress ==
  ASSUME TypeOK, VersionInv, ProgressInv, CommandStep
  PROVE  VersionInv' /\ ProgressInv'
  <1>1. CommandEffect /\ UNCHANGED <<bpc, bcopy, bmem>>
    BY CommandEffects DEF buildVars
  <1>2. ASSUME NEW b \in Build
        PROVE  /\ task'[b].state # "free" => task'[b].version >= 1 /\ seg'.version >= 1
               /\ bpc'[b] # "idle" => bcopy'[b].version >= 1
               /\ bpc'[b] # "idle" => task'[b].state = "running" /\ task'[b].begun /\ task'[b].offset <= bmem'[b].offset
               /\ ~task'[b].begun => task'[b].offset = 0
               /\ task'[b].state = "free" => ~task'[b].begun /\ task'[b].version = 0
               /\ calm'.build = b => task'[b].begun
    <2>1. CASE task'[b] = task[b]
      BY <1>1, <2>1 DEF CommandEffect, VersionInv, ProgressInv, NotCalm, Build
    <2>2. CASE \E v \in Version : v >= 1 /\ seg'.version >= 1 /\ Created(b, v)
      BY <1>1, <2>2 DEF CommandEffect, VersionInv, ProgressInv, NotCalm, Build, Created
    <2> QED
      BY <1>1, <2>1, <2>2 DEF CommandEffect
  <1> QED
    BY <1>1, <1>2 DEF CommandEffect, VersionInv, ProgressInv

\* An execution touches neither the other builds nor the workers.
BuildEffect(b) ==
  /\ \A i \in Build \ {b} :
       /\ task'[i] = task[i] /\ bpc'[i] = bpc[i] /\ bcopy'[i] = bcopy[i] /\ bmem'[i] = bmem[i]
       /\ emails'[i] = emails[i] /\ hits'[i] = hits[i]
  /\ UNCHANGED <<upc, ucopy, present, fits, queue, qpc, qcopy, held, seen, cur, match>>
  /\ calm' \in {calm, NotCalm, [build |-> b, kept |-> Mistaken(b)]}

LEMMA BuildEffects ==
  ASSUME TypeOK, NEW b \in Build, BuildStep(b) \/ BuildTimeout(b) \/ BuildFails(b) \/ BuildCrash(b)
  PROVE  BuildEffect(b)
  <1>1. task \in [Build -> Task] /\ bpc \in [Build -> BPC] /\ bcopy \in [Build -> Row]
    BY DEF TypeOK
  <1>2. bmem \in [Build -> [offset : Nat, matched : BOOLEAN, moved : BOOLEAN]]
    BY DEF TypeOK
  <1>3. emails \in [Build -> SUBSET Contact] /\ hits \in [Build -> SUBSET Contact]
    BY DEF TypeOK
  <1>4. UNCHANGED <<userVars, present, fits, queue, queueVars>>
        /\ calm' \in {calm, NotCalm, [build |-> b, kept |-> Mistaken(b)]}
    BY DEF BuildStep, BuildStart, BuildMark, BuildCheck, BuildAbort, BuildQuery, BuildAdd, BuildSave, BuildClean,
       BuildActivate, BuildReschedule, BuildTimeout, BuildFails, BuildCrash, contactVars
  <1>5. ASSUME BReturn(b)
        PROVE  \A i \in Build \ {b} : bpc'[i] = bpc[i] /\ bcopy'[i] = bcopy[i] /\ bmem'[i] = bmem[i]
                                      /\ emails'[i] = emails[i] /\ hits'[i] = hits[i]
    BY <1>1, <1>2, <1>3, <1>5 DEF BReturn, BGoto
  <1> USE DEF BGoto, buildVars
  <1> DEFINE Kept == \A i \in Build \ {b} :
                       /\ task'[i] = task[i] /\ bpc'[i] = bpc[i] /\ bcopy'[i] = bcopy[i] /\ bmem'[i] = bmem[i]
                       /\ emails'[i] = emails[i] /\ hits'[i] = hits[i]
  <1>6. ASSUME BuildStart(b) PROVE Kept
    BY <1>1, <1>2, <1>3, <1>6 DEF BuildStart
  <1>7. ASSUME BuildMark(b) \/ BuildCheck(b) \/ BuildQuery(b) \/ BuildClean(b) PROVE Kept
    BY <1>1, <1>2, <1>3, <1>7 DEF BuildMark, BuildCheck, BuildQuery, BuildClean
  <1>8. ASSUME NEW c \in Contact, BuildAdd(b, c) PROVE Kept
    BY <1>1, <1>2, <1>3, <1>8 DEF BuildAdd
  <1>9. ASSUME BuildSave(b) PROVE Kept
    BY <1>1, <1>2, <1>3, <1>9 DEF BuildSave
  <1>10. ASSUME BuildAbort(b) \/ BuildTimeout(b) \/ BuildFails(b) \/ BuildCrash(b) PROVE Kept
    BY <1>1, <1>5, <1>10 DEF BuildAbort, BuildTimeout, BuildFails, BuildCrash
  <1>11. ASSUME BuildActivate(b) \/ BuildReschedule(b) PROVE Kept
    <2>1. CASE Complete(b)
      BY <1>1, <1>5, <2>1 DEF Complete
    <2>2. CASE bpc' = [bpc EXCEPT ![b] = "reschedule"] /\ UNCHANGED <<task, bcopy, bmem, emails, hits>>
      BY <1>1, <2>2
    <2> QED
      BY <1>11, <2>1, <2>2 DEF BuildActivate, BuildReschedule
  <1>12. Kept
    <2> HIDE DEF Kept
    <2> QED
      BY <1>6, <1>7, <1>8, <1>9, <1>10, <1>11 DEF BuildStep
  <1> QED
    BY <1>4, <1>12 DEF BuildEffect, userVars, queueVars

\* What an execution makes of its own task.
Steps(b) ==
  /\ task'[b].version = task[b].version
  /\ task[b].state # "free" /\ task'[b].state # "free"
  /\ task[b].begun => task'[b].begun
  /\ bpc'[b] # "idle" => bcopy'[b].version >= 1 /\ task'[b].state = "running" /\ task'[b].begun
  /\ bpc'[b] # "idle" => task'[b].offset <= bmem'[b].offset
  /\ task'[b].begun \/ task'[b].offset = task[b].offset
  /\ calm'.build = b => calm.build = b \/ task'[b].begun
  /\ \/ seg' = seg
     \/ seg'.version = bcopy[b].version /\ seg'.tree = bcopy[b].tree /\ bpc[b] \in {"mark", "activate"}
     \/ seg'.version = seg.version /\ seg'.tree = seg.tree

LEMMA BuildProgress ==
  ASSUME TypeOK, VersionInv, ProgressInv, NEW b \in Build,
         BuildStep(b) \/ BuildTimeout(b) \/ BuildFails(b) \/ BuildCrash(b)
  PROVE  Steps(b)
  <1>1. /\ task \in [Build -> Task] /\ bpc \in [Build -> BPC] /\ bcopy \in [Build -> Row] /\ seg \in Row
        /\ bmem \in [Build -> [offset : Nat, matched : BOOLEAN, moved : BOOLEAN]]
    BY RowTypes
  <1>2. /\ task[b] \in Task /\ bcopy[b] \in Row /\ bmem[b] \in [offset : Nat, matched : BOOLEAN, moved : BOOLEAN]
        /\ emails[b] \subseteq Contact
    BY <1>1 DEF TypeOK
  <1>3. /\ bpc[b] # "idle" => task[b].state = "running" /\ task[b].begun /\ bcopy[b].version >= 1
        /\ bpc[b] # "idle" => task[b].offset <= bmem[b].offset
        /\ task[b].state # "free" => seg.version >= 1
    BY DEF VersionInv, ProgressInv
  <1> USE DEF BGoto
  <1>4. ASSUME BReturn(b) PROVE bpc'[b] = "idle"
    BY <1>1, <1>4 DEF BReturn
  <1>5. CASE BuildStart(b)
    <2>1. task[b].state = "pending" /\ seg' = seg
      BY <1>5 DEF BuildStart, segmentVars
    <2>2. CASE /\ task' = [task EXCEPT ![b].state = "done"]
               /\ UNCHANGED <<buildVars, calm>>
      <3>1. bpc[b] = "idle"
        BY <1>3, <2>1
      <3> QED
        BY <1>1, <1>2, <2>1, <2>2, <3>1 DEF Steps, buildVars, Task
    <2>3. CASE /\ task' = [task EXCEPT ![b].state = "running", ![b].begun = TRUE]
               /\ bcopy' = [bcopy EXCEPT ![b] = seg]
               /\ bmem' = [bmem EXCEPT ![b] = [offset |-> task[b].offset, matched |-> task[b].matched, moved |-> FALSE]]
      <3> DEFINE r == [task[b] EXCEPT !.state = "running", !.begun = TRUE]
      <3>1. task' = [task EXCEPT ![b] = r]
        BY <2>3
      <3>2. task'[b] = r
        BY <1>1, <3>1
      <3>3. /\ task'[b].version = task[b].version /\ task'[b].state = "running" /\ task'[b].begun
            /\ task'[b].offset = task[b].offset
        BY <1>2, <3>2 DEF Task
      <3>4. bcopy'[b] = seg /\ bmem'[b].offset = task[b].offset /\ task[b].offset \in Nat
        BY <1>1, <1>2, <2>3 DEF Task
      <3> QED
        BY <1>3, <2>1, <3>3, <3>4 DEF Steps
    <2> QED
      BY <1>5, <2>2, <2>3 DEF BuildStart
  <1>6. CASE BuildMark(b)
    <2>1. bcopy' = [bcopy EXCEPT ![b] = [bcopy[b] EXCEPT !.status = "building"]] /\ seg' = bcopy'[b]
      BY <1>6 DEF BuildMark
    <2>2. seg'.version = bcopy[b].version /\ seg'.tree = bcopy[b].tree /\ bcopy'[b].version = bcopy[b].version
      BY <1>1, <1>2, <2>1 DEF Row
    <2>3. UNCHANGED <<task, bmem, calm>> /\ bpc[b] = "mark"
      BY <1>6 DEF BuildMark
    <2> QED
      BY <1>3, <2>2, <2>3 DEF Steps
  <1>7. CASE BuildCheck(b)
    BY <1>1, <1>2, <1>3, <1>7 DEF BuildCheck, Steps, segmentVars
  <1>8. CASE BuildAbort(b)
    BY <1>1, <1>2, <1>3, <1>4, <1>8 DEF BuildAbort, Steps, Task
  <1>9. CASE BuildQuery(b) \/ BuildClean(b)
    BY <1>3, <1>9 DEF BuildQuery, BuildClean, Steps, segmentVars
  <1>10. ASSUME NEW c \in Contact, BuildAdd(b, c) PROVE Steps(b)
    <2>1. UNCHANGED <<seg, task, bpc, bcopy>> /\ bpc[b] = "add" /\ (calm' = calm \/ calm' = NotCalm)
      BY <1>10 DEF BuildAdd
    <2>2. bmem'[b].offset = bmem[b].offset
      BY <1>1, <1>2, <1>10 DEF BuildAdd
    <2>3. calm'.build = b => calm.build = b
      BY <2>1 DEF NotCalm, Build
    <2> QED
      BY <1>3, <2>1, <2>2, <2>3 DEF Steps
  <1>11. CASE BuildSave(b)
    <2>1. Cardinality(emails[b]) \in Nat
      BY <1>2, SegmentAssumption, FS_Subset, FS_CardinalityType
    <2>2. NextOffset(b) \in Nat /\ NextOffset(b) >= bmem[b].offset
      BY <1>2, <2>1 DEF NextOffset
    <2>3. bmem'[b].offset = NextOffset(b) /\ UNCHANGED <<seg, bcopy, calm>> /\ bpc[b] # "idle"
      BY <1>1, <1>11 DEF BuildSave, segmentVars
    <2>4. /\ task'[b].version = task[b].version /\ task'[b].state = task[b].state /\ task'[b].begun = task[b].begun
          /\ task'[b].offset \in {task[b].offset, bmem'[b].offset}
      BY <1>1, <1>2, <1>11 DEF BuildSave, Task
    <2>5. task[b].offset \in Nat /\ bmem[b].offset \in Nat
      BY <1>2 DEF Task
    <2>6. task[b].begun
      BY <1>3, <2>3
    <2> QED
      BY <1>3, <2>2, <2>3, <2>4, <2>5, <2>6 DEF Steps
  <1>12. ASSUME Complete(b) PROVE /\ task'[b].version = task[b].version /\ task'[b].state = "done"
                                  /\ task'[b].begun = task[b].begun /\ task'[b].offset = task[b].offset
                                  /\ bpc'[b] = "idle"
    <2> DEFINE r == [task[b] EXCEPT !.state = "done", !.matched = bmem[b].matched]
    <2>1. task' = [task EXCEPT ![b] = r]
      BY <1>12 DEF Complete
    <2>2. task'[b] = r
      BY <1>1, <2>1
    <2>3. BReturn(b)
      BY <1>12 DEF Complete
    <2> QED
      BY <1>2, <1>4, <2>2, <2>3 DEF Task
  <1>13. CASE BuildActivate(b)
    <2>1. seg' = [bcopy[b] EXCEPT !.status = "active"] /\ bpc[b] = "activate" /\ UNCHANGED calm
      BY <1>13 DEF BuildActivate
    <2>2. seg'.version = bcopy[b].version /\ seg'.tree = bcopy[b].tree
      BY <1>2, <2>1 DEF Row
    <2>3. CASE Complete(b)
      BY <1>3, <1>12, <2>1, <2>2, <2>3 DEF Steps
    <2>4. CASE UNCHANGED <<task, bcopy, bmem>>
      BY <1>3, <2>1, <2>2, <2>4 DEF Steps
    <2> QED
      BY <1>13, <2>3, <2>4 DEF BuildActivate
  <1>14. CASE BuildReschedule(b)
    <2>1. /\ Complete(b) /\ UNCHANGED calm /\ bpc[b] = "reschedule"
          /\ seg' = seg \/ seg' = [seg EXCEPT !.recompute = "later"]
      BY <1>14 DEF BuildReschedule
    <2>2. seg'.version = seg.version /\ seg'.tree = seg.tree
      BY <1>1, <2>1 DEF Row
    <2> QED
      BY <1>3, <1>12, <2>1, <2>2 DEF Steps
  <1>15. CASE BuildTimeout(b)
    <2> DEFINE r == [task[b] EXCEPT !.state = "pending", !.offset = bmem[b].offset, !.matched = bmem[b].matched]
    <2>1. task' = [task EXCEPT ![b] = r] /\ UNCHANGED <<seg, calm>> /\ bpc[b] = "check"
      BY <1>15 DEF BuildTimeout, segmentVars
    <2>2. task'[b] = r
      BY <1>1, <2>1
    <2>3. task'[b].version = task[b].version /\ task'[b].state = "pending" /\ task'[b].begun = task[b].begun
      BY <1>2, <2>2 DEF Task
    <2>4. task[b].begun
      BY <1>3, <2>1
    <2> QED
      BY <1>3, <1>4, <1>15, <2>1, <2>3, <2>4 DEF Steps, BuildTimeout
  <1>16. CASE BuildFails(b) \/ BuildCrash(b)
    <2>1. BReturn(b) /\ UNCHANGED <<seg, calm>> /\ bpc[b] # "idle"
      BY <1>16 DEF BuildFails, BuildCrash, segmentVars
    <2>2. /\ task'[b].version = task[b].version /\ task'[b].state \in {"pending", "failed"}
          /\ task'[b].begun = task[b].begun /\ task'[b].offset = task[b].offset
      BY <1>1, <1>2, <1>16 DEF BuildFails, BuildCrash, Task
    <2> QED
      BY <1>3, <1>4, <2>1, <2>2 DEF Steps
  <1> QED
    BY <1>5, <1>6, <1>7, <1>8, <1>9, <1>10, <1>11, <1>13, <1>14, <1>15, <1>16 DEF BuildStep

LEMMA BuildsProgress ==
  ASSUME TypeOK, VersionInv, ProgressInv, NEW b \in Build,
         BuildStep(b) \/ BuildTimeout(b) \/ BuildFails(b) \/ BuildCrash(b)
  PROVE  VersionInv' /\ ProgressInv'
  <1>1. BuildEffect(b) /\ Steps(b)
    BY BuildEffects, BuildProgress
  <1>2. seg'.version >= 1
    BY <1>1 DEF Steps, VersionInv
  <1>3. ASSUME NEW i \in Build
        PROVE  /\ task'[i].state # "free" => task'[i].version >= 1 /\ seg'.version >= 1
               /\ bpc'[i] # "idle" => bcopy'[i].version >= 1
               /\ bpc'[i] # "idle" => task'[i].state = "running" /\ task'[i].begun /\ task'[i].offset <= bmem'[i].offset
               /\ ~task'[i].begun => task'[i].offset = 0
               /\ task'[i].state = "free" => ~task'[i].begun /\ task'[i].version = 0
               /\ calm'.build = i => task'[i].begun
    <2>1. CASE i = b
      BY <1>1, <1>2, <2>1 DEF Steps, VersionInv, ProgressInv
    <2>2. CASE i # b
      <3>1. calm'.build = i => calm.build = i
        BY <1>1, <2>2 DEF BuildEffect, NotCalm, Build
      <3> QED
        BY <1>1, <1>2, <2>2, <3>1 DEF BuildEffect, VersionInv, ProgressInv
    <2> QED
      BY <2>1, <2>2
  <1> QED
    BY <1>1, <1>2, <1>3 DEF BuildEffect, VersionInv, ProgressInv

\* Contacts and workers have no part in the progress of builds.
LEMMA ProgressUntouched ==
  ASSUME VersionInv, ProgressInv, UNCHANGED <<seg, task, bpc, bcopy, bmem, upc, ucopy>>,
         calm' \in {calm, NotCalm}
  PROVE  VersionInv' /\ ProgressInv'
  <1>1. \A b \in Build : calm'.build = b => calm.build = b
    BY DEF NotCalm, Build
  <1> QED
    BY <1>1 DEF VersionInv, ProgressInv

-----------------------------------------------------------------------------
(* Copies and memberships.                                                 *)

\* The order of the batches depends on the contacts that exist, on nothing
\* else.
PlaceIn(S, c) == Cardinality({d \in S : d < c})
BatchOf(S, o) == {c \in S : Cardinality({d \in S : d < c}) \in o .. (o + BatchSize - 1)}

LEMMA Places ==
  ASSUME NEW c
  PROVE  Rank(c) = PlaceIn(present, c) /\ Rank(c)' = PlaceIn(present', c)
  BY DEF Rank, PlaceIn

LEMMA Batches ==
  ASSUME NEW b
  PROVE  /\ GetBatch(bmem[b].offset) = BatchOf(present, bmem[b].offset)
         /\ GetBatch(bmem[b].offset)' = BatchOf(present', bmem'[b].offset)
  BY DEF GetBatch, BatchOf

\* Steps after which nothing is calm claim nothing.
LEMMA NothingCalm ==
  ASSUME calm' = NotCalm
  PROVE  CopiesInv' /\ MembersInv'
  BY DEF CopiesInv, MembersInv, NotCalm, Build

\* Copies of what stays the same.
LEMMA SameBuildCopy ==
  ASSUME NEW b \in Build, BuildCopy(b), present' = present, seg'.version = seg.version, seg'.tree = seg.tree,
         bpc'[b] = bpc[b], bcopy'[b] = bcopy[b], bmem'[b] = bmem[b], emails'[b] = emails[b], hits'[b] = hits[b],
         bpc[b] = "idle" \/ task'[b].version = task[b].version,
         bpc[b] = "add" => \A c \in hits[b] : Fits(c) => Fits(c)'
  PROVE  BuildCopy(b)'
  <1>1. GetBatch(bmem[b].offset)' = GetBatch(bmem[b].offset)
    BY Batches
  <1>2. ASSUME bpc'[b] = "add", NEW c \in hits'[b]
        PROVE  Fits(c)'
    BY <1>2 DEF BuildCopy
  <1>3. bpc'[b] \in {"query", "add"} => emails'[b] = GetBatch(bmem[b].offset)'
    BY <1>1 DEF BuildCopy
  <1> QED
    BY <1>2, <1>3 DEF BuildCopy

LEMMA SameWorkerCopy ==
  ASSUME NEW p \in Worker, WorkerCopy(p), seg'.version = seg.version, seg'.tree = seg.tree,
         qpc'[p] = qpc[p], qcopy'[p] = qcopy[p], cur'[p] = cur[p], match'[p] = match[p],
         qpc[p] = "write" /\ cur[p] \in present' => cur[p] \in present /\ Fits(cur[p])' = Fits(cur[p])
  PROVE  WorkerCopy(p)'
  <1>1. Fits(cur[p])' = (seg'.tree \in fits'[cur'[p]])
    BY DEF Fits
  <1>2. qpc'[p] \in {"contacts", "write"} => qcopy'[p].version = seg'.version /\ qcopy'[p].tree = seg'.tree
    BY DEF WorkerCopy
  <1>3. ASSUME qpc'[p] = "write", cur'[p] \in present'
        PROVE  match'[p] = Fits(cur[p])'
    BY <1>3 DEF WorkerCopy, Fits
  <1> QED
    BY <1>2, <1>3 DEF WorkerCopy

\* What a step does to the members build b accounts for: a membership it
\* makes sure of is right, every other is as right as it was; and what b
\* newly has behind it is complete.
Steady(b) ==
  /\ \A c \in Contact : Sure(c)' =>
       \/ Right(c)'
       \/ /\ Sure(c) /\ Fits(c)' = Fits(c)
          /\ member'[c] >= seg.version <=> member[c] >= seg.version
          /\ (Passed(b, c) \/ Seen(c))' => Passed(b, c) \/ Seen(c) \/ ~Fits(c)
  /\ Cleaned(b)' => \A c \in Contact : member'[c] = 0 \/ member'[c] >= seg.version

LEMMA MembersStep ==
  ASSUME NEW b \in Build, MembersOf(b), Steady(b), calm' = calm, seg'.version = seg.version
  PROVE  MembersOf(b)'
  <1>1. ASSUME NEW c \in Contact, Sure(c)'
        PROVE  /\ c \notin calm'.kept /\ member'[c] >= seg'.version => Fits(c)'
               /\ Fits(c)' /\ (Passed(b, c) \/ Seen(c))' => member'[c] >= seg'.version
    <2>1. CASE Right(c)'
      BY <2>1 DEF Right
    <2>2. CASE /\ Sure(c) /\ Fits(c)' = Fits(c)
               /\ member'[c] >= seg.version <=> member[c] >= seg.version
               /\ (Passed(b, c) \/ Seen(c))' => Passed(b, c) \/ Seen(c) \/ ~Fits(c)
      <3>1. /\ c \notin calm.kept /\ member[c] >= seg.version => Fits(c)
            /\ Fits(c) /\ (Passed(b, c) \/ Seen(c)) => member[c] >= seg.version
        BY <2>2 DEF MembersOf
      <3> QED
        BY <2>2, <3>1
    <2> QED
      BY <1>1, <2>1, <2>2 DEF Steady
  <1> QED
    BY <1>1 DEF MembersOf, Steady

\* The version of a task never changes, but when the task is made.
LEMMA MembersInvStep ==
  ASSUME TypeOK, TypeOK', ProgressInv, MembersInv, calm' = calm, seg'.version = seg.version,
         \A i \in Build : task'[i].version = task[i].version \/ task[i].state = "free",
         \A b \in Build : calm.build = b /\ task[b].version = seg.version /\ IsLast(b) /\ MembersOf(b) => Steady(b)
  PROVE  MembersInv'
  <1> SUFFICES ASSUME NEW b \in Build, calm'.build = b, task'[b].version = seg'.version, IsLast(b)'
               PROVE  MembersOf(b)'
    BY DEF MembersInv
  <1>1. task[b].begun /\ task[b].state # "free" /\ task'[b].version = task[b].version
    BY DEF ProgressInv
  <1>2. ASSUME NEW i \in Build \ {b} PROVE task[i].version <= task[b].version
    <2>1. task'[i].version <= task'[b].version
      BY DEF IsLast
    <2>2. task[i].version = task'[i].version \/ task[i].version = 0
      BY DEF ProgressInv
    <2>3. task[b].version \in Nat /\ task[i].version \in Nat /\ task'[i].version \in Nat
      BY DEF TypeOK, Task, Version
    <2> QED
      BY <1>1, <2>1, <2>2, <2>3
  <1>3. IsLast(b)
    BY <1>2 DEF IsLast
  <1>4. task[b].version = seg.version
    BY <1>1
  <1> QED
    BY <1>3, <1>4, MembersStep DEF MembersInv

\* A build that stays where it is.
LEMMA SameBuild ==
  ASSUME NEW b \in Build, present' = present, bpc'[b] = bpc[b], task'[b] = task[b], bmem'[b] = bmem[b],
         emails'[b] = emails[b], hits'[b] = hits[b]
  PROVE  Cleaned(b)' = Cleaned(b) /\ \A c : Passed(b, c)' => Passed(b, c)
  <1>1. ASSUME NEW c, Passed(b, c)' PROVE Passed(b, c)
    <2>1. Rank(c)' = Rank(c)
      BY Places
    <2> QED
      BY <1>1, <2>1 DEF Passed
  <1> QED
    BY <1>1 DEF Cleaned

LEMMA SameWorkers ==
  ASSUME UNCHANGED <<present, queue, seen>>, NEW c
  PROVE  Seen(c)' = Seen(c) /\ Sure(c)' = Sure(c)
  BY DEF Seen, Sure

LEMMA CommandsCalm ==
  ASSUME TypeOK, TypeOK', CalmInv, CommandStep
  PROVE  CopiesInv' /\ MembersInv'
  <1>1. CommandEffect /\ UNCHANGED <<present, fits, queue, buildVars, queueVars>>
    BY CommandEffects DEF CalmInv
  <1>2. UNCHANGED <<bpc, bcopy, bmem, emails, hits, qpc, qcopy, seen, cur, match>>
    BY <1>1 DEF buildVars, queueVars
  <1> SUFFICES ASSUME calm' = calm, member' = member, seg'.version = seg.version, seg'.tree = seg.tree
               PROVE  CopiesInv' /\ MembersInv'
    BY <1>1, NothingCalm DEF CommandEffect
  <1>3. \A c : Fits(c)' = Fits(c)
    BY <1>1 DEF Fits
  <1>4. ASSUME NEW b \in Build PROVE task'[b] = task[b] \/ task[b].state = "free"
    BY <1>1 DEF CommandEffect, Created
  <1>5. CopiesInv'
    <2>1. ASSUME calm.build # 0, NEW b \in Build PROVE BuildCopy(b)'
      <3>1. bpc[b] = "idle" \/ task'[b].version = task[b].version
        BY <1>4 DEF CalmInv, ProgressInv
      <3>2. BuildCopy(b)
        BY <2>1 DEF CalmInv, CopiesInv
      <3> QED
        BY <1>1, <1>2, <1>3, <3>1, <3>2, SameBuildCopy
    <2>2. ASSUME calm.build # 0, NEW p \in Worker PROVE WorkerCopy(p)'
      <3>1. WorkerCopy(p)
        BY <2>2 DEF CalmInv, CopiesInv
      <3>2. Fits(cur[p])' = Fits(cur[p])
        BY <1>1, <1>2 DEF Fits
      <3> QED
        BY <1>1, <1>2, <3>1, <3>2, SameWorkerCopy
    <2> QED
      BY <2>1, <2>2 DEF CopiesInv
  <1>6. ASSUME NEW b \in Build, calm.build = b, MembersOf(b) PROVE Steady(b)
    <2>1. task'[b] = task[b]
      BY <1>4, <1>6 DEF CalmInv, ProgressInv
    <2>2. Cleaned(b)' = Cleaned(b) /\ \A c : Passed(b, c)' => Passed(b, c)
      BY <1>1, <1>2, <2>1, SameBuild
    <2>3. \A c : Seen(c)' = Seen(c) /\ Sure(c)' = Sure(c)
      BY <1>1, <1>2, SameWorkers
    <2> QED
      BY <1>3, <1>6, <2>2, <2>3 DEF Steady, MembersOf
  <1>7. MembersInv'
    BY <1>4, <1>6, MembersInvStep DEF CalmInv
  <1> QED
    BY <1>5, <1>7

LEMMA PlaceType ==
  ASSUME NEW S \in SUBSET Contact, NEW c
  PROVE  PlaceIn(S, c) \in Nat
  BY SegmentAssumption, FS_Subset, FS_CardinalityType DEF PlaceIn

\* A contact that changes is queued, and nobody has it in hand.
LEMMA ChangesCalm ==
  ASSUME TypeOK, TypeOK', IInv, CalmInv, NEW c \in Contact, NEW F \in Profile, ContactChanges(c, F, Locked),
         calm' = calm, \A b \in Build : ~(bpc[b] = "add" /\ c \in emails[b]), UNCHANGED <<buildVars, queueVars>>
  PROVE  CopiesInv' /\ MembersInv'
  <1>1. UNCHANGED <<bpc, bcopy, bmem, emails, hits, qpc, qcopy, held, seen, cur, match, seg, member, task, present>>
    BY DEF buildVars, queueVars, ContactChanges, segmentVars
  <1>2. fits' = [fits EXCEPT ![c] = F] /\ queue' = queue \cup {c} /\ \A p \in Worker : c \notin held[p]
    BY DEF ContactChanges, Enqueue, Locked, IInv, QueueTypes
  <1>3. ~Seen(c) /\ \A p \in Worker : qpc[p] = "write" => cur[p] \in Contact \ {c}
    BY <1>2 DEF Seen, IInv, LockInv, QueueTypes
  <1>4. \A d \in Contact \ {c} : Fits(d)' = Fits(d)
    BY <1>1, <1>2 DEF Fits, TypeOK
  <1>5. CopiesInv'
    <2>1. ASSUME calm.build # 0, NEW b \in Build PROVE BuildCopy(b)'
      <3>1. BuildCopy(b)
        BY <2>1 DEF CalmInv, CopiesInv
      <3>2. ASSUME bpc[b] = "add", NEW d \in hits[b], Fits(d) PROVE Fits(d)'
        <4>1. d # c /\ d \in Contact
          BY <3>1, <3>2 DEF BuildCopy, TypeOK
        <4> QED
          BY <1>4, <3>2, <4>1
      <3> QED
        BY <1>1, <3>1, <3>2, SameBuildCopy
    <2>2. ASSUME calm.build # 0, NEW p \in Worker PROVE WorkerCopy(p)'
      <3>1. WorkerCopy(p)
        BY <2>2 DEF CalmInv, CopiesInv
      <3>2. qpc[p] = "write" => Fits(cur[p])' = Fits(cur[p])
        BY <1>1, <1>2, <1>3 DEF Fits, TypeOK
      <3> QED
        BY <1>1, <3>1, <3>2, SameWorkerCopy
    <2> QED
      BY <2>1, <2>2 DEF CopiesInv
  <1>6. ASSUME NEW b \in Build, calm.build = b, MembersOf(b) PROVE Steady(b)
    <2>1. Cleaned(b)' = Cleaned(b) /\ \A d : Passed(b, d)' => Passed(b, d)
      BY <1>1, SameBuild
    <2>2. ~Sure(c)'
      BY <1>1, <1>2, <1>3 DEF Sure, Seen
    <2>3. \A d \in Contact \ {c} : (Sure(d)' => Sure(d)) /\ (Seen(d)' => Seen(d))
      BY <1>1, <1>2 DEF Sure, Seen
    <2> QED
      BY <1>1, <1>4, <1>6, <2>1, <2>2, <2>3 DEF Steady, MembersOf
  <1>7. MembersInv'
    BY <1>1, <1>6, MembersInvStep DEF CalmInv
  <1> QED
    BY <1>5, <1>7

\* Contacts that come and go shift the batches: all stays calm only if no
\* build has begun to count.
LEMMA ComingsCalm ==
  ASSUME TypeOK, TypeOK', IInv, CalmInv, NEW c \in Contact,
         (\E F \in Profile : ContactAdded(c, F, Locked)) \/ ContactDeleted(c),
         calm' = calm, \A b \in Build : ~Building(b), UNCHANGED <<buildVars, queueVars>>
  PROVE  CopiesInv' /\ MembersInv'
  <1>1. UNCHANGED <<bpc, bcopy, bmem, emails, hits, qpc, qcopy, held, seen, cur, match, seg, member, task>>
    BY DEF buildVars, queueVars, ContactAdded, ContactDeleted, segmentVars
  <1>2. \A d \in Contact \ {c} : Fits(d)' = Fits(d) /\ (d \in present' <=> d \in present) /\ (d \in queue' <=> d \in queue)
    BY <1>1 DEF ContactAdded, ContactDeleted, Enqueue, Fits, TypeOK
  <1>3. \/ c \notin present'
        \/ c \in queue' /\ \A p \in Worker : c \notin held[p]
    BY DEF ContactAdded, ContactDeleted, Enqueue, Locked, IInv, QueueTypes
  <1>4. c \in present' => ~Seen(c) /\ \A p \in Worker : qpc[p] = "write" => cur[p] \in Contact \ {c}
    BY <1>3 DEF Seen, IInv, LockInv, QueueTypes
  <1>5. \A b \in Build : bpc[b] = "idle" /\ ~(task[b].state = "pending" /\ task[b].offset > 0)
    BY DEF Building
  <1>6. CopiesInv'
    <2>1. ASSUME NEW b \in Build PROVE BuildCopy(b)'
      BY <1>1, <1>5 DEF BuildCopy
    <2>2. ASSUME calm.build # 0, NEW p \in Worker PROVE WorkerCopy(p)'
      <3>1. WorkerCopy(p)
        BY <2>2 DEF CalmInv, CopiesInv
      <3>2. ASSUME qpc[p] = "write", cur[p] \in present'
            PROVE  cur[p] \in present /\ Fits(cur[p])' = Fits(cur[p])
        <4>1. cur[p] \in Contact \ {c}
          BY <1>4, <3>2 DEF IInv, LockInv, QueueTypes, TypeOK
        <4> QED
          BY <1>1, <1>2, <3>2, <4>1 DEF Fits
      <3> QED
        BY <1>1, <3>1, <3>2, SameWorkerCopy
    <2> QED
      BY <2>1, <2>2 DEF CopiesInv
  <1>7. ASSUME NEW b \in Build, calm.build = b, MembersOf(b) PROVE Steady(b)
    <2>1. Cleaned(b)' = Cleaned(b)
      BY <1>1 DEF Cleaned
    <2>2. ASSUME NEW d, Passed(b, d)' PROVE Passed(b, d)
      <3>1. bpc'[b] = "idle" /\ task'[b] = task[b]
        BY <1>1, <1>5
      <3>2. Rank(d)' \in Nat /\ task[b].offset \in Nat
        BY Places, PlaceType DEF TypeOK, Task
      <3> QED
        BY <1>5, <2>2, <3>1, <3>2 DEF Passed
    <2>3. ~Sure(c)'
      BY <1>1, <1>3, <1>4 DEF Sure, Seen
    <2>4. \A d \in Contact \ {c} : (Sure(d)' => Sure(d)) /\ (Seen(d)' => Seen(d))
      BY <1>1, <1>2 DEF Sure, Seen
    <2> QED
      BY <1>1, <1>2, <1>7, <2>1, <2>2, <2>3, <2>4 DEF Steady, MembersOf
  <1>8. MembersInv'
    BY <1>1, <1>7, MembersInvStep DEF CalmInv
  <1> QED
    BY <1>6, <1>8

LEMMA ContactsCalm ==
  ASSUME TypeOK, TypeOK', IInv, CalmInv, ContactStep
  PROVE  CopiesInv' /\ MembersInv'
  <1>1. UNCHANGED <<buildVars, queueVars>>
    BY DEF ContactStep
  <1>2. PICK c \in Contact :
          \/ calm' = NotCalm
          \/ /\ \E F \in Profile : ContactChanges(c, F, Locked)
             /\ calm' = calm /\ \A b \in Build : ~(bpc[b] = "add" /\ c \in emails[b])
          \/ /\ (\E F \in Profile : ContactAdded(c, F, Locked)) \/ ContactDeleted(c)
             /\ calm' = calm /\ \A b \in Build : ~Building(b)
    BY DEF ContactStep
  <1> QED
    BY <1>1, <1>2, NothingCalm, ChangesCalm, ComingsCalm

\* A worker makes sure of a contact by writing what is right.
LEMMA WorkersCalm ==
  ASSUME TypeOK, TypeOK', IInv, IInv', CalmInv, NEW p \in Worker,
         (\E S \in SUBSET Contact : QueueLock(p, S)) \/ QueueStep(p) \/ QueueRollback(p)
  PROVE  CopiesInv' /\ MembersInv'
  <1>1. UNCHANGED <<seg, present, fits, task, bpc, bcopy, bmem, emails, hits>> /\ (calm' = calm \/ calm' = NotCalm)
    BY DEF QueueLock, QueueStep, QueueRead, QueueEvaluate, QueueWrite, QueueCommit,
       QueueDiscard, Commit, QueueRollback,
       segmentVars, contactVars, buildVars
  <1> SUFFICES ASSUME calm' = calm, calm.build # 0
               PROVE  CopiesInv' /\ MembersInv'
    <2>1. CASE calm' = calm /\ calm.build = 0
      BY <2>1 DEF CopiesInv, MembersInv, Build
    <2> QED
      BY <1>1, <2>1, NothingCalm
  <1>2. \A c : Fits(c)' = Fits(c)
    BY <1>1 DEF Fits
  <1>3. \A o \in Worker \ {p} : qpc'[o] = qpc[o] /\ qcopy'[o] = qcopy[o] /\ cur'[o] = cur[o] /\ match'[o] = match[o]
                                /\ seen'[o] = seen[o]
    BY DEF QueueLock, QueueStep, QueueRead, QueueEvaluate, QueueWrite, QueueCommit,
       QueueDiscard, Commit, QueueRollback, QGoto, QReturn,
       TypeOK
  <1>4. WorkerCopy(p)
    BY DEF CalmInv, CopiesInv
  <1>5. WorkerCopy(p)'
    <2> USE DEF QGoto, TypeOK
    <2>1. CASE (\E S \in SUBSET Contact : QueueLock(p, S)) \/ QueueCommit(p) \/ QueueDiscard(p) \/ QueueRollback(p)
      <3>1. qpc'[p] \in {"read", "idle"}
        BY <2>1 DEF QueueLock, QueueCommit, QueueDiscard, Commit, QueueRollback, QReturn
      <3> QED
        BY <3>1 DEF WorkerCopy
    <2>2. CASE QueueRead(p)
      <3>1. qpc'[p] \in {"contacts", "discard"} /\ qcopy'[p] = seg
        BY <2>2 DEF QueueRead
      <3> QED
        BY <1>1, <3>1 DEF WorkerCopy
    <2>3. ASSUME NEW c \in Contact, QueueEvaluate(p, c) PROVE WorkerCopy(p)'
      <3>1. /\ qpc[p] = "contacts" /\ qpc'[p] = "write" /\ qcopy' = qcopy /\ cur'[p] = c
            /\ match'[p] = (c \in present /\ qcopy[p].tree \in fits[c])
        BY <2>3 DEF QueueEvaluate
      <3>2. qcopy'[p].version = seg'.version /\ qcopy'[p].tree = seg'.tree
        BY <1>1, <1>4, <3>1 DEF WorkerCopy
      <3>3. cur'[p] \in present' => match'[p] = Fits(cur[p])'
        BY <1>1, <3>1, <3>2 DEF Fits
      <3> QED
        BY <3>1, <3>2, <3>3 DEF WorkerCopy
    <2>4. CASE QueueWrite(p)
      <3>1. qpc[p] = "write" /\ qpc'[p] = "contacts" /\ qcopy' = qcopy
        BY <2>4 DEF QueueWrite
      <3> QED
        BY <1>1, <1>4, <3>1 DEF WorkerCopy
    <2> QED
      BY <2>1, <2>2, <2>3, <2>4 DEF QueueStep
  <1>6. CopiesInv'
    <2>1. ASSUME NEW b \in Build PROVE BuildCopy(b)'
      BY <1>1, <1>2, SameBuildCopy DEF CalmInv, CopiesInv
    <2>2. ASSUME NEW o \in Worker \ {p} PROVE WorkerCopy(o)'
      <3>1. Fits(cur[o])' = Fits(cur[o])
        BY <1>1, <1>3 DEF Fits
      <3>2. WorkerCopy(o)
        BY DEF CalmInv, CopiesInv
      <3> QED
        BY <1>1, <1>3, <3>1, <3>2, SameWorkerCopy
    <2> QED
      BY <1>5, <2>1, <2>2 DEF CopiesInv
  <1>7. ASSUME NEW b \in Build, calm.build = b, task[b].version = seg.version, MembersOf(b) PROVE Steady(b)
    <2>1. Cleaned(b)' = Cleaned(b) /\ \A c : Passed(b, c)' => Passed(b, c)
      BY <1>1, SameBuild
    <2>2. seg.version >= 1 /\ seg.version \in Version
      <3>1. task[b].begun
        BY <1>7 DEF CalmInv, ProgressInv
      <3> QED
        BY <1>7, <3>1 DEF CalmInv, ProgressInv, VersionInv, TypeOK, Row
    <2>3. CASE QueueWrite(p)
      <3>1. qpc[p] = "write" /\ seen' = [seen EXCEPT ![p] = @ \cup {cur[p]}] /\ UNCHANGED queue
        BY <2>3 DEF QueueWrite, contactVars
      <3>2. IF match[p] THEN AddContact(cur[p], qcopy[p].version) ELSE RemoveContact(cur[p])
        <4>1. calm' # NotCalm
          BY DEF NotCalm
        <4> QED
          BY <2>3, <4>1 DEF QueueWrite
      <3>3. qcopy[p].version = seg.version /\ (cur[p] \in present => match[p] = Fits(cur[p])) /\ cur[p] \in Contact
        BY <1>4, <3>1 DEF WorkerCopy, IInv, LockInv, QueueTypes
      <3>4. /\ match[p] => member'[cur[p]] = seg.version
            /\ ~match[p] => member'[cur[p]] = 0
            /\ \A d \in Contact \ {cur[p]} : member'[d] = member[d]
        BY <3>2, <3>3 DEF AddContact, RemoveContact, TypeOK
      <3>5. ASSUME NEW d \in Contact, d = cur[p], d \in present PROVE Right(d)'
        <4>1. match[p] = (seg'.tree \in fits'[d])
          BY <1>1, <3>3, <3>5 DEF Fits
        <4>2. member'[d] >= seg'.version <=> match[p]
          BY <1>1, <2>2, <3>4, <3>5 DEF Version
        <4> QED
          BY <4>1, <4>2 DEF Right, Fits
      <3>6. ASSUME NEW d \in Contact \ {cur[p]} PROVE (Seen(d)' => Seen(d)) /\ (Sure(d)' => Sure(d))
        BY <1>1, <3>1 DEF Seen, Sure, TypeOK
      <3>7. \A d \in Contact : Sure(d)' => d \in present
        BY <1>1 DEF Sure
      <3>8. Cleaned(b)' => \A d \in Contact : member'[d] = 0 \/ member'[d] >= seg.version
        <4>1. ASSUME NEW d \in Contact PROVE member'[d] = member[d] \/ member'[d] = 0 \/ member'[d] >= seg.version
          BY <2>2, <3>4 DEF Version
        <4> QED
          BY <1>7, <2>1, <4>1 DEF MembersOf
      <3>9. ASSUME NEW d \in Contact, Sure(d)', d # cur[p]
            PROVE  /\ Sure(d) /\ Fits(d)' = Fits(d)
                   /\ member'[d] >= seg.version <=> member[d] >= seg.version
                   /\ (Passed(b, d) \/ Seen(d))' => Passed(b, d) \/ Seen(d) \/ ~Fits(d)
        BY <1>2, <2>1, <3>4, <3>6, <3>9
      <3> QED
        BY <3>5, <3>7, <3>8, <3>9 DEF Steady
    <2>4. CASE ~QueueWrite(p)
      <3>1. member' = member
        BY <2>4 DEF QueueLock, QueueStep, QueueRead, QueueEvaluate, QueueCommit,
           QueueDiscard, Commit, QueueRollback, segmentVars
      <3>2. \/ UNCHANGED <<queue, seen>>
            \/ /\ queue' = queue \/ queue' = queue \ seen[p]
               /\ seen' = [seen EXCEPT ![p] = {}]
        <4>1. calm' # NotCalm
          BY DEF NotCalm
        <4> QED
          BY <2>4, <4>1 DEF QueueLock, QueueStep, QueueRead, QueueEvaluate, QueueCommit,
             QueueDiscard, Commit, QueueRollback, QReturn,
             contactVars
      <3>3. ASSUME NEW d \in Contact PROVE (Seen(d)' => Seen(d)) /\ (Sure(d)' => Sure(d))
        <4>1. Seen(d)' => Seen(d)
          BY <3>2 DEF Seen, TypeOK
        <4>2. d \in queue => d \in queue' \/ Seen(d)
          BY <3>2 DEF Seen
        <4> QED
          BY <1>1, <4>1, <4>2 DEF Sure
      <3> QED
        BY <1>2, <1>7, <2>1, <3>1, <3>3 DEF Steady, MembersOf
    <2> QED
      BY <2>3, <2>4
  <1>8. MembersInv'
    BY <1>1, <1>7, MembersInvStep DEF CalmInv
  <1> QED
    BY <1>6, <1>8

\* A build that finds the segment to itself finds every copy gone, and no
\* membership that is wrong, but by mistake.
LEMMA AloneCalm ==
  ASSUME TypeOK, TypeOK', IInv, CalmInv, NEW b \in Build, BuildStart(b),
         ~task[b].begun, Alone(b), seg.version <= task[b].version
  PROVE  CopiesInv' /\ MembersInv'
  <1>1. /\ task' = [task EXCEPT ![b].state = "running", ![b].begun = TRUE]
        /\ bcopy' = [bcopy EXCEPT ![b] = seg]
        /\ bmem' = [bmem EXCEPT ![b] = [offset |-> task[b].offset, matched |-> task[b].matched, moved |-> FALSE]]
        /\ BGoto(b, IF seg.status = "building" THEN "check" ELSE "mark")
        /\ calm' = [build |-> b, kept |-> Mistaken(b)]
    <2>1. ~(seg.version > task[b].version)
      BY DEF TypeOK, Row, Task, Version
    <2> QED
      BY <2>1 DEF BuildStart
  <1>2. UNCHANGED <<seg, member, present, fits, queue, qpc, held, seen>>
    BY DEF BuildStart, segmentVars, contactVars, queueVars
  <1>3. task[b].offset = 0 /\ task[b].offset \in Nat
    BY DEF CalmInv, ProgressInv, TypeOK, Task
  <1>4. bpc'[b] \in {"mark", "check"} /\ bcopy'[b] = seg /\ bmem'[b].offset = 0
    BY <1>1, <1>3 DEF BGoto, TypeOK
  <1>5. task'[b].version = task[b].version
    <2> DEFINE r == [task[b] EXCEPT !.state = "running", !.begun = TRUE]
    <2>1. task' = [task EXCEPT ![b] = r]
      BY <1>1
    <2>2. task'[b] = r
      BY <2>1 DEF TypeOK
    <2> QED
      BY <2>2 DEF TypeOK, Task
  <1>6. CopiesInv'
    <2>1. ASSUME NEW i \in Build PROVE BuildCopy(i)'
      <3>1. CASE i = b
        BY <1>2, <1>4, <1>5, <3>1 DEF BuildCopy
      <3>2. CASE i # b
        <4>1. bpc'[i] = "idle"
          BY <1>1, <3>2 DEF BGoto, TypeOK, Alone
        <4> QED
          BY <4>1 DEF BuildCopy
      <3> QED
        BY <3>1, <3>2
    <2>2. ASSUME NEW p \in Worker PROVE WorkerCopy(p)'
      BY <1>2 DEF WorkerCopy, Alone
    <2> QED
      BY <2>1, <2>2 DEF CopiesInv
  <1>7. MembersInv'
    <2> SUFFICES ASSUME task'[b].version = seg'.version
                 PROVE  MembersOf(b)'
      BY <1>1 DEF MembersInv
    <2>1. \A c : ~Seen(c)'
      BY <1>2 DEF Seen, Alone, IInv, LockInv
    <2>2. ~Cleaned(b)'
      BY <1>4 DEF Cleaned
    <2>3. \A c : ~Passed(b, c)'
      <3>1. ASSUME NEW c, Passed(b, c)' PROVE FALSE
        <4>1. Rank(c)' \in Nat
          BY Places, PlaceType DEF TypeOK
        <4> QED
          BY <1>4, <3>1, <4>1 DEF Passed
      <3> QED
        BY <3>1
    <2>4. ASSUME NEW c \in Contact, Sure(c)', c \notin calm'.kept, member'[c] >= seg'.version
          PROVE  Fits(c)'
      <3>1. c \in present \ queue
        BY <1>2, <2>1, <2>4 DEF Sure
      <3>2. c \notin Mistaken(b) /\ member[c] >= task[b].version
        BY <1>1, <1>2, <1>5, <2>4
      <3> QED
        BY <1>2, <3>1, <3>2 DEF Mistaken, Fits
    <2> QED
      BY <2>1, <2>2, <2>3, <2>4 DEF MembersOf
  <1> QED
    BY <1>6, <1>7

\* What an execution does while all is calm: its copy stays that of the
\* segment ...
LEMMA BuildCopyStep ==
  ASSUME TypeOK, CalmInv, NEW b \in Build,
         BuildStep(b) \/ BuildTimeout(b) \/ BuildFails(b) \/ BuildCrash(b),
         calm' = calm, calm.build # 0
  PROVE  seg'.version = seg.version /\ seg'.tree = seg.tree /\ BuildCopy(b)'
  <1>1. BuildCopy(b)
    BY DEF CalmInv, CopiesInv
  <1>2. BuildEffect(b) /\ Steps(b)
    BY BuildEffects, BuildProgress DEF CalmInv
  <1>3. seg'.version = seg.version /\ seg'.tree = seg.tree
    BY <1>1, <1>2 DEF Steps, BuildCopy
  <1> SUFFICES BuildCopy(b)'
    BY <1>3
  <1>4. task'[b].version = task[b].version /\ present' = present /\ fits' = fits
    BY <1>2 DEF Steps, BuildEffect
  <1>5. GetBatch(bmem[b].offset)' = BatchOf(present, bmem'[b].offset) /\ GetBatch(bmem[b].offset) = BatchOf(present, bmem[b].offset)
    BY <1>4, Batches
  <1>6. \A c : Fits(c)' = Fits(c)
    BY <1>3, <1>4 DEF Fits
  <1>7. /\ bpc \in [Build -> BPC] /\ bcopy \in [Build -> Row] /\ emails \in [Build -> SUBSET Contact]
        /\ hits \in [Build -> SUBSET Contact]
        /\ bmem \in [Build -> [offset : Nat, matched : BOOLEAN, moved : BOOLEAN]]
    BY DEF TypeOK
  <1>8. ASSUME bpc'[b] = "idle" PROVE BuildCopy(b)'
    BY <1>8 DEF BuildCopy
  <1>9. ASSUME BReturn(b) PROVE BuildCopy(b)'
    BY <1>7, <1>8, <1>9 DEF BReturn, BGoto
  <1>10. ASSUME bpc[b] \notin {"idle", "abort"}, bpc'[b] \in {"mark", "check", "clean", "activate", "reschedule"},
                bcopy'[b].version = bcopy[b].version, bcopy'[b].tree = bcopy[b].tree
         PROVE  BuildCopy(b)'
    BY <1>1, <1>3, <1>4, <1>10 DEF BuildCopy
  <1> USE DEF BGoto
  <1>11. CASE BuildStart(b)
    <2>1. CASE UNCHANGED buildVars /\ task[b].state = "pending"
      <3>1. bpc'[b] = "idle"
        BY <2>1 DEF buildVars, CalmInv, ProgressInv
      <3> QED
        BY <1>8, <3>1
    <2>2. CASE /\ seg.version <= task[b].version
               /\ bcopy' = [bcopy EXCEPT ![b] = seg]
               /\ bpc' = [bpc EXCEPT ![b] = IF seg.status = "building" THEN "check" ELSE "mark"]
      <3>1. bcopy'[b] = seg /\ bpc'[b] \in {"check", "mark"}
        BY <1>7, <2>2
      <3> QED
        BY <1>3, <1>4, <2>2, <3>1 DEF BuildCopy
    <2> QED
      BY <1>11, <2>1, <2>2 DEF BuildStart
  <1>12. CASE BuildMark(b)
    <2>1. bcopy' = [bcopy EXCEPT ![b] = [bcopy[b] EXCEPT !.status = "building"]] /\ bpc[b] = "mark" /\ bpc'[b] = "check"
      BY <1>7, <1>12 DEF BuildMark
    <2>2. bcopy'[b].version = bcopy[b].version /\ bcopy'[b].tree = bcopy[b].tree
      BY <1>7, <2>1 DEF Row
    <2> QED
      BY <1>10, <2>1, <2>2
  <1>13. CASE BuildCheck(b)
    <2>1. CASE seg.version > task[b].version /\ bcopy' = [bcopy EXCEPT ![b] = seg] /\ bpc' = [bpc EXCEPT ![b] = "abort"]
      <3>1. bcopy'[b] = seg /\ bpc'[b] = "abort"
        BY <1>7, <2>1
      <3>2. task'[b].version < seg'.version
        BY <1>3, <1>4, <2>1 DEF TypeOK, Row, Task, Version
      <3> QED
        BY <1>3, <3>1, <3>2 DEF BuildCopy
    <2>2. CASE ~(seg.version > task[b].version)
      <3>1. /\ bpc[b] = "check" /\ bcopy' = bcopy /\ bmem' = bmem
            /\ emails'[b] = GetBatch(bmem[b].offset) /\ bpc'[b] \in {"query", "clean", "activate"}
        BY <1>7, <1>13, <2>2 DEF BuildCheck
      <3>2. bpc'[b] \in {"query", "add"} => emails'[b] = GetBatch(bmem[b].offset)'
        BY <1>5, <3>1
      <3> QED
        BY <1>1, <1>3, <1>4, <3>1, <3>2 DEF BuildCopy
    <2> QED
      BY <1>13, <2>1, <2>2 DEF BuildCheck, TypeOK, Row, Task, Version
  <1>14. CASE BuildQuery(b)
    <2>1. /\ bpc[b] = "query" /\ bpc'[b] = "add" /\ UNCHANGED <<bcopy, bmem, emails>>
          /\ hits'[b] = {c \in emails[b] \cap present : bcopy[b].tree \in fits[c]}
      BY <1>7, <1>14 DEF BuildQuery
    <2>2. hits'[b] \subseteq emails'[b] /\ \A c \in hits'[b] : Fits(c)'
      <3>1. bcopy[b].tree = seg.tree
        BY <1>1, <2>1 DEF BuildCopy
      <3>2. ASSUME NEW c \in hits'[b] PROVE Fits(c)
        BY <2>1, <3>1 DEF Fits
      <3> QED
        BY <1>6, <2>1, <3>2
    <2>3. emails'[b] = GetBatch(bmem[b].offset)'
      BY <1>1, <1>5, <2>1 DEF BuildCopy
    <2> QED
      BY <1>1, <1>3, <1>4, <2>1, <2>2, <2>3 DEF BuildCopy
  <1>15. ASSUME NEW c \in Contact, BuildAdd(b, c) PROVE BuildCopy(b)'
    <2>1. /\ bpc[b] = "add" /\ bpc'[b] = "add" /\ UNCHANGED <<bcopy, emails>>
          /\ hits'[b] \subseteq hits[b] /\ bmem'[b].offset = bmem[b].offset
      BY <1>7, <1>15 DEF BuildAdd
    <2>2. hits'[b] \subseteq emails'[b] /\ \A d \in hits'[b] : Fits(d)'
      BY <1>1, <1>6, <2>1 DEF BuildCopy
    <2>3. emails'[b] = GetBatch(bmem[b].offset)'
      BY <1>1, <1>5, <2>1 DEF BuildCopy
    <2> QED
      BY <1>1, <1>3, <1>4, <2>1, <2>2, <2>3 DEF BuildCopy
  <1>16. CASE BuildSave(b) \/ BuildClean(b)
    BY <1>7, <1>10, <1>16 DEF BuildSave, BuildClean
  <1>17. CASE BuildActivate(b) \/ BuildReschedule(b)
    <2>1. CASE BReturn(b)
      BY <1>9, <2>1
    <2>2. CASE bpc[b] = "activate" /\ bpc' = [bpc EXCEPT ![b] = "reschedule"] /\ UNCHANGED bcopy
      BY <1>7, <1>10, <2>2
    <2> QED
      BY <1>17, <2>1, <2>2 DEF BuildActivate, BuildReschedule, Complete
  <1>18. CASE BuildAbort(b) \/ BuildTimeout(b) \/ BuildFails(b) \/ BuildCrash(b)
    BY <1>9, <1>18 DEF BuildAbort, BuildTimeout, BuildFails, BuildCrash
  <1> QED
    BY <1>11, <1>12, <1>13, <1>14, <1>15, <1>16, <1>17, <1>18 DEF BuildStep

\* ... it removes memberships of earlier versions, and adds true ones of the
\* version of the segment, when no task is of a later one ...
LEMMA BuildMembers ==
  ASSUME TypeOK, CalmInv, NEW b \in Build,
         BuildStep(b) \/ BuildTimeout(b) \/ BuildFails(b) \/ BuildCrash(b),
         calm' = calm, calm.build # 0, task[b].version <= seg.version
  PROVE  \A c \in Contact :
           \/ member'[c] = member[c]
           \/ member'[c] = 0 /\ member[c] < seg.version
           \/ member'[c] = seg.version /\ Fits(c)
  <1>1. BuildCopy(b)
    BY DEF CalmInv, CopiesInv
  <1>2. task[b].version \in Nat /\ seg.version \in Nat /\ member \in [Contact -> Version]
    BY DEF TypeOK, Task, Row, Version
  <1>3. CASE BuildAbort(b)
    BY <1>1, <1>3 DEF BuildAbort, RemoveOldMemberships, BuildCopy
  <1>4. ASSUME NEW c \in Contact, BuildAdd(b, c)
        PROVE  \A d \in Contact : member'[d] = member[d] \/ (member'[d] = seg.version /\ Fits(d))
    <2>1. bpc[b] = "add" /\ c \in hits[b]
      BY <1>4 DEF BuildAdd
    <2>2. task[b].version = seg.version /\ Fits(c)
      BY <1>1, <1>2, <2>1 DEF BuildCopy
    <2>3. member' = member \/ member' = [member EXCEPT ![c] = seg.version]
      BY <1>4, <2>2 DEF BuildAdd, AddContact
    <2>4. ASSUME NEW d \in Contact PROVE member'[d] = member[d] \/ (member'[d] = seg.version /\ d = c)
      BY <1>2, <2>3
    <2> QED
      BY <2>2, <2>4
  <1>5. CASE BuildClean(b)
    <2>1. task[b].version = seg.version
      BY <1>1, <1>2, <1>5 DEF BuildCopy, BuildClean
    <2> QED
      BY <1>5, <2>1 DEF BuildClean, RemoveOldMemberships
  <1>6. CASE member' = member
    BY <1>6
  <1> QED
    BY <1>3, <1>4, <1>5, <1>6
       DEF BuildStep, BuildStart, BuildMark, BuildCheck, BuildQuery, BuildSave, BuildActivate, BuildReschedule,
           BuildTimeout, BuildFails, BuildCrash, segmentVars

\* ... and it puts a contact behind it only with the membership it should
\* have, and claims to have cleaned up only when it has.
Onward(b) ==
  /\ \A c \in present : Fits(c) /\ Passed(b, c)' => Passed(b, c) \/ member'[c] >= seg.version
  /\ Cleaned(b)' => Cleaned(b) \/ \A c \in Contact : member'[c] = 0 \/ member'[c] >= seg.version

LEMMA BuildOnward ==
  ASSUME TypeOK, CalmInv, NEW b \in Build,
         BuildStep(b) \/ BuildTimeout(b) \/ BuildFails(b) \/ BuildCrash(b),
         calm' = calm, calm.build # 0, task[b].version = seg.version
  PROVE  Onward(b)
  <1>1. BuildCopy(b)
    BY DEF CalmInv, CopiesInv
  <1>2. BuildEffect(b) /\ present' = present /\ present \subseteq Contact
    BY BuildEffects DEF BuildEffect, TypeOK
  <1>3. \A c : Rank(c)' = Rank(c)
    BY <1>2, Places
  <1>4. \A c \in present : Rank(c) \in Nat
    BY <1>2, RankType
  <1>5. /\ bpc \in [Build -> BPC] /\ bcopy \in [Build -> Row] /\ emails \in [Build -> SUBSET Contact]
        /\ hits \in [Build -> SUBSET Contact] /\ task \in [Build -> Task]
        /\ bmem \in [Build -> [offset : Nat, matched : BOOLEAN, moved : BOOLEAN]]
    BY DEF TypeOK
  <1>6. /\ task[b] \in Task /\ bmem[b].offset \in Nat /\ task[b].offset \in Nat /\ seg.version \in Nat
        /\ member \in [Contact -> Version] /\ bmem[b] \in [offset : Nat, matched : BOOLEAN, moved : BOOLEAN]
    BY <1>5 DEF TypeOK, Task, Row, Version
  <1>7. /\ bpc[b] # "idle" => task[b].state = "running" /\ task[b].offset <= bmem[b].offset
        /\ bpc[b] # "abort"
    BY <1>1, <1>6 DEF CalmInv, ProgressInv, BuildCopy
  <1> USE DEF BGoto
  <1>8. ASSUME BReturn(b) PROVE bpc'[b] = "idle"
    BY <1>5, <1>8 DEF BReturn
  <1>9. CASE BuildStart(b)
    <2>1. /\ task' = [task EXCEPT ![b].state = "running", ![b].begun = TRUE]
          /\ bmem' = [bmem EXCEPT ![b] = [offset |-> task[b].offset, matched |-> task[b].matched, moved |-> FALSE]]
          /\ bpc' = [bpc EXCEPT ![b] = IF seg.status = "building" THEN "check" ELSE "mark"]
          /\ task[b].state = "pending"
      BY <1>6, <1>9 DEF BuildStart
    <2>2. bmem'[b].offset = task[b].offset /\ bpc'[b] \in {"check", "mark"} /\ bpc[b] = "idle"
      BY <1>5, <1>7, <2>1
    <2> QED
      BY <1>3, <2>1, <2>2 DEF Onward, Passed, Cleaned
  <1>10. CASE BuildMark(b)
    <2>1. bpc[b] = "mark" /\ bpc'[b] = "check" /\ bmem' = bmem
      BY <1>5, <1>10 DEF BuildMark
    <2> QED
      BY <1>3, <2>1 DEF Onward, Passed, Cleaned
  <1>11. CASE BuildCheck(b)
    <2>1. /\ bpc[b] = "check" /\ bmem' = bmem /\ emails'[b] = GetBatch(bmem[b].offset)
          /\ bpc'[b] = IF emails'[b] # {} THEN "query" ELSE IF bmem[b].matched THEN "clean" ELSE "activate"
      BY <1>5, <1>6, <1>11 DEF BuildCheck
    <2>2. CASE emails'[b] # {}
      BY <1>3, <2>1, <2>2 DEF Onward, Passed, Cleaned
    <2>3. CASE emails'[b] = {}
      <3>1. \A c \in present : Rank(c) < bmem[b].offset
        BY <1>2, <1>6, <2>1, <2>3, LastBatch
      <3> QED
        BY <2>1, <2>3, <3>1 DEF Onward, Passed, Cleaned
    <2> QED
      BY <2>2, <2>3
  <1>12. CASE BuildQuery(b)
    <2>1. /\ bpc[b] = "query" /\ bpc'[b] = "add" /\ UNCHANGED <<bmem, emails>>
          /\ hits'[b] = {c \in emails[b] \cap present : bcopy[b].tree \in fits[c]}
      BY <1>5, <1>12 DEF BuildQuery
    <2>2. ASSUME NEW c \in present, Fits(c) PROVE c \notin emails'[b] \ hits'[b]
      BY <1>1, <2>1, <2>2 DEF BuildCopy, Fits
    <2> QED
      BY <1>3, <2>1, <2>2 DEF Onward, Passed, Cleaned
  <1>13. ASSUME NEW c \in Contact, BuildAdd(b, c) PROVE Onward(b)
    <2>1. /\ bpc[b] = "add" /\ bpc'[b] = "add" /\ emails' = emails /\ hits'[b] = hits[b] \ {c}
          /\ bmem'[b].offset = bmem[b].offset
      BY <1>5, <1>6, <1>13 DEF BuildAdd
    <2>2. member'[c] = task[b].version
      <3>1. calm' # NotCalm
        BY DEF NotCalm
      <3>2. member' = [member EXCEPT ![c] = task[b].version]
        BY <1>13, <3>1 DEF BuildAdd, AddContact
      <3> QED
        BY <1>6, <3>2
    <2>3. ASSUME NEW d \in present, Passed(b, d)' PROVE Passed(b, d) \/ d = c
      BY <1>3, <2>1, <2>3 DEF Passed
    <2> QED
      BY <1>6, <2>1, <2>2, <2>3 DEF Onward, Cleaned
  <1>14. CASE BuildSave(b)
    <2>1. /\ bpc[b] = "add" /\ bpc'[b] = "check" /\ hits[b] = {}
          /\ bmem'[b].offset = bmem[b].offset + Cardinality(emails[b])
      BY <1>5, <1>6, <1>14 DEF BuildSave, NextOffset
    <2>2. emails[b] = GetBatch(bmem[b].offset)
      BY <1>1, <2>1 DEF BuildCopy
    <2>3. \A c \in present : Rank(c) < bmem'[b].offset => Rank(c) < bmem[b].offset \/ c \in emails[b]
      BY <1>2, <1>6, <2>1, <2>2, BatchAdvances
    <2> QED
      BY <1>3, <2>1, <2>3 DEF Onward, Passed, Cleaned
  <1>15. CASE BuildClean(b)
    <2>1. bpc[b] = "clean"
      BY <1>15 DEF BuildClean
    <2>2. \A c \in Contact : member'[c] = 0 \/ member'[c] >= seg.version
      BY <1>6, <1>15 DEF BuildClean, RemoveOldMemberships, Version
    <2> QED
      BY <2>1, <2>2 DEF Onward, Passed
  <1>16. ASSUME Complete(b)
         PROVE  bpc'[b] = "idle" /\ task'[b].matched = bmem[b].matched
    <2> DEFINE r == [task[b] EXCEPT !.state = "done", !.matched = bmem[b].matched]
    <2>1. task' = [task EXCEPT ![b] = r] /\ BReturn(b)
      BY <1>16 DEF Complete
    <2>2. task'[b] = r
      BY <1>5, <2>1
    <2>3. task'[b].matched = bmem[b].matched
      BY <1>6, <2>2 DEF Task
    <2> QED
      BY <1>8, <2>1, <2>3
  <1>17. CASE BuildActivate(b) \/ BuildReschedule(b)
    <2>1. bpc[b] \in {"activate", "reschedule"}
      BY <1>17 DEF BuildActivate, BuildReschedule
    <2>2. Cleaned(b)' => Cleaned(b)
      <3>1. CASE Complete(b)
        BY <1>16, <2>1, <3>1 DEF Cleaned
      <3>2. CASE bpc' = [bpc EXCEPT ![b] = "reschedule"] /\ UNCHANGED bmem
        <4>1. bpc'[b] = "reschedule"
          BY <1>5, <3>2
        <4> QED
          BY <2>1, <3>2, <4>1 DEF Cleaned
      <3> QED
        BY <1>17, <3>1, <3>2 DEF BuildActivate, BuildReschedule
    <2> QED
      BY <2>1, <2>2 DEF Onward, Passed
  <1>18. CASE BuildTimeout(b)
    <2> DEFINE r == [task[b] EXCEPT !.state = "pending", !.offset = bmem[b].offset, !.matched = bmem[b].matched]
    <2>1. task' = [task EXCEPT ![b] = r] /\ BReturn(b) /\ bpc[b] = "check"
      BY <1>18 DEF BuildTimeout
    <2>2. task'[b] = r
      BY <1>5, <2>1
    <2>3. task'[b].state = "pending" /\ task'[b].offset = bmem[b].offset /\ bpc'[b] = "idle"
      BY <1>6, <1>8, <2>1, <2>2 DEF Task
    <2> QED
      BY <1>3, <2>1, <2>3 DEF Onward, Passed, Cleaned
  <1>19. CASE BuildFails(b) \/ BuildCrash(b)
    <2>1. BReturn(b) /\ bpc[b] # "idle"
      BY <1>19 DEF BuildFails, BuildCrash
    <2>2. task'[b].state \in {"pending", "failed"} /\ task'[b].offset = task[b].offset
      BY <1>5, <1>6, <1>19 DEF BuildFails, BuildCrash, Task
    <2>3. bpc'[b] = "idle"
      BY <1>8, <2>1
    <2>4. ~Cleaned(b)'
      BY <2>2, <2>3 DEF Cleaned
    <2>5. ASSUME NEW c \in present, Passed(b, c)' PROVE Passed(b, c)
      <3>1. Rank(c) < bmem[b].offset
        BY <1>3, <1>4, <1>6, <1>7, <2>1, <2>2, <2>3, <2>5 DEF Passed
      <3>2. bpc[b] \in {"mark", "check", "query", "add", "clean", "activate", "reschedule"}
        BY <1>5, <1>7, <2>1 DEF BPC
      <3> QED
        BY <3>1, <3>2 DEF Passed
    <2> QED
      BY <2>4, <2>5 DEF Onward
  <1>20. ~BuildAbort(b)
    BY <1>7 DEF BuildAbort
  <1> QED
    BY <1>9, <1>10, <1>11, <1>12, <1>13, <1>14, <1>15, <1>17, <1>18, <1>19, <1>20 DEF BuildStep

LEMMA BuildsCalm ==
  ASSUME TypeOK, TypeOK', IInv, CalmInv, NEW b \in Build,
         BuildStep(b) \/ BuildTimeout(b) \/ BuildFails(b) \/ BuildCrash(b)
  PROVE  CopiesInv' /\ MembersInv'
  <1>1. BuildEffect(b) /\ Steps(b)
    BY BuildEffects, BuildProgress DEF CalmInv
  <1>2. \/ calm' = calm \/ calm' = NotCalm
        \/ BuildStart(b) /\ ~task[b].begun /\ Alone(b) /\ seg.version <= task[b].version
    BY DEF BuildStep, BuildStart, BuildMark, BuildCheck, BuildAbort, BuildQuery, BuildAdd, BuildSave, BuildClean,
       BuildActivate, BuildReschedule, BuildTimeout, BuildFails, BuildCrash
  <1> SUFFICES ASSUME calm' = calm, calm.build # 0
               PROVE  CopiesInv' /\ MembersInv'
    <2>1. CASE calm' = calm /\ calm.build = 0
      BY <2>1 DEF CopiesInv, MembersInv, Build
    <2> QED
      BY <1>2, <2>1, NothingCalm, AloneCalm
  <1>3. seg'.version = seg.version /\ seg'.tree = seg.tree /\ BuildCopy(b)'
    BY BuildCopyStep
  <1>4. UNCHANGED <<present, fits, queue, qpc, qcopy, seen, cur, match>>
    BY <1>1 DEF BuildEffect
  <1>5. \A c : Fits(c)' = Fits(c)
    BY <1>3, <1>4 DEF Fits
  <1>6. CopiesInv'
    <2>1. ASSUME NEW i \in Build \ {b} PROVE BuildCopy(i)'
      BY <1>1, <1>3, <1>4, <1>5, SameBuildCopy DEF CalmInv, CopiesInv, BuildEffect
    <2>2. ASSUME NEW p \in Worker PROVE WorkerCopy(p)'
      <3>1. Fits(cur[p])' = Fits(cur[p])
        BY <1>3, <1>4 DEF Fits
      <3>2. WorkerCopy(p)
        BY DEF CalmInv, CopiesInv
      <3> QED
        BY <1>3, <1>4, <3>1, <3>2, SameWorkerCopy
    <2> QED
      BY <1>3, <2>1, <2>2 DEF CopiesInv
  <1>7. ASSUME NEW k \in Build, calm.build = k, task[k].version = seg.version, IsLast(k), MembersOf(k)
        PROVE  Steady(k)
    <2>1. task[b].version <= seg.version
      BY <1>7 DEF IsLast, TypeOK, Row, Version
    <2>2. \A c \in Contact :
            \/ member'[c] = member[c]
            \/ member'[c] = 0 /\ member[c] < seg.version
            \/ member'[c] = seg.version /\ Fits(c)
      BY <2>1, BuildMembers
    <2>3. Onward(k)
      <3>1. CASE k = b
        BY <1>7, <3>1, BuildOnward
      <3>2. CASE k # b
        <4>1. Cleaned(k)' = Cleaned(k) /\ \A c : Passed(k, c)' => Passed(k, c)
          BY <1>1, <1>4, <3>2, SameBuild DEF BuildEffect
        <4> QED
          BY <4>1 DEF Onward
      <3> QED
        BY <3>1, <3>2
    <2>4. \A c : Seen(c)' = Seen(c) /\ Sure(c)' = Sure(c)
      BY <1>4, SameWorkers
    <2>5. seg.version >= 1 /\ seg.version \in Nat /\ member \in [Contact -> Version]
      <3>1. task[k].state # "free"
        BY <1>7 DEF CalmInv, ProgressInv
      <3>2. seg.version >= 1
        BY <3>1 DEF CalmInv, VersionInv
      <3> QED
        BY <3>2 DEF TypeOK, Row, Version
    <2>6. ASSUME NEW c \in Contact, Sure(c)'
          PROVE  \/ Right(c)'
                 \/ /\ Sure(c) /\ Fits(c)' = Fits(c)
                    /\ member'[c] >= seg.version <=> member[c] >= seg.version
                    /\ (Passed(k, c) \/ Seen(c))' => Passed(k, c) \/ Seen(c) \/ ~Fits(c)
      <3>1. Sure(c) /\ c \in present
        BY <2>4, <2>6 DEF Sure
      <3>2. CASE member'[c] >= seg.version /\ Fits(c)
        BY <1>3, <1>5, <3>2 DEF Right
      <3>3. CASE ~(member'[c] >= seg.version /\ Fits(c))
        <4>1. member'[c] >= seg.version <=> member[c] >= seg.version
          BY <2>2, <2>5, <3>3 DEF Version
        <4>2. Fits(c) /\ Passed(k, c)' => Passed(k, c)
          BY <2>3, <3>1, <3>3 DEF Onward
        <4> QED
          BY <1>5, <2>4, <3>1, <4>1, <4>2
      <3> QED
        BY <3>2, <3>3
    <2>7. ASSUME Cleaned(k)', NEW c \in Contact PROVE member'[c] = 0 \/ member'[c] >= seg.version
      <3>1. CASE Cleaned(k)
        <4>1. member[c] = 0 \/ member[c] >= seg.version
          BY <1>7, <3>1 DEF MembersOf
        <4> QED
          BY <2>2, <2>5, <4>1 DEF Version
      <3> QED
        BY <2>3, <2>7, <3>1 DEF Onward
    <2> QED
      BY <2>6, <2>7 DEF Steady
  <1>8. \A i \in Build : task'[i].version = task[i].version
    BY <1>1 DEF BuildEffect, Steps
  <1>9. MembersInv'
    BY <1>3, <1>7, <1>8, MembersInvStep DEF CalmInv
  <1> QED
    BY <1>6, <1>9

-----------------------------------------------------------------------------
\* Nothing has begun.
LEMMA InitCalm == WInit => CalmInv
  BY DEF WInit, Init, CalmInv, VersionInv, ProgressInv, CopiesInv, MembersInv, NoSegment, NoTask, NotCalm, Build

LEMMA CalmStep ==
  ASSUME IInv, TypeOK, CalmInv, [Next]_vars, IInv', TypeOK'
  PROVE  CalmInv'
  <1>1. CASE UNCHANGED vars
    <2>1. UNCHANGED <<segmentVars, contactVars, task, userVars, buildVars, queueVars, calm>>
      BY <1>1 DEF vars
    <2>2. VersionInv' /\ ProgressInv'
      BY <2>1, ProgressUntouched DEF CalmInv, segmentVars, userVars, buildVars
    <2>3. UNCHANGED <<seg, member, present, fits, queue, task, bpc, bcopy, bmem, emails, hits, qpc, qcopy, seen, cur, match>>
      BY <2>1 DEF segmentVars, contactVars, buildVars, queueVars
    <2>4. CopiesInv'
      <3>1. ASSUME NEW b \in Build, BuildCopy(b) PROVE BuildCopy(b)'
        BY <2>3, <3>1, SameBuildCopy DEF Fits
      <3>2. ASSUME NEW p \in Worker, WorkerCopy(p) PROVE WorkerCopy(p)'
        BY <2>3, <3>2, SameWorkerCopy DEF Fits
      <3> QED
        BY <2>1, <3>1, <3>2 DEF CalmInv, CopiesInv
    <2>5. ASSUME NEW b \in Build, calm.build = b, MembersOf(b) PROVE Steady(b)
      <3>1. Cleaned(b)' = Cleaned(b) /\ \A c : Passed(b, c)' => Passed(b, c)
        BY <2>3, SameBuild
      <3>2. \A c : Seen(c)' = Seen(c) /\ Sure(c)' = Sure(c) /\ Fits(c)' = Fits(c)
        BY <2>3, SameWorkers DEF Fits
      <3> QED
        BY <2>3, <2>5, <3>1, <3>2 DEF Steady, MembersOf
    <2>6. MembersInv'
      BY <2>1, <2>3, <2>5, MembersInvStep DEF CalmInv
    <2> QED
      BY <2>2, <2>4, <2>6 DEF CalmInv
  <1>2. CASE CommandStep
    BY <1>2, CommandsProgress, CommandsCalm DEF CalmInv
  <1>3. CASE ContactStep
    <2>1. UNCHANGED <<seg, task, bpc, bcopy, bmem, upc, ucopy>> /\ calm' \in {calm, NotCalm}
      BY <1>3 DEF ContactStep, ContactChanges, ContactAdded, ContactDeleted, DatePasses, segmentVars, userVars, buildVars
    <2> QED
      BY <1>3, <2>1, ProgressUntouched, ContactsCalm DEF CalmInv
  <1>4. ASSUME NEW b \in Build, BuildStep(b) \/ BuildTimeout(b) \/ BuildFails(b) \/ BuildCrash(b)
        PROVE  CalmInv'
    BY <1>4, BuildsProgress, BuildsCalm DEF CalmInv
  <1>5. ASSUME NEW p \in Worker,
               (\E S \in SUBSET Contact : QueueLock(p, S)) \/ QueueStep(p) \/ QueueRollback(p)
        PROVE  CalmInv'
    <2>1. UNCHANGED <<seg, task, bpc, bcopy, bmem, upc, ucopy>> /\ calm' \in {calm, NotCalm}
      BY <1>5 DEF QueueLock, QueueStep, QueueRead, QueueEvaluate, QueueWrite, QueueCommit,
         QueueDiscard, Commit, QueueRollback,
         segmentVars, userVars, buildVars
    <2> QED
      BY <1>5, <2>1, ProgressUntouched, WorkersCalm DEF CalmInv
  <1> QED
    BY <1>1, <1>2, <1>3, <1>4, <1>5 DEF Next

\* A build that nothing disturbs is exact, across timeouts, failures, crashes
\* and resumptions, and whatever queue workers and other builds of its
\* version do beside it: Process of segment_build_processor.go neither skips
\* a contact between two batches nor leaves a membership of an earlier
\* version.
THEOREM BuildsAreExact == Spec => []BuildIsExact
  <1>1. WInit => CalmInv
    BY InitCalm
  <1>2. IInv /\ TypeOK /\ CalmInv /\ [Next]_vars /\ IInv' /\ TypeOK' => CalmInv'
    BY CalmStep
  <1>3. IInv /\ TypeOK /\ CalmInv => BuildIsExact
    <2> SUFFICES ASSUME IInv, TypeOK, CalmInv, NEW b \in Build, Undisturbed(b), IsLast(b), task[b].matched,
                        NEW c \in present \ (queue \cup calm.kept)
                 PROVE  (member[c] # 0) <=> (seg.tree \in fits[c])
      BY DEF BuildIsExact
    <2>1. /\ calm.build = b /\ task[b].state = "done" /\ task[b].version = seg.version
          /\ c \in Contact /\ c \in present /\ c \notin queue /\ c \notin calm.kept
      BY DEF Undisturbed, TypeOK
    <2>2. bpc[b] = "idle"
      BY <2>1 DEF CalmInv, ProgressInv
    <2>3. MembersOf(b) /\ Sure(c) /\ Passed(b, c) /\ Cleaned(b)
      BY <2>1, <2>2 DEF CalmInv, MembersInv, Sure, Passed, Cleaned
    <2>4. (member[c] >= seg.version <=> Fits(c)) /\ (member[c] = 0 \/ member[c] >= seg.version)
      BY <2>1, <2>3 DEF MembersOf
    <2>5. seg.version >= 1 /\ seg.version \in Nat /\ member[c] \in Nat
      BY <2>1 DEF CalmInv, VersionInv, TypeOK, Row, Version
    <2> QED
      BY <2>4, <2>5 DEF Fits
  <1> QED
    BY <1>1, <1>2, <1>3, Invariance, TypeCorrect, PTL DEF Spec
==============================================================================
