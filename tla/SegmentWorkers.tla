---------------------------- MODULE SegmentWorkers ----------------------------
(***************************************************************************)
(* The workers that keep a segment's memberships: the build processor      *)
(* (internal/service/segment_build_processor.go), which walks through all  *)
(* contacts for one version of the segment, and the processor of the       *)
(* contact queue (internal/service/contact_segment_queue_processor.go),    *)
(* which looks again at contacts that changed; composed with the commands  *)
(* and the contacts of Segment.                                            *)
(*                                                                         *)
(* A build reads the segment when an execution starts, and writes that     *)
(* copy back whole at its end.  A queue worker holds the locks of its rows *)
(* to the commit, but evaluates contacts and writes memberships on other   *)
(* connections.  An execution of a task is one process: what happens when  *)
(* the task table grants two is the subject of BroadcastTask.              *)
(***************************************************************************)
EXTENDS Segment

CONSTANTS
  Worker,       \* executions of process_contact_segment_queue
  NoContact,    \* "no contact in hand"
  BatchSize,    \* contacts of a batch (100 in the code)
  MaxRetries    \* max_retries of a build task (3 in the code)

ASSUME WorkersAssumption ==
  /\ NoContact \notin Contact
  /\ BatchSize \in Nat \ {0}
  /\ MaxRetries \in Nat

VARIABLES
  bpc,          \* where each execution of a build is
  bcopy,        \* the segment as the execution read it
  bmem,         \* its BuildSegmentState, and whether a batch is done
  emails,       \* batch in hand
  hits,         \* contacts of it that matched and are not yet added
  qpc,          \* where each queue worker is
  qcopy,        \* the segment as it read it
  held,         \* queue rows it has locked
  seen,         \* of these, the contacts it has processed
  cur,          \* contact in hand
  match,        \* whether that contact met the tree
  calm          \* build since whose start all was calm (below), and the contacts
                \* it found to be members by mistake

buildVars == <<bpc, bcopy, bmem, emails, hits>>
queueVars == <<qpc, qcopy, held, seen, cur, match>>
vars == <<segmentVars, contactVars, task, userVars, boundVars, buildVars, queueVars, calm>>

BPC == {"idle", "mark", "check", "abort", "query", "add", "clean", "activate", "reschedule"}
QPC == {"idle", "read", "contacts", "write", "discard"}

TypeOK ==
  /\ seg \in Row /\ member \in [Contact -> Version]
  /\ present \subseteq Contact /\ fits \in [Contact -> SUBSET Tree]
  /\ queue \subseteq Contact /\ stale \subseteq Contact /\ discarded \subseteq Contact
  /\ task \in [Build -> Task]
  /\ upc \in [User -> {"idle", "read", "purge"}] /\ ucopy \in [User -> Row]
  /\ changes \in Nat /\ faults \in Nat
  /\ bpc \in [Build -> BPC] /\ bcopy \in [Build -> Row]
  /\ bmem \in [Build -> [offset : Nat, matched : BOOLEAN, moved : BOOLEAN]]
  /\ emails \in [Build -> SUBSET Contact] /\ hits \in [Build -> SUBSET Contact]
  /\ qpc \in [Worker -> QPC] /\ qcopy \in [Worker -> Row]
  /\ held \in [Worker -> SUBSET Contact] /\ seen \in [Worker -> SUBSET Contact]
  /\ cur \in [Worker -> Contact \cup {NoContact}] /\ match \in [Worker -> BOOLEAN]
  /\ calm \in [build : Build \cup {0}, kept : SUBSET Contact]

NoState == [offset |-> 0, matched |-> FALSE, moved |-> FALSE]

NotCalm == [build |-> 0, kept |-> {}]

WInit ==
  /\ Init
  /\ bpc = [b \in Build |-> "idle"]
  /\ bcopy = [b \in Build |-> NoSegment]
  /\ bmem = [b \in Build |-> NoState]
  /\ emails = [b \in Build |-> {}]
  /\ hits = [b \in Build |-> {}]
  /\ qpc = [p \in Worker |-> "idle"]
  /\ qcopy = [p \in Worker |-> NoSegment]
  /\ held = [p \in Worker |-> {}]
  /\ seen = [p \in Worker |-> {}]
  /\ cur = [p \in Worker |-> NoContact]
  /\ match = [p \in Worker |-> FALSE]
  /\ calm = NotCalm

-----------------------------------------------------------------------------
(* Memberships and batches.                                                *)

\* AddContactToSegment: an upsert that sets the version.
AddContact(c, v) == member' = [member EXCEPT ![c] = v]

RemoveContact(c) == member' = [member EXCEPT ![c] = 0]

\* Seeded fault: rows of earlier versions stay.
KeepOldMemberships(v) == UNCHANGED member

RemoveOldMemberships(v) ==
  member' = [c \in Contact |-> IF member[c] < v THEN 0 ELSE member[c]]

\* GetBatchForSegment: ORDER BY email LIMIT OFFSET.
GetBatch(offset) ==
  {c \in present : Cardinality({d \in present : d < c}) \in offset .. (offset + BatchSize - 1)}

Locked == UNION {held[p] : p \in Worker}

-----------------------------------------------------------------------------
(* The build processor.                                                    *)

BGoto(b, step) == bpc' = [bpc EXCEPT ![b] = step]

\* The execution returns; what it had in memory is gone.
BReturn(b) ==
  /\ BGoto(b, "idle")
  /\ bcopy' = [bcopy EXCEPT ![b] = NoSegment]
  /\ bmem' = [bmem EXCEPT ![b] = NoState]
  /\ emails' = [emails EXCEPT ![b] = {}]
  /\ hits' = [hits EXCEPT ![b] = {}]

\* A build finds the segment to itself: no other build, queue worker or
\* command is under way.
Alone(b) ==
  /\ \A i \in Build \ {b} : bpc[i] = "idle"
  /\ \A p \in Worker : qpc[p] = "idle"
  /\ \A u \in User : upc[u] = "idle"

\* Contacts that do not meet the tree, but have a membership that build b
\* takes for one of its own: it is of the same version, or a later one.
Mistaken(b) == {c \in present \ queue : member[c] >= task[b].version /\ seg.tree \notin fits[c]}

\* Process up to its loop.  An outdated task is done with.
BuildStart(b) ==
  /\ task[b].state = "pending"
  /\ \/ /\ seg.version > task[b].version
        /\ task' = [task EXCEPT ![b].state = "done"]
        /\ UNCHANGED <<buildVars, calm>>
     \/ /\ seg.version <= task[b].version
        /\ task' = [task EXCEPT ![b].state = "running", ![b].begun = TRUE]
        /\ bcopy' = [bcopy EXCEPT ![b] = seg]
        /\ bmem' = [bmem EXCEPT ![b] = [offset |-> task[b].offset, matched |-> task[b].matched, moved |-> FALSE]]
        /\ BGoto(b, IF seg.status = "building" THEN "check" ELSE "mark")
        /\ calm' = IF task[b].begun THEN calm
                   ELSE IF Alone(b) THEN [build |-> b, kept |-> Mistaken(b)] ELSE NotCalm
        /\ UNCHANGED <<emails, hits>>
  /\ UNCHANGED <<segmentVars, contactVars, userVars, boundVars, queueVars>>

BuildMark(b) ==
  /\ bpc[b] = "mark"
  /\ bcopy' = [bcopy EXCEPT ![b].status = "building"]
  /\ seg' = bcopy'[b]
  /\ BGoto(b, "check")
  /\ UNCHANGED <<member, contactVars, task, userVars, boundVars, bmem, emails, hits, queueVars, calm>>

\* The version is read again, then the next batch of emails: no batch ends
\* the loop.
BuildCheck(b) ==
  /\ bpc[b] = "check"
  /\ \/ /\ seg.version > task[b].version
        /\ bcopy' = [bcopy EXCEPT ![b] = seg]
        /\ BGoto(b, "abort")
        /\ UNCHANGED emails
     \/ /\ seg.version <= task[b].version
        /\ emails' = [emails EXCEPT ![b] = GetBatch(bmem[b].offset)]
        /\ BGoto(b, IF emails'[b] # {} THEN "query" ELSE IF bmem[b].matched THEN "clean" ELSE "activate")
        /\ UNCHANGED bcopy
  /\ UNCHANGED <<segmentVars, contactVars, task, userVars, boundVars, bmem, hits, queueVars, calm>>

\* The task was superseded: its partial work is removed, and it is complete.
\* That the removal fails is logged.
BuildAbort(b) ==
  /\ bpc[b] = "abort"
  /\ \/ RemoveOldMemberships(bcopy[b].version) /\ UNCHANGED faults
     \/ faults < MaxFaults /\ faults' = faults + 1 /\ UNCHANGED member
  /\ task' = [task EXCEPT ![b].state = "done"]
  /\ BReturn(b)
  /\ UNCHANGED <<seg, contactVars, userVars, changes, queueVars, calm>>

\* Shortly before timeoutAt the progress is saved and the task left pending.
\* An execution has time for one batch at least.
BuildTimeout(b) ==
  /\ bpc[b] = "check"
  /\ bmem[b].moved
  /\ task' = [task EXCEPT ![b].state = "pending", ![b].offset = bmem[b].offset, ![b].matched = bmem[b].matched]
  /\ BReturn(b)
  /\ UNCHANGED <<segmentVars, contactVars, userVars, boundVars, queueVars, calm>>

\* processBatch: the query, then one upsert after another; one that fails is
\* logged.
BuildQuery(b) ==
  /\ bpc[b] = "query"
  /\ hits' = [hits EXCEPT ![b] = {c \in emails[b] \cap present : bcopy[b].tree \in fits[c]}]
  /\ BGoto(b, "add")
  /\ UNCHANGED <<segmentVars, contactVars, task, userVars, boundVars, bcopy, bmem, emails, queueVars, calm>>

BuildAdd(b, c) ==
  /\ bpc[b] = "add" /\ c \in hits[b]
  /\ hits' = [hits EXCEPT ![b] = @ \ {c}]
  /\ \/ /\ AddContact(c, task[b].version)
        /\ bmem' = [bmem EXCEPT ![b].matched = TRUE]
        /\ UNCHANGED <<faults, calm>>
     \/ /\ faults < MaxFaults
        /\ faults' = faults + 1
        /\ calm' = NotCalm
        /\ UNCHANGED <<member, bmem>>
  /\ UNCHANGED <<seg, contactVars, task, userVars, changes, bpc, bcopy, emails, queueVars>>

\* Seeded fault: the offset stays.
SameOffset(b) == bmem[b].offset

\* Contacts evaluated so far.
NextOffset(b) == bmem[b].offset + Cardinality(emails[b])

\* The offset moves on and the progress is saved; that it is not is logged.
BuildSave(b) ==
  /\ bpc[b] = "add" /\ hits[b] = {}
  /\ bmem' = [bmem EXCEPT ![b].offset = NextOffset(b), ![b].moved = TRUE]
  /\ \/ /\ task' = [task EXCEPT ![b].offset = bmem'[b].offset, ![b].matched = bmem'[b].matched]
        /\ UNCHANGED faults
     \/ /\ faults < MaxFaults
        /\ faults' = faults + 1
        /\ UNCHANGED task
  /\ emails' = [emails EXCEPT ![b] = {}]
  /\ BGoto(b, "check")
  /\ UNCHANGED <<segmentVars, contactVars, userVars, changes, bcopy, hits, queueVars, calm>>

BuildClean(b) ==
  /\ bpc[b] = "clean"
  /\ RemoveOldMemberships(task[b].version)
  /\ BGoto(b, "activate")
  /\ UNCHANGED <<seg, contactVars, task, userVars, boundVars, bcopy, bmem, emails, hits, queueVars, calm>>

\* The task is complete, and keeps what its state says.
Complete(b) ==
  /\ task' = [task EXCEPT ![b].state = "done", ![b].matched = bmem[b].matched]
  /\ BReturn(b)

\* UpdateSegment with the copy of the start, status "active".  A build that
\* matched nobody ends here, and does not reschedule the segment.
BuildActivate(b) ==
  /\ bpc[b] = "activate"
  /\ seg' = [bcopy[b] EXCEPT !.status = "active"]
  /\ \/ /\ bmem[b].matched /\ bcopy[b].recompute # "null"
        /\ BGoto(b, "reschedule")
        /\ UNCHANGED <<task, bcopy, bmem, emails, hits>>
     \/ /\ ~bmem[b].matched \/ bcopy[b].recompute = "null"
        /\ Complete(b)
  /\ UNCHANGED <<member, contactVars, userVars, boundVars, queueVars, calm>>

\* UpdateRecomputeAfter; that it fails is logged.
BuildReschedule(b) ==
  /\ bpc[b] = "reschedule"
  /\ \/ seg' = [seg EXCEPT !.recompute = "later"] /\ UNCHANGED faults
     \/ faults < MaxFaults /\ faults' = faults + 1 /\ UNCHANGED seg
  /\ Complete(b)
  /\ UNCHANGED <<member, contactVars, userVars, changes, queueVars, calm>>

\* A statement fails: MarkAsFailed counts a retry, and the next execution
\* starts from the progress last saved.
BuildFails(b) ==
  /\ bpc[b] # "idle"
  /\ faults < MaxFaults
  /\ faults' = faults + 1
  /\ task' = [task EXCEPT ![b].state = IF task[b].tries < MaxRetries THEN "pending" ELSE "failed", ![b].tries = @ + 1]
  /\ BReturn(b)
  /\ UNCHANGED <<segmentVars, contactVars, userVars, changes, queueVars, calm>>

\* The instance dies; the task is claimed again once its timeout has passed.
BuildCrash(b) ==
  /\ bpc[b] # "idle"
  /\ faults < MaxFaults
  /\ faults' = faults + 1
  /\ task' = [task EXCEPT ![b].state = "pending"]
  /\ BReturn(b)
  /\ UNCHANGED <<segmentVars, contactVars, userVars, changes, queueVars, calm>>

-----------------------------------------------------------------------------
(* The processor of the contact queue.                                     *)

QGoto(p, step) == qpc' = [qpc EXCEPT ![p] = step]

\* Seeded fault: the transaction is neither committed nor rolled back.
ReturnHolding(p) ==
  /\ QGoto(p, "idle")
  /\ UNCHANGED <<qcopy, held, seen, cur, match>>

\* The transaction is over, and with it the locks.
QReturn(p) ==
  /\ QGoto(p, "idle")
  /\ qcopy' = [qcopy EXCEPT ![p] = NoSegment]
  /\ held' = [held EXCEPT ![p] = {}]
  /\ seen' = [seen EXCEPT ![p] = {}]
  /\ cur' = [cur EXCEPT ![p] = NoContact]
  /\ match' = [match EXCEPT ![p] = FALSE]

\* SELECT ... FOR UPDATE SKIP LOCKED, of the rows older than 15 seconds.
QueueLock(p, S) ==
  /\ qpc[p] = "idle"
  /\ S # {} /\ S \subseteq queue \ Locked
  /\ Cardinality(S) <= BatchSize
  /\ held' = [held EXCEPT ![p] = S]
  /\ QGoto(p, "read")
  /\ UNCHANGED <<segmentVars, contactVars, task, userVars, boundVars, buildVars, qcopy, seen, cur, match, calm>>

\* GetSegments: without an active segment the batch goes unlooked-at.
QueueRead(p) ==
  /\ qpc[p] = "read"
  /\ qcopy' = [qcopy EXCEPT ![p] = seg]
  /\ QGoto(p, IF seg.status = "active" THEN "contacts" ELSE "discard")
  /\ UNCHANGED <<segmentVars, contactVars, task, userVars, boundVars, buildVars, held, seen, cur, match, calm>>

\* processContact: the query over the contact, then the write.
QueueEvaluate(p, c) ==
  /\ qpc[p] = "contacts" /\ c \in held[p] \ seen[p]
  /\ cur' = [cur EXCEPT ![p] = c]
  /\ match' = [match EXCEPT ![p] = c \in present /\ qcopy[p].tree \in fits[c]]
  /\ stale' = stale \ {c}
  /\ QGoto(p, "write")
  /\ UNCHANGED <<segmentVars, present, fits, queue, discarded, task, userVars, boundVars, buildVars, qcopy, held, seen, calm>>

\* That the membership is not written is logged, and the contact processed.
QueueWrite(p) ==
  /\ qpc[p] = "write"
  /\ seen' = [seen EXCEPT ![p] = @ \cup {cur[p]}]
  /\ cur' = [cur EXCEPT ![p] = NoContact]
  /\ match' = [match EXCEPT ![p] = FALSE]
  /\ QGoto(p, "contacts")
  /\ \/ /\ IF match[p] THEN AddContact(cur[p], qcopy[p].version) ELSE RemoveContact(cur[p])
        /\ UNCHANGED <<faults, calm>>
     \/ /\ faults < MaxFaults
        /\ faults' = faults + 1
        /\ calm' = NotCalm
        /\ UNCHANGED member
  /\ UNCHANGED <<seg, contactVars, task, userVars, changes, buildVars, qcopy, held>>

\* The DELETE of S and the commit, which releases the locks.
Commit(p, S) ==
  /\ queue' = queue \ S
  /\ QReturn(p)
  /\ UNCHANGED <<segmentVars, present, fits, stale, task, userVars, changes, buildVars>>

\* The contacts processed are deleted; one whose query failed stays queued.
QueueCommit(p) ==
  /\ qpc[p] = "contacts"
  /\ IF seen[p] = held[p] THEN UNCHANGED faults ELSE faults < MaxFaults /\ faults' = faults + 1
  /\ Commit(p, seen[p])
  /\ UNCHANGED <<discarded, calm>>

\* The whole batch is deleted, and no contact of it was evaluated.
QueueDiscard(p) ==
  /\ qpc[p] = "discard"
  /\ Commit(p, held[p])
  /\ discarded' = discarded \cup held[p]
  /\ calm' = NotCalm
  /\ UNCHANGED faults

\* An error before the commit, or a crash: the queue rows stay, what was
\* written on other connections too.
QueueRollback(p) ==
  /\ qpc[p] # "idle"
  /\ faults < MaxFaults
  /\ faults' = faults + 1
  /\ QReturn(p)
  /\ UNCHANGED <<segmentVars, contactVars, task, userVars, changes, buildVars, calm>>

-----------------------------------------------------------------------------
(* The composition.  calm.build = b says that since build b began, alone,  *)
(* nothing has happened that the code has no answer to:                    *)
(*   - a command wrote another row, or deleted memberships;                *)
(*   - a contact changed after a build had evaluated it and before the     *)
(*     build was through with its batch, or came or went during a build,   *)
(*     which shifts the offsets of the batches;                            *)
(*   - a relative date moved;                                              *)
(*   - a batch was discarded while the segment was not active;             *)
(*   - the write of a membership failed.                                   *)

Building(b) == bpc[b] # "idle" \/ (task[b].state = "pending" /\ task[b].offset > 0)

CommandStep ==
  /\ \/ \E t \in Tree : CreateSegment(t)
     \/ \E u \in User :
          \/ GetSegment(u) \/ Rename(u) \/ RebuildSegment(u)
          \/ \E t \in Tree : UpdateTree(u, t)
          \/ DeleteSegment(u) \/ PurgeMembers(u) \/ CommandFails(u)
     \/ RecomputeComesDue \/ RecomputeTask
  /\ calm' = IF member' = member /\ [seg' EXCEPT !.recompute = "null"] = [seg EXCEPT !.recompute = "null"] THEN calm ELSE NotCalm
  /\ UNCHANGED <<buildVars, queueVars>>

ContactStep ==
  /\ \E c \in Contact :
       \/ /\ \E F \in Profile : ContactChanges(c, F, Locked)
          /\ calm' = IF \E b \in Build : bpc[b] = "add" /\ c \in emails[b] THEN NotCalm ELSE calm
       \/ /\ (\E F \in Profile : ContactAdded(c, F, Locked)) \/ ContactDeleted(c)
          /\ calm' = IF \E b \in Build : Building(b) THEN NotCalm ELSE calm
       \/ /\ \E F \in Profile : DatePasses(c, F)
          /\ calm' = NotCalm
  /\ UNCHANGED <<buildVars, queueVars>>

BuildStep(b) ==
  \/ BuildStart(b) \/ BuildMark(b) \/ BuildCheck(b) \/ BuildAbort(b) \/ BuildQuery(b)
  \/ \E c \in Contact : BuildAdd(b, c)
  \/ BuildSave(b) \/ BuildClean(b) \/ BuildActivate(b) \/ BuildReschedule(b)

QueueStep(p) ==
  \/ QueueRead(p)
  \/ \E c \in Contact : QueueEvaluate(p, c)
  \/ QueueWrite(p) \/ QueueCommit(p) \/ QueueDiscard(p)

Next ==
  \/ CommandStep
  \/ ContactStep
  \/ \E b \in Build : BuildStep(b) \/ BuildTimeout(b) \/ BuildFails(b) \/ BuildCrash(b)
  \/ \E p \in Worker : (\E S \in SUBSET Contact : QueueLock(p, S)) \/ QueueStep(p) \/ QueueRollback(p)

Spec == WInit /\ [][Next]_vars

\* Tasks are executed again and again and their calls return.  The oldest
\* rows of the queue come first, so one that does not change any more is
\* taken in the end.
Fairness ==
  /\ \A b \in Build : WF_vars(BuildStep(b))
  /\ \A p \in Worker : WF_vars(QueueStep(p))
  /\ \A c \in Contact : SF_vars(\E p \in Worker, S \in SUBSET Contact : c \in S /\ QueueLock(p, S))

FairSpec == Spec /\ Fairness
-----------------------------------------------------------------------------
(* Properties.                                                             *)

\* The members of the segment are the contacts that meet its tree; a contact
\* still in the queue may be wrong.
Exact == \A c \in present \ queue : (member[c] # 0) <=> (seg.tree \in fits[c])

\* Build b of the segment's version ran to its end, undisturbed.
Undisturbed(b) ==
  calm.build = b /\ seg.status = "active" /\ task[b].state = "done" /\ task[b].version = seg.version

\* No other build of its version or a later one.
IsFirst(b) == \A i \in Build \ {b} : task[i].version < task[b].version

\* No other build of a later version.
IsLast(b) == \A i \in Build \ {b} : task[i].version <= task[b].version

\* A build is exact: once it is complete and has found anybody, and as long
\* as there is no build of a later version, the members are the contacts that
\* meet the tree, across timeouts, failed statements, crashes, resumptions and
\* other builds of its version, and stay so while contacts change; but for
\* contacts with a membership of its version that were wrong when it began,
\* which Process leaves alone.
BuildIsExact ==
  \A b \in Build :
    Undisturbed(b) /\ IsLast(b) /\ task[b].matched
      => \A c \in present \ (queue \cup calm.kept) : (member[c] # 0) <=> (seg.tree \in fits[c])

\* The first build of a version is exact without exception.  A queue worker
\* may have added members of the version before it.
FirstIsExact ==
  \A b \in Build : Undisturbed(b) /\ IsFirst(b) /\ task[b].matched => Exact

\* A later build of the same version, which the daily recomputation starts,
\* is as exact as the first.
RefreshIsExact ==
  \A b \in Build : Undisturbed(b) /\ task[b].matched => Exact

\* A build that matched no contact leaves an active segment with no members.
NoMatchNoMembers ==
  \A b \in Build : Undisturbed(b) /\ IsFirst(b) /\ ~task[b].matched => Exact

\* A contact that changed is in the queue until a worker has looked at it
\* after the change, or has discarded it with a batch that found no active
\* segment: the lock held to the commit keeps a change from falling between
\* the evaluation and the DELETE, with any number of workers.
NoLostRecompute == stale \subseteq queue \cup discarded

\* Why it holds: a locked row stays in the queue and has one owner, no change
\* gets past the lock, so what its owner has looked at is not stale.
LockInv ==
  /\ stale \subseteq queue \cup discarded
  /\ \A p \in Worker :
       /\ held[p] \subseteq queue
       /\ \A o \in Worker \ {p} : held[p] \cap held[o] = {}
       /\ seen[p] \subseteq held[p] \ stale
       /\ qpc[p] = "idle" => held[p] = {}
       /\ qpc[p] = "write" => cur[p] \in held[p] \ stale

\* Every build task comes to an end.
BuildsEnd == \A b \in Build : (task[b].state = "pending") ~> (task[b].state \in {"done", "failed"})

\* Every change of a contact is looked at, or discarded with a batch that
\* found no active segment.
ChangesAreSeen == \A c \in Contact : (c \in stale) ~> (c \notin stale \/ c \in discarded)

\* A contact that was discarded needs no look: once no build is under way its
\* membership of the active segment is right.
DiscardsAreHarmless ==
  seg.status = "active" /\ (\A b \in Build : task[b].state \in {"free", "done"})
    => \A c \in present \cap discarded : (member[c] # 0) <=> (seg.tree \in fits[c])

\* A build is temporary: the segment becomes active again.
BuildingEnds == (seg.status = "building") ~> (seg.status # "building" \/ faults > 0)

\* An edit is not undone: the version of the segment never goes back.
EditsSurvive == [][seg'.version >= seg.version]_vars

\* A deleted segment stays deleted, as long as nobody edits it.
DeletedIsFinal == [][seg.status = "deleted" /\ upc' = upc => seg'.status = "deleted"]_vars
===============================================================================
