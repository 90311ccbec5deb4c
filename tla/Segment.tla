------------------------------- MODULE Segment -------------------------------
(***************************************************************************)
(* One segment of a workspace: its row, the membership table               *)
(* contact_segments, the contacts with the queue their changes fill, and   *)
(* the commands of the segment service                                     *)
(* (internal/service/segment_service.go,                                   *)
(* internal/repository/segment_postgres.go, the trigger                    *)
(* queue_contact_for_segment_recomputation of internal/database/init.go).  *)
(*                                                                         *)
(* A tree of conditions is a value; fits[c] is the set of trees contact c  *)
(* meets now, which is what the generated SQL computes.  A contact is a    *)
(* number, its place in the order of emails.                               *)
(***************************************************************************)
EXTENDS Integers, FiniteSets

CONSTANTS
  Contact,      \* contacts, ordered as their emails are
  Tree,         \* trees of conditions
  NoTree,       \* the tree of no segment
  Relative,     \* trees with relative dates
  Profile,      \* sets of trees that contacts may meet
  User,         \* console sessions and API clients
  MaxBuilds,    \* bound on build tasks ever created
  MaxVersion,   \* bound on the segment's version
  MaxChanges,   \* bound on changes of contacts and dates, renamings and deletions
  MaxFaults     \* bound on failed calls and crashes

ASSUME SegmentAssumption ==
  /\ Contact \subseteq Nat
  /\ IsFiniteSet(Contact)
  /\ NoTree \notin Tree
  /\ Relative \subseteq Tree
  /\ Profile \subseteq SUBSET Tree
  /\ MaxBuilds \in Nat \ {0}
  /\ MaxVersion \in Nat \ {0}
  /\ MaxChanges \in Nat
  /\ MaxFaults \in Nat

VARIABLES
  seg,          \* the row of the segments table
  member,       \* version of each contact's contact_segments row, 0 for none
  present,      \* contacts that exist
  fits,         \* trees each contact meets
  queue,        \* contact_segment_queue
  stale,        \* contacts that changed since a worker last looked at them
  discarded,    \* contacts taken off the queue unlooked-at since they changed
  task,         \* build tasks
  upc,          \* where each user's command is
  ucopy,        \* the segment as the user's command read it
  changes,      \* changes so far
  faults        \* faults so far

segmentVars == <<seg, member>>
contactVars == <<present, fits, queue, stale, discarded>>
userVars    == <<upc, ucopy>>
boundVars   == <<changes, faults>>

Build   == 1 .. MaxBuilds
Version == 0 .. MaxVersion
Row     == [status : {"none", "building", "active", "deleted"}, version : Version, tree : Tree \cup {NoTree},
            recompute : {"null", "later", "due"}]
Task    == [state : {"free", "pending", "running", "done", "failed"}, version : Version,
            offset : Nat, matched : BOOLEAN, tries : Nat, begun : BOOLEAN]

\* recompute_after of a tree: next 5 AM, or nothing.
RecomputeOf(t) == IF t \in Relative THEN "later" ELSE "null"

\* No row, and what is left of a copy that is not used any more.
NoSegment == [status |-> "none", version |-> 0, tree |-> NoTree, recompute |-> "null"]

NoTask == [state |-> "free", version |-> 0, offset |-> 0, matched |-> FALSE, tries |-> 0, begun |-> FALSE]

Init ==
  /\ seg = NoSegment
  /\ member = [c \in Contact |-> 0]
  /\ present = Contact
  /\ fits \in [Contact -> Profile]
  /\ queue = {}
  /\ stale = {}
  /\ discarded = {}
  /\ task = [b \in Build |-> NoTask]
  /\ upc = [u \in User |-> "idle"]
  /\ ucopy = [u \in User |-> NoSegment]
  /\ changes = 0
  /\ faults = 0

Counted == changes < MaxChanges /\ changes' = changes + 1

-----------------------------------------------------------------------------
(* Commands.                                                               *)

\* The next build task of the table.
IsNextTask(b) == task[b].state = "free" /\ \A i \in 1 .. (b - 1) : task[i].state # "free"

\* Seeded fault: the task is made for the version after the one written.
CreateTaskAhead(v) ==
  /\ \E b \in Build :
       /\ IsNextTask(b)
       /\ task' = [task EXCEPT ![b] = [NoTask EXCEPT !.state = "pending", !.version = v + 1]]
  /\ UNCHANGED faults

\* CreateTask; its failure is logged, or returned once the row is written.
CreateTask(v) ==
  \/ /\ \E b \in Build :
          /\ IsNextTask(b)
          /\ task' = [task EXCEPT ![b] = [NoTask EXCEPT !.state = "pending", !.version = v]]
     /\ UNCHANGED faults
  \/ /\ faults < MaxFaults
     /\ faults' = faults + 1
     /\ UNCHANGED task

CreateSegment(t) ==
  /\ seg.status = "none"
  /\ seg' = [status |-> "building", version |-> 1, tree |-> t, recompute |-> RecomputeOf(t)]
  /\ CreateTask(1)
  /\ UNCHANGED <<member, contactVars, userVars, changes>>

\* GetSegmentByID, with which an update and a rebuild begin; a deleted
\* segment is found as well.
GetSegment(u) ==
  /\ upc[u] = "idle"
  /\ seg.status # "none"
  /\ upc' = [upc EXCEPT ![u] = "read"]
  /\ ucopy' = [ucopy EXCEPT ![u] = seg]
  /\ UNCHANGED <<segmentVars, contactVars, task, boundVars>>

\* A command is over.
Return(u) ==
  /\ upc' = [upc EXCEPT ![u] = "idle"]
  /\ ucopy' = [ucopy EXCEPT ![u] = NoSegment]

\* The whole row is written from the copy, its status included.
UpdateTree(u, t) ==
  /\ upc[u] = "read"
  /\ ucopy[u].version < MaxVersion
  /\ seg' = [ucopy[u] EXCEPT !.version = @ + 1, !.tree = t, !.recompute = RecomputeOf(t)]
  /\ CreateTask(ucopy[u].version + 1)
  /\ Return(u)
  /\ UNCHANGED <<member, contactVars, changes>>

\* An update of the name or the colour: no new version and no build.
Rename(u) ==
  /\ upc[u] = "read"
  /\ Counted
  /\ seg' = ucopy[u]
  /\ Return(u)
  /\ UNCHANGED <<member, contactVars, task, faults>>

RebuildSegment(u) ==
  /\ upc[u] = "read"
  /\ ucopy[u].version < MaxVersion
  /\ seg' = [ucopy[u] EXCEPT !.version = @ + 1, !.status = "building"]
  /\ CreateTask(ucopy[u].version + 1)
  /\ Return(u)
  /\ UNCHANGED <<member, contactVars, changes>>

\* DeleteSegment: the status, then the memberships.
DeleteSegment(u) ==
  /\ upc[u] = "idle"
  /\ seg.status # "none"
  /\ Counted
  /\ seg' = [seg EXCEPT !.status = "deleted"]
  /\ upc' = [upc EXCEPT ![u] = "purge"]
  /\ UNCHANGED <<member, contactVars, task, ucopy, faults>>

PurgeMembers(u) ==
  /\ upc[u] = "purge"
  /\ member' = [c \in Contact |-> 0]
  /\ Return(u)
  /\ UNCHANGED <<seg, contactVars, task, boundVars>>

\* A statement of a command fails, or its instance dies.
CommandFails(u) ==
  /\ upc[u] # "idle"
  /\ faults < MaxFaults
  /\ faults' = faults + 1
  /\ Return(u)
  /\ UNCHANGED <<segmentVars, contactVars, task, changes>>

-----------------------------------------------------------------------------
(* Contacts.                                                               *)

\* Seeded fault: the upsert does not wait for the lock.
EnqueueAtOnce(c, locked) ==
  /\ queue' = queue \cup {c}
  /\ stale' = stale \cup {c}
  /\ discarded' = discarded \ {c}

\* The upsert into the queue waits for the lock of a worker that holds the
\* contact's row, and the change commits with it.
Enqueue(c, locked) ==
  /\ c \notin locked
  /\ queue' = queue \cup {c}
  /\ stale' = stale \cup {c}
  /\ discarded' = discarded \ {c}

ContactChanges(c, F, locked) ==
  /\ c \in present
  /\ Counted
  /\ fits' = [fits EXCEPT ![c] = F]
  /\ Enqueue(c, locked)
  /\ UNCHANGED <<segmentVars, present, task, userVars, faults>>

ContactAdded(c, F, locked) ==
  /\ c \notin present
  /\ Counted
  /\ present' = present \cup {c}
  /\ fits' = [fits EXCEPT ![c] = F]
  /\ Enqueue(c, locked)
  /\ UNCHANGED <<segmentVars, task, userVars, faults>>

\* DeleteContact leaves the queue and the memberships alone.
ContactDeleted(c) ==
  /\ c \in present
  /\ Counted
  /\ present' = present \ {c}
  /\ UNCHANGED <<segmentVars, fits, queue, stale, discarded, task, userVars, faults>>

\* A relative date moves on: no row changes, so nothing is queued.
DatePasses(c, F) ==
  /\ F \ Relative = fits[c] \ Relative
  /\ Counted
  /\ fits' = [fits EXCEPT ![c] = F]
  /\ UNCHANGED <<segmentVars, present, queue, stale, discarded, task, userVars, faults>>

\* It is 5 AM.
RecomputeComesDue ==
  /\ seg.recompute = "later"
  /\ Counted
  /\ seg' = [seg EXCEPT !.recompute = "due"]
  /\ UNCHANGED <<member, contactVars, task, userVars, faults>>

\* check_segment_recompute: a build of the version the segment has.
RecomputeTask ==
  /\ seg.status = "active" /\ seg.recompute = "due"
  /\ CreateTask(seg.version)
  /\ UNCHANGED <<segmentVars, contactVars, userVars, changes>>
==============================================================================
