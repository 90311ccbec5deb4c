------------------------- MODULE EmailDeliveryProofs -------------------------
(***************************************************************************)
(* EmailQueue implements Delivery, for every set of rows, sources and      *)
(* workers: the initial states map to initial states and every step maps   *)
(* to a step of Delivery or to a stuttering step.                          *)
(***************************************************************************)
EXTENDS EmailDelivery, EmailQueueProofs, FiniteSetTheorems

\* The claims and attempts agree: a row that was never inserted was never
\* claimed, a row in 'processing' was (MarkAsProcessing counts every claim).
Counted ==
  \A e \in Entry :
    /\ status[e] = "absent" => attempts[e] = 0
    /\ status[e] = "processing" => attempts[e] > 0

\* An empty table was never claimed from.
LEMMA InitCounted == Init => Counted
  BY DEF Init, Counted

\* MarkAsProcessing is the only statement that writes 'processing', and it
\* counts; only Enqueue leaves "absent".
LEMMA NextCounted ==
  ASSUME IInv, Counted, [Next]_vars
  PROVE  Counted'
  <1> USE DEF Counted, IInv, TypeOK, vars, queueVars, workerVars, breakerVars, sourceVars
  <1>1. ASSUME NEW s \in Source, UserStep(s) PROVE Counted'
    BY <1>1 DEF UserStep, Enqueue, PauseBySource, ResumeBySource, DeleteBySource, Of
  <1>2. ASSUME NEW w \in Worker, WorkerStep(w) PROVE Counted'
    <2>1. CASE UNCHANGED <<status, attempts>>
      BY <2>1
    <2>2. ASSUME NEW e \in Entry, Defer(w, e) PROVE Counted'
      BY <2>2 DEF Defer, DeferRow, Live
    <2>3. ASSUME NEW e \in Entry, NEW next, MarkAsProcessing(w, e, next) PROVE Counted'
      BY <2>3 DEF MarkAsProcessing
    <2>4. ASSUME pc[w] \in {"sent", "disposing"}, DeleteRow(cur[w]) PROVE Counted'
      BY <2>4 DEF DeleteRow, WorkerInv
    <2>5. ASSUME FailRow(cur[w]) PROVE Counted'
      BY <2>5 DEF FailRow, Live
    <2> QED
      BY <1>2, <2>1, <2>2, <2>3, <2>4, <2>5
      DEF WorkerStep, LoopExits, FetchPending, Claim, ClaimOrphan, WaitCancelled, SendSucceeds,
          SendFails, MarkAsSent, RecordSent, RecordFailed, Dispose, CallFails
  <1>3. ASSUME NEW w \in Worker, Start(w) \/ Fault(w) PROVE Counted'
    BY <1>3 DEF Start, Fault, Stop, Crash, AnswerLost
  <1>4. CASE TimePasses
    BY <1>4 DEF TimePasses, RetryComesDue, ClaimGoesStale, CooldownEnds
  <1>5. CASE UNCHANGED vars
    BY <1>5
  <1> QED
    BY <1>1, <1>2, <1>3, <1>4, <1>5 DEF Next

\* An empty table is the empty abstract queue.
LEMMA InitSimulated == Init => Abstract!Init
  BY DEF Init, Abstract!Init, StateMap, StateOf, TryingMap, Sending, CancelledMap

\* What a step does to the abstract state: it is decided by the statuses, by
\* who is between a claim and the provider's answer, and by the sources.
LEMMA MapsUnchanged ==
  /\ UNCHANGED status => UNCHANGED StateMap
  /\ UNCHANGED <<pc, cur>> => UNCHANGED TryingMap
  /\ UNCHANGED src => UNCHANGED CancelledMap
  BY DEF StateMap, StateOf, TryingMap, Sending, CancelledMap

\* A worker that is not between a claim and the provider's answer, and does
\* not get there, is on no message's list of senders.
LEMMA NotTrying ==
  ASSUME TypeOK, NEW w \in Worker, pc[w] # "claimed",
         pc' = [pc EXCEPT ![w] = pc'[w]], pc'[w] # "claimed",
         cur' = [cur EXCEPT ![w] = cur'[w]]
  PROVE  UNCHANGED TryingMap
  <1>1. \A e \in Entry, v \in Worker : Sending(v, e)' <=> Sending(v, e)
    BY DEF TypeOK, Sending
  <1> QED
    BY <1>1 DEF TryingMap

\* A worker that leaves that place ends its try of its current row.
LEMMA TryEnds ==
  ASSUME TypeOK, NEW w \in Worker, pc[w] = "claimed", cur[w] \in Entry,
         pc' = [pc EXCEPT ![w] = pc'[w]], pc'[w] # "claimed",
         cur' = [cur EXCEPT ![w] = cur'[w]]
  PROVE  Abstract!EndTry(w, cur[w])
  <1>1. \A e \in Entry, v \in Worker : Sending(v, e)' <=> Sending(v, e) /\ ~(v = w /\ e = cur[w])
    BY DEF TypeOK, Sending
  <1>2. TryingMap' = [TryingMap EXCEPT ![cur[w]] = TryingMap[cur[w]] \ {w}]
    <2>1. \A e \in Entry : TryingMap'[e] = IF e = cur[w] THEN TryingMap[e] \ {w} ELSE TryingMap[e]
      BY <1>1 DEF TryingMap
    <2>2. TryingMap' = [e \in Entry |-> TryingMap'[e]]
      BY DEF TryingMap
    <2>3. TryingMap = [e \in Entry |-> TryingMap[e]]
      BY DEF TryingMap
    <2> QED
      BY <2>1, <2>2, <2>3
  <1>3. w \in TryingMap[cur[w]]
    BY DEF TryingMap, Sending
  <1> QED
    BY <1>2, <1>3 DEF Abstract!EndTry

\* MarkAsProcessing begins a try: of a send when the worker goes on to the
\* provider, spent at once when the row's integration is gone.
LEMMA TryBegins ==
  ASSUME TypeOK, NEW w \in Worker, NEW e \in Entry, NEW next \in {"claimed", "errored"},
         pc[w] = "entry", Claimable(e), MarkAsProcessing(w, e, next),
         UNCHANGED <<delivered, hard, src>>
  PROVE  Abstract!Try(w, e)
  <1>1. StateMap[e] = "queued" /\ UNCHANGED StateMap
    <2>1. \A x \in Entry : StateOf(x)' = StateOf(x)
      BY DEF Claimable, MarkAsProcessing, StateOf, TypeOK
    <2> QED
      BY <2>1 DEF StateMap, StateOf, Claimable
  <1>2. attempts' = [attempts EXCEPT ![e] = @ + 1]
    BY DEF MarkAsProcessing
  <1>3. \A n \in Entry : w \notin TryingMap[n]
    BY DEF TryingMap, Sending
  <1>4. CASE next = "errored"
    <2>1. UNCHANGED TryingMap
      BY <1>4, NotTrying DEF MarkAsProcessing, TypeOK
    <2> QED
      BY <1>1, <1>2, <1>3, <2>1, MapsUnchanged DEF Abstract!Try
  <1>5. CASE next = "claimed"
    <2>1. \A x \in Entry, v \in Worker : Sending(v, x)' <=> Sending(v, x) \/ (v = w /\ x = e)
      BY <1>5 DEF MarkAsProcessing, TypeOK, Sending
    <2>2. \A x \in Entry : TryingMap'[x] = IF x = e THEN TryingMap[x] \cup {w} ELSE TryingMap[x]
      BY <2>1 DEF TryingMap
    <2>3. /\ TryingMap' = [x \in Entry |-> TryingMap'[x]]
          /\ TryingMap = [x \in Entry |-> TryingMap[x]]
      BY DEF TryingMap
    <2>4. TryingMap' = [TryingMap EXCEPT ![e] = TryingMap[e] \cup {w}]
      BY <2>2, <2>3
    <2> QED
      BY <1>1, <1>2, <1>3, <2>4, MapsUnchanged DEF Abstract!Try
  <1> QED
    BY <1>4, <1>5

\* Deleting a row that has a reason to be gone settles its message; deleting
\* it a second time changes nothing.
LEMMA DeleteSettles ==
  ASSUME TypeOK, NEW e \in Entry, DeleteRow(e), status[e] # "absent",
         delivered[e] > 0 \/ hard[e] \/ attempts[e] >= MaxAttempts,
         UNCHANGED <<TryingMap, delivered, hard, src>>
  PROVE  Abstract!Settle(e) \/ UNCHANGED Abstract!vars
  <1>1. \A x \in Entry : StateOf(x)' = IF x = e THEN "settled" ELSE StateOf(x)
    BY DEF DeleteRow, StateOf, TypeOK
  <1>2. CASE status[e] = "gone"
    <2>1. UNCHANGED StateMap
      BY <1>1, <1>2 DEF StateMap, StateOf
    <2> QED
      BY <2>1, MapsUnchanged DEF DeleteRow, Abstract!vars
  <1>3. CASE status[e] # "gone"
    <2>1. StateMap[e] = "queued"
      BY <1>3 DEF StateMap, StateOf
    <2>2. StateMap' = [StateMap EXCEPT ![e] = "settled"]
      BY <1>1 DEF StateMap
    <2> QED
      BY <2>1, <2>2, MapsUnchanged DEF DeleteRow, Abstract!Settle
  <1> QED
    BY <1>2, <1>3

\* DeferRow and FailRow keep a row in the table, or out of it.
LEMMA RewriteKeepsState ==
  ASSUME TypeOK, NEW e \in Entry \cup {NoEntry}, DeferRow(e) \/ FailRow(e)
  PROVE  UNCHANGED StateMap
  <1>1. \A x \in Entry : StateOf(x)' = StateOf(x)
    BY DEF DeferRow, FailRow, Live, StateOf, TypeOK
  <1> QED
    BY <1>1 DEF StateMap

\* Enqueue submits, DeleteBySource cancels; a pause or a resume is invisible.
LEMMA UserStepSimulated ==
  ASSUME IInv, Counted, NEW s \in Source, UserStep(s)
  PROVE  Abstract!Next \/ UNCHANGED Abstract!vars
  <1> USE DEF IInv, workerVars
  <1>1. ASSUME NEW S \in SUBSET Entry, Enqueue(s, S) PROVE Abstract!Submit(S)
    <2>1. \A e \in Entry : StateOf(e)' = IF e \in S THEN "queued" ELSE StateOf(e)
      BY <1>1 DEF Enqueue, StateOf, TypeOK
    <2>2. StateMap' = [e \in Entry |-> IF e \in S THEN "queued" ELSE StateMap[e]]
      BY <2>1 DEF StateMap
    <2>3. \A e \in S : StateMap[e] = "new"
      BY <1>1 DEF Enqueue, StateMap, StateOf
    <2> QED
      BY <1>1, <2>2, <2>3, MapsUnchanged DEF Abstract!Submit, Enqueue, sourceVars
  <1>2. CASE PauseBySource(s) \/ ResumeBySource(s)
    <2>1. \A e \in Entry : StateOf(e)' = StateOf(e)
      <3>1. CASE PauseBySource(s)
        BY <3>1 DEF PauseBySource, Of, StateOf, TypeOK
      <3>2. CASE ResumeBySource(s)
        BY <3>2 DEF ResumeBySource, Of, StateOf, TypeOK
      <3> QED
        BY <1>2, <3>1, <3>2
    <2>2. UNCHANGED StateMap
      BY <2>1 DEF StateMap
    <2>3. UNCHANGED CancelledMap
      BY <1>2 DEF PauseBySource, ResumeBySource, CancelledMap, TypeOK
    <2> QED
      BY <1>2, <2>2, <2>3, MapsUnchanged DEF PauseBySource, ResumeBySource, Abstract!vars
  <1>3. CASE DeleteBySource(s)
    <2> DEFINE S == Of(s, {"pending", "failed", "paused"})
    <2>1. \A e \in Entry : StateOf(e)' = IF e \in S THEN "settled" ELSE StateOf(e)
      BY <1>3 DEF DeleteBySource, Of, StateOf, TypeOK
    <2>2. StateMap' = [e \in Entry |-> IF e \in S THEN "settled" ELSE StateMap[e]]
      BY <2>1 DEF StateMap
    <2>3. \A e \in S : StateMap[e] = "queued" /\ SourceOf[e] = s
      BY DEF Of, StateMap, StateOf
    <2>4. \A e \in Entry : StateMap[e] = "queued" /\ SourceOf[e] = s /\ attempts[e] = 0 => e \in S
      BY DEF Of, StateMap, StateOf, Counted, TypeOK, Status
    <2>5. s \notin CancelledMap /\ CancelledMap' = CancelledMap \cup {s}
      BY <1>3 DEF DeleteBySource, CancelledMap, TypeOK
    <2>6. S \in SUBSET Entry
      BY DEF Of
    <2>7. Abstract!Cancel(s, S)
      BY <1>3, <2>2, <2>3, <2>4, <2>5, MapsUnchanged DEF DeleteBySource, Abstract!Cancel
    <2> QED
      BY <2>6, <2>7 DEF Abstract!Next
  <1> QED
    BY <1>1, <1>2, <1>3 DEF UserStep, Abstract!Next

\* The bookkeeping of a worker is invisible: it only matters when a claim is
\* made, the provider answers, a try is given up, or a row is deleted.
LEMMA WorkerStepSimulated ==
  ASSUME IInv, Counted, NEW w \in Worker, WorkerStep(w) \/ Fault(w) \/ Start(w)
  PROVE  Abstract!Next \/ UNCHANGED Abstract!vars
  <1> USE DEF IInv, queueVars, workerVars, sourceVars
  <1>1. pc[w] \in {"claimed", "sent", "marked", "errored", "disposing"} =>
          cur[w] \in Entry /\ attempts[cur[w]] > 0 /\ status[cur[w]] # "absent"
    BY DEF WorkerInv, Counted, TypeOK
  <1>2. ASSUME NEW e \in Entry, Claim(w, e) \/ ClaimOrphan(w, e)
        PROVE  Abstract!Next \/ UNCHANGED Abstract!vars
    <2>1. CASE \E next \in {"claimed", "errored"} : Claimable(e) /\ MarkAsProcessing(w, e, next)
      BY <1>2, <2>1, TryBegins DEF Claim, ClaimOrphan, Abstract!Next
    <2>2. CASE Skip(w, e) /\ UNCHANGED <<queueVars, snap>>
      <3>1. pc[w] # "claimed" /\ pc'[w] # "claimed"
        BY <1>2, <2>2 DEF Claim, ClaimOrphan, Skip, TypeOK
      <3>2. UNCHANGED TryingMap
        BY <2>2, <3>1, NotTrying DEF Skip, TypeOK
      <3> QED
        BY <1>2, <2>2, <3>2, MapsUnchanged DEF Claim, ClaimOrphan, Abstract!vars
    <2> QED
      BY <1>2, <2>1, <2>2 DEF Claim, ClaimOrphan
  <1>3. ASSUME NEW e \in Entry, Defer(w, e) PROVE UNCHANGED Abstract!vars
    <2>1. UNCHANGED TryingMap
      BY <1>3, NotTrying DEF Defer, Skip, TypeOK
    <2>2. UNCHANGED StateMap
      BY <1>3, RewriteKeepsState DEF Defer
    <2> QED
      BY <1>3, <2>1, <2>2, MapsUnchanged DEF Defer, DeferRow, Abstract!vars
  <1>4. ASSUME SendSucceeds(w) \/ AnswerLost(w) PROVE Abstract!Accept(w, cur[w])
    <2>1. Abstract!EndTry(w, cur[w])
      BY <1>1, <1>4, TryEnds DEF SendSucceeds, AnswerLost, TypeOK
    <2> QED
      BY <1>4, <2>1, MapsUnchanged DEF SendSucceeds, AnswerLost, Abstract!Accept
  <1>5. ASSUME NEW c \in SendError, SendFails(w, c)
        PROVE  Abstract!Refuse(w, cur[w]) \/ Abstract!Abandon(w, cur[w])
    <2>1. Abstract!EndTry(w, cur[w])
      BY <1>1, <1>5, TryEnds DEF SendFails, TypeOK
    <2>2. CASE Retryable(c)
      <3>1. UNCHANGED hard
        BY <1>1, <1>5, <2>2 DEF SendFails, TypeOK
      <3> QED
        BY <1>5, <2>1, <3>1, MapsUnchanged DEF SendFails, Abstract!Abandon
    <2>3. CASE ~Retryable(c)
      BY <1>5, <2>1, <2>3, MapsUnchanged DEF SendFails, Abstract!Refuse
    <2> QED
      BY <2>2, <2>3
  <1>6. ASSUME WaitCancelled(w) \/ (Crash(w) /\ pc[w] = "claimed")
        PROVE  Abstract!Abandon(w, cur[w])
    <2>1. Abstract!EndTry(w, cur[w])
      BY <1>1, <1>6, TryEnds DEF WaitCancelled, Skip, Crash, Halted, TypeOK
    <2> QED
      BY <1>6, <2>1, MapsUnchanged DEF WaitCancelled, Crash, Abstract!Abandon
  <1>7. ASSUME MarkAsSent(w) PROVE Abstract!Settle(cur[w]) \/ UNCHANGED Abstract!vars
    <2>1. UNCHANGED TryingMap
      BY <1>7, NotTrying DEF MarkAsSent, TypeOK
    <2>2. delivered[cur[w]] > 0
      BY <1>7 DEF MarkAsSent, WorkerInv
    <2> QED
      BY <1>1, <1>7, <2>1, <2>2, DeleteSettles DEF MarkAsSent
  <1>8. ASSUME Dispose(w) PROVE Abstract!Settle(cur[w]) \/ UNCHANGED Abstract!vars
    <2>1. UNCHANGED TryingMap
      BY <1>8, NotTrying DEF Dispose, Skip, TypeOK
    <2>2. CASE IsPermanent(w)
      <3>1. hard[cur[w]] \/ attempts[cur[w]] >= MaxAttempts
        BY <1>1, <1>8, <2>2, ConstantsAssumption DEF Dispose, IsPermanent, WorkerInv, TypeOK
      <3> QED
        BY <1>1, <1>8, <2>1, <2>2, <3>1, DeleteSettles DEF Dispose
    <2>3. CASE ~IsPermanent(w)
      <3>1. UNCHANGED StateMap
        BY <1>1, <1>8, <2>3, RewriteKeepsState DEF Dispose
      <3> QED
        BY <1>8, <2>1, <2>3, <3>1, MapsUnchanged DEF Dispose, FailRow, Abstract!vars
    <2> QED
      BY <2>2, <2>3
  <1>9. ASSUME \/ LoopExits(w) \/ \E S \in SUBSET Entry : FetchPending(w, S)
               \/ RecordSent(w) \/ RecordFailed(w) \/ CallFails(w)
               \/ Start(w) \/ Stop(w) \/ (Crash(w) /\ pc[w] # "claimed")
        PROVE  UNCHANGED Abstract!vars
    <2>1. UNCHANGED TryingMap
      <3>1. CASE Stop(w)
        BY <3>1, MapsUnchanged DEF Stop
      <3>2. CASE ~Stop(w)
        BY <1>9, <3>2, NotTrying
        DEF LoopExits, Halted, FetchPending, RecordSent, RecordFailed, CallFails, Skip, Start,
            Crash, TypeOK
      <3> QED
        BY <3>1, <3>2
    <2> QED
      BY <1>9, <2>1, MapsUnchanged
      DEF LoopExits, FetchPending, RecordSent, RecordFailed, CallFails, Start, Stop, Crash, Abstract!vars
  <1>10. pc[w] = "claimed" \/ MarkAsSent(w) \/ Dispose(w) => cur[w] \in Entry
    BY <1>1 DEF MarkAsSent, Dispose
  <1> QED
    BY <1>2, <1>3, <1>4, <1>5, <1>6, <1>7, <1>8, <1>9, <1>10
    DEF WorkerStep, Fault, SendSucceeds, AnswerLost, SendFails, WaitCancelled, Abstract!Next

\* Every step of the queue is a step of Delivery or leaves it unchanged.
LEMMA NextSimulated ==
  ASSUME IInv, Counted, [Next]_vars
  PROVE  [Abstract!Next]_Abstract!vars
  <1>1. CASE TimePasses \/ UNCHANGED vars
    BY <1>1, MapsUnchanged
    DEF TimePasses, RetryComesDue, ClaimGoesStale, CooldownEnds, vars, queueVars, workerVars,
        sourceVars, Abstract!vars
  <1> QED
    BY <1>1, UserStepSimulated, WorkerStepSimulated DEF Next

\* The email queue implements Delivery: whatever its snapshots, retries,
\* crashes and races, a message settles only for one of the four reasons, a
\* claim hands the provider at most one copy, and a cancellation withdraws
\* every message that was never claimed.
THEOREM QueueImplementsDelivery == Spec => ImplementsDelivery
  <1>1. Init => Counted /\ Abstract!Init
    BY InitCounted, InitSimulated
  <1>2. IInv /\ Counted /\ [Next]_vars => Counted' /\ [Abstract!Next]_Abstract!vars
    BY NextCounted, NextSimulated
  <1> QED
    BY <1>1, <1>2, Invariance, PTL DEF Spec, ImplementsDelivery, Abstract!Spec

\* Copies and running tries together are covered by the claims counted.
CopiesBound ==
  \A e \in Entry : delivered[e] + Cardinality(TryingMap[e]) <= attempts[e]

\* The senders of a row are a finite set, before and after a step.
LEMMA TryingFinite ==
  \A e \in Entry :
    /\ IsFiniteSet(TryingMap[e]) /\ Cardinality(TryingMap[e]) \in Nat
    /\ IsFiniteSet(TryingMap'[e]) /\ Cardinality(TryingMap'[e]) \in Nat
  <1>1. \A e \in Entry : TryingMap[e] \subseteq Worker /\ TryingMap'[e] \subseteq Worker
    BY DEF TryingMap
  <1> QED
    BY <1>1, ConstantsAssumption, FS_Subset, FS_CardinalityType

\* Nothing is sent and nothing is tried at the start.
LEMMA InitCopiesBound == Init => CopiesBound
  <1> SUFFICES ASSUME Init PROVE CopiesBound
    OBVIOUS
  <1>1. \A e \in Entry : TryingMap[e] = {}
    BY DEF Init, TryingMap, Sending
  <1>2. Cardinality({}) = 0
    BY FS_EmptySet
  <1>3. \A e \in Entry : delivered[e] = 0 /\ attempts[e] = 0
    BY DEF Init
  <1>4. ASSUME NEW e \in Entry PROVE delivered[e] + Cardinality(TryingMap[e]) <= attempts[e]
    <2>1. Cardinality(TryingMap[e]) = 0
      BY <1>1, <1>2, Zenon
    <2> QED
      BY <1>3, <2>1
  <1> QED
    BY <1>4 DEF CopiesBound

\* Every step of Delivery keeps the bound: a try adds one to both sides, and
\* a copy replaces the try it ends.
LEMMA NextCopiesBound ==
  ASSUME TypeOK, TypeOK', CopiesBound, [Abstract!Next]_Abstract!vars
  PROVE  CopiesBound'
  <1> USE DEF CopiesBound
  <1>a. DOMAIN TryingMap = Entry /\ TryingMap = [e \in Entry |-> TryingMap[e]]
    BY DEF TryingMap
  <1>b. ASSUME NEW w \in Worker, NEW m \in Entry, Abstract!EndTry(w, m)
        PROVE  /\ Cardinality(TryingMap'[m]) = Cardinality(TryingMap[m]) - 1
               /\ \A e \in Entry \ {m} : TryingMap'[e] = TryingMap[e]
    <2>1. TryingMap'[m] = TryingMap[m] \ {w} /\ w \in TryingMap[m]
      BY <1>a, <1>b DEF Abstract!EndTry
    <2> QED
      BY <1>a, <1>b, <2>1, TryingFinite, FS_RemoveElement DEF Abstract!EndTry
  <1>1. ASSUME NEW w \in Worker, NEW m \in Entry, Abstract!Try(w, m) PROVE CopiesBound'
    <2>1. \A e \in Entry \ {m} : TryingMap'[e] = TryingMap[e]
      BY <1>1, <1>a DEF Abstract!Try
    <2>2. Cardinality(TryingMap'[m]) <= Cardinality(TryingMap[m]) + 1
      <3>1. CASE UNCHANGED TryingMap
        BY <3>1, TryingFinite
      <3>2. CASE TryingMap' = [TryingMap EXCEPT ![m] = @ \cup {w}]
        <4>1. TryingMap'[m] = TryingMap[m] \cup {w} /\ w \notin TryingMap[m]
          BY <3>2, <1>a, <1>1 DEF Abstract!Try
        <4> QED
          <5>1. IsFiniteSet(TryingMap[m]) /\ Cardinality(TryingMap[m]) \in Nat
            BY TryingFinite
          <5>2. Cardinality(TryingMap[m] \cup {w}) = Cardinality(TryingMap[m]) + 1
            BY <4>1, <5>1, FS_AddElement
          <5>3. Cardinality(TryingMap'[m]) = Cardinality(TryingMap[m]) + 1
            BY <4>1, <5>2, Zenon
          <5> QED
            BY <5>1, <5>3
      <3> QED
        BY <1>1, <3>1, <3>2 DEF Abstract!Try
    <2>3. attempts'[m] = attempts[m] + 1 /\ \A e \in Entry \ {m} : attempts'[e] = attempts[e]
      BY <1>1 DEF Abstract!Try, TypeOK
    <2>4. UNCHANGED delivered
      BY <1>1 DEF Abstract!Try
    <2>5. ASSUME NEW e \in Entry PROVE delivered'[e] + Cardinality(TryingMap'[e]) <= attempts'[e]
      <3>1. /\ Cardinality(TryingMap[e]) \in Nat /\ Cardinality(TryingMap'[e]) \in Nat
            /\ delivered[e] \in Nat /\ attempts[e] \in Nat
            /\ delivered[e] + Cardinality(TryingMap[e]) <= attempts[e]
        BY TryingFinite DEF TypeOK
      <3>2. CASE e = m
        BY <2>2, <2>3, <2>4, <3>1, <3>2
      <3>3. CASE e # m
        <4>1. Cardinality(TryingMap'[e]) = Cardinality(TryingMap[e])
          BY <2>1, <3>3, Zenon
        <4> QED
          BY <2>3, <2>4, <3>1, <3>3, <4>1
      <3> QED
        BY <3>2, <3>3
    <2> QED
      BY <2>5
  <1>2. ASSUME NEW w \in Worker, NEW m \in Entry, Abstract!Accept(w, m) PROVE CopiesBound'
    BY <1>2, <1>b, TryingFinite DEF Abstract!Accept, TypeOK
  <1>3. ASSUME NEW w \in Worker, NEW m \in Entry, Abstract!Refuse(w, m) \/ Abstract!Abandon(w, m)
        PROVE  CopiesBound'
    <2>1. Abstract!EndTry(w, m) /\ UNCHANGED <<attempts, delivered>>
      BY <1>3 DEF Abstract!Refuse, Abstract!Abandon
    <2>2. ASSUME NEW e \in Entry PROVE delivered'[e] + Cardinality(TryingMap'[e]) <= attempts'[e]
      <3>1. /\ Cardinality(TryingMap[e]) \in Nat
            /\ delivered[e] \in Nat /\ attempts[e] \in Nat
            /\ delivered[e] + Cardinality(TryingMap[e]) <= attempts[e]
        BY TryingFinite DEF TypeOK
      <3>2. CASE e = m
        BY <1>b, <2>1, <3>1, <3>2
      <3>3. CASE e # m
        <4>1. Cardinality(TryingMap'[e]) = Cardinality(TryingMap[e])
          BY <1>b, <2>1, <3>3, Zenon
        <4> QED
          BY <2>1, <3>1, <4>1
      <3> QED
        BY <3>2, <3>3
    <2> QED
      BY <2>2
  <1>4. CASE UNCHANGED <<TryingMap, delivered, attempts>>
    BY <1>4
  <1> QED
    BY <1>1, <1>2, <1>3, <1>4
    DEF Abstract!Next, Abstract!Submit, Abstract!Settle, Abstract!Cancel, Abstract!vars

\* No recipient gets more copies than the claims counted for the row
\* (MarkAsProcessing): a property of Delivery that the queue inherits.
THEOREM CopiesAreClaimed == Spec => []EveryCopyWasClaimed
  <1>1. Init => Counted /\ CopiesBound
    BY InitCounted, InitCopiesBound
  <1>2. IInv /\ Counted /\ [Next]_vars => Counted'
    BY NextCounted
  <1>3. IInv /\ IInv' /\ Counted /\ CopiesBound /\ [Next]_vars => CopiesBound'
    BY NextSimulated, NextCopiesBound DEF IInv
  <1>4. IInv /\ CopiesBound => EveryCopyWasClaimed
    BY TryingFinite DEF IInv, TypeOK, CopiesBound, EveryCopyWasClaimed
  <1> QED
    BY <1>1, <1>2, <1>3, <1>4, Invariance, PTL DEF Spec
===============================================================================
