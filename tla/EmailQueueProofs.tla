--------------------------- MODULE EmailQueueProofs ---------------------------
(***************************************************************************)
(* EmailQueue for every set of rows, sources and workers and every value   *)
(* of the bounds: the type invariant, the breaker's guard, the reasons for *)
(* which a row may disappear, and what holds of duplicates, history,       *)
(* retries, pauses and cancellations while a claim is respected.           *)
(***************************************************************************)
EXTENDS EmailQueue, TLAPS

\* An empty table and stopped workers satisfy the invariant.
LEMMA InitIInv == Init => IInv
  <1> SUFFICES ASSUME Init PROVE IInv
    OBVIOUS
  <1>1. TypeOK
    BY ConstantsAssumption DEF Init, TypeOK, Status, PC, ErrorClass, SendError
  <1>2. BreakerGuardsProvider
    BY ConstantsAssumption DEF Init, BreakerGuardsProvider
  <1>3. \A w \in Worker : WorkerInv(w)
    BY DEF Init, WorkerInv
  <1>4. NoSilentLoss
    BY DEF Init, NoSilentLoss
  <1> QED
    BY <1>1, <1>2, <1>3, <1>4 DEF IInv

\* Enqueue and the BySource statements keep it: only a cancellation deletes
\* rows, and it is itself a reason to be gone.
LEMMA UserStepInv ==
  ASSUME IInv, NEW s \in Source, UserStep(s)
  PROVE  IInv'
  <1> USE DEF IInv, workerVars, breakerVars
  <1>1. ASSUME NEW S \in SUBSET Entry, Enqueue(s, S) PROVE IInv'
    <2> USE <1>1 DEF Enqueue
    <2>1. TypeOK'
      BY DEF TypeOK, Status, sourceVars
    <2>2. BreakerGuardsProvider'
      BY DEF BreakerGuardsProvider
    <2>3. \A w \in Worker : WorkerInv(w)'
      BY DEF WorkerInv
    <2>4. NoSilentLoss'
      BY DEF NoSilentLoss, sourceVars, TypeOK
    <2> QED BY <2>1, <2>2, <2>3, <2>4
  <1>2. CASE PauseBySource(s)
    <2> USE <1>2 DEF PauseBySource
    <2>1. TypeOK'
      BY DEF TypeOK, Status, OutOfReach, Of
    <2>2. BreakerGuardsProvider'
      BY DEF BreakerGuardsProvider
    <2>3. \A w \in Worker : WorkerInv(w)'
      BY DEF WorkerInv
    <2>4. NoSilentLoss'
      BY ConstantsAssumption DEF NoSilentLoss, TypeOK
    <2> QED BY <2>1, <2>2, <2>3, <2>4
  <1>3. CASE ResumeBySource(s)
    <2> USE <1>3 DEF ResumeBySource
    <2>1. TypeOK'
      BY DEF TypeOK, Status, Of
    <2>2. BreakerGuardsProvider'
      BY DEF BreakerGuardsProvider
    <2>3. \A w \in Worker : WorkerInv(w)'
      BY DEF WorkerInv
    <2>4. NoSilentLoss'
      BY ConstantsAssumption DEF NoSilentLoss, TypeOK
    <2> QED BY <2>1, <2>2, <2>3, <2>4
  <1>4. CASE DeleteBySource(s)
    <2> USE <1>4 DEF DeleteBySource
    <2>1. TypeOK'
      BY DEF TypeOK, Status, OutOfReach, Of
    <2>2. BreakerGuardsProvider'
      BY DEF BreakerGuardsProvider
    <2>3. \A w \in Worker : WorkerInv(w)'
      BY DEF WorkerInv
    <2>4. NoSilentLoss'
      BY ConstantsAssumption DEF NoSilentLoss, TypeOK, Of
    <2> QED BY <2>1, <2>2, <2>3, <2>4
  <1> QED
    BY <1>1, <1>2, <1>3, <1>4 DEF UserStep

\* RecordFailure, called from a closed breaker, keeps the count within the
\* threshold and opens the breaker exactly when it is reached.
LEMMA RecordFailureInv ==
  ASSUME TypeOK, BreakerGuardsProvider,
         NEW w \in Worker, NEW c,
         pc[w] = "claimed",
         pc' = [pc EXCEPT ![w] = "errored"],
         RecordFailure(w, c)
  PROVE  /\ failures' \in [Worker -> 0 .. Threshold]
         /\ isOpen' \in [Worker -> BOOLEAN]
         /\ cooled' \in [Worker -> BOOLEAN]
         /\ BreakerGuardsProvider'
  <1>1. ~isOpen[w] /\ failures[w] < Threshold /\ failures[w] \in Nat
    BY ConstantsAssumption DEF TypeOK, BreakerGuardsProvider
  <1>2. CASE TripsBreaker(c)
    <2>1. /\ failures' = [failures EXCEPT ![w] = failures[w] + 1]
          /\ isOpen' = [isOpen EXCEPT ![w] = IF failures[w] + 1 >= Threshold THEN TRUE ELSE isOpen[w]]
          /\ cooled' = [cooled EXCEPT ![w] = FALSE]
      BY <1>2 DEF RecordFailure
    <2>2. failures[w] + 1 \in 0 .. Threshold
      BY <1>1, ConstantsAssumption
    <2>3. failures' \in [Worker -> 0 .. Threshold]
      BY <2>1, <2>2 DEF TypeOK
    <2>4. isOpen' \in [Worker -> BOOLEAN]
      BY <2>1 DEF TypeOK
    <2>5. cooled' \in [Worker -> BOOLEAN]
      BY <2>1 DEF TypeOK
    <2>6. ASSUME NEW v \in Worker
          PROVE  (isOpen'[v] <=> failures'[v] >= Threshold) /\ (pc'[v] = "claimed" => ~isOpen'[v])
      <3>1. CASE v = w
        BY <3>1, <1>1, <2>1, <2>2 DEF TypeOK
      <3>2. CASE v # w
        BY <3>2, <2>1 DEF TypeOK, BreakerGuardsProvider
      <3> QED BY <3>1, <3>2
    <2> QED BY <2>3, <2>4, <2>5, <2>6 DEF BreakerGuardsProvider
  <1>3. CASE ~TripsBreaker(c)
    BY <1>3 DEF RecordFailure, breakerVars, TypeOK, BreakerGuardsProvider
  <1> QED BY <1>2, <1>3

\* Every step of a worker keeps it: a row is deleted by MarkAsSent after a
\* send, or by handleError when its error or its attempts say so.
LEMMA WorkerStepInv ==
  ASSUME IInv, NEW w \in Worker, WorkerStep(w)
  PROVE  IInv'
  <1> USE DEF IInv, queueVars, breakerVars, sourceVars
  <1>1. ASSUME NEW S \in SUBSET Entry, FetchPending(w, S) PROVE IInv'
    <2> USE <1>1 DEF FetchPending
    <2>1. TypeOK'
      BY ConstantsAssumption DEF TypeOK, Status, PC, ErrorClass, SendError, BreakerGuardsProvider
    <2>2. BreakerGuardsProvider'
      BY ConstantsAssumption DEF BreakerGuardsProvider, TypeOK, PC
    <2>3. \A v \in Worker : WorkerInv(v)'
      BY DEF WorkerInv, TypeOK, Retryable
    <2>4. NoSilentLoss'
      BY ConstantsAssumption DEF NoSilentLoss, TypeOK, WorkerInv
    <2> QED BY <2>1, <2>2, <2>3, <2>4
  <1>2. ASSUME NEW e \in Entry, Defer(w, e) PROVE IInv'
    <2> USE <1>2 DEF Defer, DeferRow, Live, Skip
    <2>1. TypeOK'
      BY ConstantsAssumption DEF TypeOK, Status, PC, ErrorClass, SendError, BreakerGuardsProvider
    <2>2. BreakerGuardsProvider'
      BY ConstantsAssumption DEF BreakerGuardsProvider, TypeOK, PC
    <2>3. \A v \in Worker : WorkerInv(v)'
      BY DEF WorkerInv, TypeOK, Retryable
    <2>4. NoSilentLoss'
      BY ConstantsAssumption DEF NoSilentLoss, TypeOK, WorkerInv
    <2> QED BY <2>1, <2>2, <2>3, <2>4
  <1>3. ASSUME NEW e \in Entry, Claim(w, e) PROVE IInv'
    <2> USE <1>3 DEF Claim, BreakerOpen, ResetIfCooled
    <2>1. CASE Claimable(e) /\ MarkAsProcessing(w, e, "claimed")
      <3> USE <2>1 DEF MarkAsProcessing
      <3>1. TypeOK'
        BY ConstantsAssumption DEF TypeOK, Status, PC, ErrorClass
      <3>2. BreakerGuardsProvider'
        BY ConstantsAssumption DEF BreakerGuardsProvider, TypeOK, PC
      <3>3. \A v \in Worker : WorkerInv(v)'
        BY DEF WorkerInv, TypeOK, Retryable
      <3>4. NoSilentLoss'
        BY ConstantsAssumption DEF NoSilentLoss, TypeOK
      <3> QED BY <3>1, <3>2, <3>3, <3>4
    <2>2. CASE ~Claimable(e) /\ Skip(w, e) /\ UNCHANGED <<queueVars, snap>>
      <3> USE <2>2 DEF Skip
      <3>1. TypeOK'
        BY ConstantsAssumption DEF TypeOK, Status, PC, ErrorClass
      <3>2. BreakerGuardsProvider'
        BY ConstantsAssumption DEF BreakerGuardsProvider, TypeOK, PC
      <3>3. \A v \in Worker : WorkerInv(v)'
        BY DEF WorkerInv, TypeOK, Retryable
      <3>4. NoSilentLoss'
        BY ConstantsAssumption DEF NoSilentLoss, TypeOK
      <3> QED BY <3>1, <3>2, <3>3, <3>4
    <2> QED BY <2>1, <2>2
  <1>4. ASSUME NEW e \in Entry, ClaimOrphan(w, e) PROVE IInv'
    <2> USE <1>4 DEF ClaimOrphan
    <2>1. CASE Claimable(e) /\ MarkAsProcessing(w, e, "errored")
      <3> USE <2>1 DEF MarkAsProcessing
      <3>1. TypeOK'
        BY ConstantsAssumption DEF TypeOK, Status, PC, ErrorClass
      <3>2. BreakerGuardsProvider'
        BY ConstantsAssumption DEF BreakerGuardsProvider, TypeOK, PC
      <3>3. \A v \in Worker : WorkerInv(v)'
        BY DEF WorkerInv, TypeOK, Retryable
      <3>4. NoSilentLoss'
        BY ConstantsAssumption DEF NoSilentLoss, TypeOK
      <3> QED BY <3>1, <3>2, <3>3, <3>4
    <2>2. CASE ~Claimable(e) /\ Skip(w, e) /\ UNCHANGED <<queueVars, snap>>
      <3> USE <2>2 DEF Skip
      <3>1. TypeOK'
        BY ConstantsAssumption DEF TypeOK, Status, PC, ErrorClass
      <3>2. BreakerGuardsProvider'
        BY ConstantsAssumption DEF BreakerGuardsProvider, TypeOK, PC
      <3>3. \A v \in Worker : WorkerInv(v)'
        BY DEF WorkerInv, TypeOK, Retryable
      <3>4. NoSilentLoss'
        BY ConstantsAssumption DEF NoSilentLoss, TypeOK
      <3> QED BY <3>1, <3>2, <3>3, <3>4
    <2> QED BY <2>1, <2>2
  <1>5. ASSUME NEW c \in SendError, SendFails(w, c) PROVE IInv'
    <2> USE <1>5 DEF SendFails
    <2>0. /\ failures' \in [Worker -> 0 .. Threshold]
          /\ isOpen' \in [Worker -> BOOLEAN]
          /\ cooled' \in [Worker -> BOOLEAN]
          /\ BreakerGuardsProvider'
      <3>1. TypeOK /\ BreakerGuardsProvider /\ pc[w] = "claimed" /\ RecordFailure(w, c)
        OBVIOUS
      <3>2. pc' = [pc EXCEPT ![w] = "errored"]
        OBVIOUS
      <3> QED BY <3>1, <3>2, RecordFailureInv
    <2>1. TypeOK'
      BY <2>0 DEF TypeOK, PC, ErrorClass, SendError, WorkerInv
    <2>2. BreakerGuardsProvider'
      BY <2>0
    <2>3. \A v \in Worker : WorkerInv(v)'
      BY DEF WorkerInv, TypeOK, Retryable
    <2>4. NoSilentLoss'
      BY ConstantsAssumption DEF NoSilentLoss, TypeOK, WorkerInv
    <2> QED BY <2>1, <2>2, <2>3, <2>4
  <1>6. CASE LoopExits(w)
    <2> USE <1>6 DEF LoopExits, Halted
    <2>1. TypeOK'
      BY ConstantsAssumption DEF TypeOK, Status, PC, ErrorClass, SendError, BreakerGuardsProvider
    <2>2. BreakerGuardsProvider'
      BY ConstantsAssumption DEF BreakerGuardsProvider, TypeOK, PC
    <2>3. \A v \in Worker : WorkerInv(v)'
      BY DEF WorkerInv, TypeOK, Retryable
    <2>4. NoSilentLoss'
      BY ConstantsAssumption DEF NoSilentLoss, TypeOK, WorkerInv
    <2> QED BY <2>1, <2>2, <2>3, <2>4
  <1>7. CASE WaitCancelled(w)
    <2> USE <1>7 DEF WaitCancelled, Skip
    <2>1. TypeOK'
      BY ConstantsAssumption DEF TypeOK, Status, PC, ErrorClass, SendError, BreakerGuardsProvider
    <2>2. BreakerGuardsProvider'
      BY ConstantsAssumption DEF BreakerGuardsProvider, TypeOK, PC
    <2>3. \A v \in Worker : WorkerInv(v)'
      BY DEF WorkerInv, TypeOK, Retryable
    <2>4. NoSilentLoss'
      BY ConstantsAssumption DEF NoSilentLoss, TypeOK, WorkerInv
    <2> QED BY <2>1, <2>2, <2>3, <2>4
  <1>8. CASE SendSucceeds(w)
    <2> USE <1>8 DEF SendSucceeds
    <2>1. TypeOK'
      BY ConstantsAssumption DEF TypeOK, Status, PC, ErrorClass, SendError, BreakerGuardsProvider, WorkerInv, TripsBreaker
    <2>2. BreakerGuardsProvider'
      BY ConstantsAssumption DEF BreakerGuardsProvider, TypeOK, PC
    <2>3. \A v \in Worker : WorkerInv(v)'
      BY DEF WorkerInv, TypeOK, Retryable
    <2>4. NoSilentLoss'
      BY ConstantsAssumption DEF NoSilentLoss, TypeOK, WorkerInv
    <2> QED BY <2>1, <2>2, <2>3, <2>4
  <1>9. CASE MarkAsSent(w)
    <2> USE <1>9 DEF MarkAsSent, DeleteRow
    <2>1. TypeOK'
      BY ConstantsAssumption DEF TypeOK, Status, PC, ErrorClass, SendError, BreakerGuardsProvider
    <2>2. BreakerGuardsProvider'
      BY ConstantsAssumption DEF BreakerGuardsProvider, TypeOK, PC
    <2>3. \A v \in Worker : WorkerInv(v)'
      BY DEF WorkerInv, TypeOK, Retryable
    <2>4. NoSilentLoss'
      BY ConstantsAssumption DEF NoSilentLoss, TypeOK, WorkerInv
    <2> QED BY <2>1, <2>2, <2>3, <2>4
  <1>10. CASE RecordSent(w)
    <2> USE <1>10 DEF RecordSent, Skip
    <2>1. TypeOK'
      BY ConstantsAssumption DEF TypeOK, Status, PC, ErrorClass, SendError, BreakerGuardsProvider
    <2>2. BreakerGuardsProvider'
      BY ConstantsAssumption DEF BreakerGuardsProvider, TypeOK, PC
    <2>3. \A v \in Worker : WorkerInv(v)'
      BY DEF WorkerInv, TypeOK, Retryable
    <2>4. NoSilentLoss'
      BY ConstantsAssumption DEF NoSilentLoss, TypeOK, WorkerInv
    <2> QED BY <2>1, <2>2, <2>3, <2>4
  <1>11. CASE RecordFailed(w)
    <2> USE <1>11 DEF RecordFailed
    <2>1. TypeOK'
      BY ConstantsAssumption DEF TypeOK, Status, PC, ErrorClass, SendError, BreakerGuardsProvider
    <2>2. BreakerGuardsProvider'
      BY ConstantsAssumption DEF BreakerGuardsProvider, TypeOK, PC
    <2>3. \A v \in Worker : WorkerInv(v)'
      BY DEF WorkerInv, TypeOK, Retryable
    <2>4. NoSilentLoss'
      BY ConstantsAssumption DEF NoSilentLoss, TypeOK, WorkerInv
    <2> QED BY <2>1, <2>2, <2>3, <2>4
  <1>12. CASE Dispose(w)
    <2> USE <1>12 DEF Dispose, IsPermanent, DeleteRow, FailRow, Live, Skip
    <2>1. TypeOK'
      <3>1. cur[w] \in Entry
        BY DEF WorkerInv
      <3>2. CASE IsPermanent(w) /\ DeleteRow(cur[w])
        BY <3>1, <3>2 DEF TypeOK, Status, PC
      <3>3. CASE ~IsPermanent(w) /\ FailRow(cur[w])
        BY <3>1, <3>3 DEF TypeOK, Status, PC
      <3> QED BY <3>2, <3>3
    <2>2. BreakerGuardsProvider'
      BY ConstantsAssumption DEF BreakerGuardsProvider, TypeOK, PC
    <2>3. \A v \in Worker : WorkerInv(v)'
      BY DEF WorkerInv, TypeOK, Retryable
    <2>4. NoSilentLoss'
      BY ConstantsAssumption DEF NoSilentLoss, TypeOK, WorkerInv
    <2> QED BY <2>1, <2>2, <2>3, <2>4
  <1>13. CASE CallFails(w)
    <2> USE <1>13 DEF CallFails, Skip
    <2>1. TypeOK'
      <3>1. faults' \in Nat
        BY DEF TypeOK
      <3>2. CASE pc[w] = "entry" /\ \E e \in todo[w] : Skip(w, e)
        BY <3>1, <3>2 DEF TypeOK, PC
      <3>3. CASE Skip(w, cur[w])
        BY <3>1, <3>3 DEF TypeOK, PC
      <3>4. CASE pc' = [pc EXCEPT ![w] = "disposing"] /\ UNCHANGED <<todo, cur>>
        BY <3>1, <3>4 DEF TypeOK, PC
      <3> QED BY <3>2, <3>3, <3>4
    <2>2. BreakerGuardsProvider'
      BY ConstantsAssumption DEF BreakerGuardsProvider, TypeOK, PC
    <2>3. \A v \in Worker : WorkerInv(v)'
      BY DEF WorkerInv, TypeOK, Retryable
    <2>4. NoSilentLoss'
      BY ConstantsAssumption DEF NoSilentLoss, TypeOK, WorkerInv
    <2> QED BY <2>1, <2>2, <2>3, <2>4
  <1> QED
    BY <1>1, <1>2, <1>3, <1>4, <1>5, <1>6, <1>7, <1>8, <1>9, <1>10, <1>11, <1>12, <1>13 DEF WorkerStep

\* Start, Stop, Crash, a lost answer and the passing of time keep it.
LEMMA EnvironmentInv ==
  ASSUME IInv,
         \/ \E w \in Worker : Start(w) \/ Fault(w)
         \/ TimePasses
  PROVE  IInv'
  <1> USE DEF IInv, queueVars, workerVars, breakerVars, sourceVars
  <1>1. ASSUME NEW w \in Worker, Start(w) PROVE IInv'
    <2> USE <1>1 DEF Start
    <2>1. TypeOK'
      BY ConstantsAssumption DEF TypeOK, Status, PC, ErrorClass, SendError, BreakerGuardsProvider
    <2>2. BreakerGuardsProvider'
      BY ConstantsAssumption DEF BreakerGuardsProvider, TypeOK, PC
    <2>3. \A v \in Worker : WorkerInv(v)'
      BY DEF WorkerInv, TypeOK, Retryable
    <2>4. NoSilentLoss'
      BY ConstantsAssumption DEF NoSilentLoss, TypeOK, WorkerInv
    <2> QED BY <2>1, <2>2, <2>3, <2>4
  <1>2. ASSUME NEW w \in Worker, Stop(w) PROVE IInv'
    <2> USE <1>2 DEF Stop
    <2>1. TypeOK'
      BY ConstantsAssumption DEF TypeOK, Status, PC, ErrorClass, SendError, BreakerGuardsProvider
    <2>2. BreakerGuardsProvider'
      BY ConstantsAssumption DEF BreakerGuardsProvider, TypeOK, PC
    <2>3. \A v \in Worker : WorkerInv(v)'
      BY DEF WorkerInv, TypeOK, Retryable
    <2>4. NoSilentLoss'
      BY ConstantsAssumption DEF NoSilentLoss, TypeOK, WorkerInv
    <2> QED BY <2>1, <2>2, <2>3, <2>4
  <1>3. ASSUME NEW w \in Worker, Crash(w) PROVE IInv'
    <2> USE <1>3 DEF Crash, Halted
    <2>1. TypeOK'
      BY ConstantsAssumption DEF TypeOK, Status, PC, ErrorClass, SendError, BreakerGuardsProvider
    <2>2. BreakerGuardsProvider'
      BY ConstantsAssumption DEF BreakerGuardsProvider, TypeOK, PC
    <2>3. \A v \in Worker : WorkerInv(v)'
      BY DEF WorkerInv, TypeOK, Retryable
    <2>4. NoSilentLoss'
      BY ConstantsAssumption DEF NoSilentLoss, TypeOK, WorkerInv
    <2> QED BY <2>1, <2>2, <2>3, <2>4
  <1>4. ASSUME NEW w \in Worker, AnswerLost(w) PROVE IInv'
    <2> USE <1>4 DEF AnswerLost
    <2>0. /\ failures' \in [Worker -> 0 .. Threshold]
          /\ isOpen' \in [Worker -> BOOLEAN]
          /\ cooled' \in [Worker -> BOOLEAN]
          /\ BreakerGuardsProvider'
      <3>1. TypeOK /\ BreakerGuardsProvider /\ pc[w] = "claimed" /\ RecordFailure(w, "transient")
        OBVIOUS
      <3>2. pc' = [pc EXCEPT ![w] = "errored"]
        OBVIOUS
      <3> QED BY <3>1, <3>2, RecordFailureInv
    <2>1. TypeOK'
      <3>1. cur[w] \in Entry
        BY DEF WorkerInv
      <3>2. delivered' \in [Entry -> Nat] /\ faults' \in Nat
        BY <3>1 DEF TypeOK
      <3>3. pc' \in [Worker -> PC] /\ err' \in [Worker -> ErrorClass]
        BY DEF TypeOK, PC, ErrorClass, SendError
      <3> QED BY <2>0, <3>2, <3>3 DEF TypeOK
    <2>2. BreakerGuardsProvider'
      BY <2>0
    <2>3. \A v \in Worker : WorkerInv(v)'
      BY DEF WorkerInv, TypeOK, Retryable
    <2>4. NoSilentLoss'
      BY ConstantsAssumption DEF NoSilentLoss, TypeOK, WorkerInv
    <2> QED BY <2>1, <2>2, <2>3, <2>4
  <1>5. ASSUME NEW e \in Entry, RetryComesDue(e) PROVE IInv'
    <2> USE <1>5 DEF RetryComesDue
    <2>1. TypeOK'
      BY ConstantsAssumption DEF TypeOK, Status, PC, ErrorClass, SendError, BreakerGuardsProvider
    <2>2. BreakerGuardsProvider'
      BY ConstantsAssumption DEF BreakerGuardsProvider, TypeOK, PC
    <2>3. \A v \in Worker : WorkerInv(v)'
      BY DEF WorkerInv, TypeOK, Retryable
    <2>4. NoSilentLoss'
      BY ConstantsAssumption DEF NoSilentLoss, TypeOK, WorkerInv
    <2> QED BY <2>1, <2>2, <2>3, <2>4
  <1>6. ASSUME NEW e \in Entry, ClaimGoesStale(e) PROVE IInv'
    <2> USE <1>6 DEF ClaimGoesStale
    <2>1. TypeOK'
      BY ConstantsAssumption DEF TypeOK, Status, PC, ErrorClass, SendError, BreakerGuardsProvider
    <2>2. BreakerGuardsProvider'
      BY ConstantsAssumption DEF BreakerGuardsProvider, TypeOK, PC
    <2>3. \A v \in Worker : WorkerInv(v)'
      BY DEF WorkerInv, TypeOK, Retryable
    <2>4. NoSilentLoss'
      BY ConstantsAssumption DEF NoSilentLoss, TypeOK, WorkerInv
    <2> QED BY <2>1, <2>2, <2>3, <2>4
  <1>7. ASSUME NEW w \in Worker, CooldownEnds(w) PROVE IInv'
    <2> USE <1>7 DEF CooldownEnds
    <2>1. TypeOK'
      BY ConstantsAssumption DEF TypeOK, Status, PC, ErrorClass, SendError, BreakerGuardsProvider
    <2>2. BreakerGuardsProvider'
      BY ConstantsAssumption DEF BreakerGuardsProvider, TypeOK, PC
    <2>3. \A v \in Worker : WorkerInv(v)'
      BY DEF WorkerInv, TypeOK, Retryable
    <2>4. NoSilentLoss'
      BY ConstantsAssumption DEF NoSilentLoss, TypeOK, WorkerInv
    <2> QED BY <2>1, <2>2, <2>3, <2>4
  <1> QED
    BY <1>1, <1>2, <1>3, <1>4, <1>5, <1>6, <1>7 DEF Fault, TimePasses

\* The invariant is inductive.
LEMMA NextIInv == IInv /\ [Next]_vars => IInv'
  <1> SUFFICES ASSUME IInv, [Next]_vars PROVE IInv'
    OBVIOUS
  <1>1. CASE Next
    BY <1>1, UserStepInv, WorkerStepInv, EnvironmentInv DEF Next
  <1>2. CASE UNCHANGED vars
    <2> USE <1>2 DEF vars, queueVars, workerVars, breakerVars, sourceVars
    <2>1. TypeOK'
      BY DEF IInv, TypeOK
    <2>2. BreakerGuardsProvider'
      BY DEF IInv, BreakerGuardsProvider
    <2>3. \A w \in Worker : WorkerInv(w)'
      BY DEF IInv, WorkerInv
    <2>4. NoSilentLoss'
      BY DEF IInv, NoSilentLoss
    <2> QED BY <2>1, <2>2, <2>3, <2>4 DEF IInv
  <1> QED
    BY <1>1, <1>2

\* The inductive invariant holds in every reachable state.
THEOREM Invariance == Spec => []IInv
  <1> QED
    BY InitIInv, NextIInv, PTL DEF Spec

\* The table, the workers and the breakers stay well typed; in particular a
\* breaker never counts past its threshold (RecordFailure).
THEOREM TypeCorrect == Spec => []TypeOK
  <1>1. IInv => TypeOK
    BY DEF IInv
  <1> QED
    BY <1>1, Invariance, PTL

\* No worker calls the provider through an open breaker (IsOpen,
\* RecordFailure, RecordSuccess in circuit_breaker.go).
THEOREM BreakerGuard == Spec => []BreakerGuardsProvider
  <1>1. IInv => BreakerGuardsProvider
    BY DEF IInv
  <1> QED
    BY <1>1, Invariance, PTL

\* No row is ever deleted without a reason, with any number of workers,
\* however stale their snapshots and whatever fails.
THEOREM NoSilentLossHolds == Spec => []NoSilentLoss
  <1>1. IInv => NoSilentLoss
    BY DEF IInv
  <1> QED
    BY <1>1, Invariance, PTL
-----------------------------------------------------------------------------
(***************************************************************************)
(* Rows in hand.  A worker that claimed a row is its only handler as long  *)
(* as nothing takes the row away from it: there is one instance only, or   *)
(* no send outlives the two-minute reclaim window and no breaker opens     *)
(* (SetNextRetry, the statement behind an open breaker, looks at neither   *)
(* the status of the row nor its claim).  Under that condition the         *)
(* properties about duplicates, history, pauses and cancellations hold for *)
(* every number of rows and of workers.                                    *)
(***************************************************************************)

SoleWorker == \A v, w \in Worker : v = w

BreakersClosed == \A w \in Worker : ~isOpen[w]

Undisturbed == SoleWorker \/ (~SlowSends /\ BreakersClosed)

\* A row in hand is 'processing', is no other worker's, and its claim is
\* stale only where there is nobody else to reclaim it.
Exclusive ==
  /\ SingleSender
  /\ \A w \in Worker, e \in Entry :
       InFlight(w, e) => status[e] = "processing" /\ (stale[e] => SoleWorker)

\* The rows of a cancelled source are gone, those of a paused one are
\* paused or gone, except for the ones the statement could not reach.
CancelledRows ==
  \A e \in Entry :
    src[SourceOf[e]] = "cancelled" /\ e \notin tail[SourceOf[e]] => status[e] = "gone"

HaltedRows ==
  \A e \in Entry :
    src[SourceOf[e]] # "live" /\ e \notin tail[SourceOf[e]] => status[e] \in {"paused", "gone"}

\* Who pays for the copies of row e.  All of them but one are paid for by a
\* fault; the unpaid one belongs to a row that is gone or about to be.  A
\* worker told to stop has paid for the copy it may still send.
Account(e) ==
  /\ delivered[e] <= faults + 1
  /\ status[e] # "gone" /\ (\A w \in Worker : pc[w] = "sent" => cur[w] # e) => delivered[e] <= faults
  /\ \A w \in Worker :
       /\ cur[w] = e /\ stopping[w] /\ pc[w] = "claimed" => delivered[e] < faults
       /\ cur[w] = e /\ stopping[w] /\ pc[w] = "sent" => delivered[e] <= faults

\* What message_history is worth: a row marked sent was accepted by the
\* provider, and while nothing has failed an accepted row is recorded or in
\* the hands of the worker that is about to record it.
Recorded ==
  /\ \A e \in Entry : hist[e] = "sent" => delivered[e] > 0
  /\ faults = 0 =>
       /\ \A w \in Worker : ~stopping[w] /\ (pc[w] = "marked" => status[cur[w]] = "gone")
       /\ \A e \in Entry : delivered[e] > 0 =>
            \/ status[e] = "gone" /\ hist[e] = "sent"
            \/ \E w \in Worker : pc[w] \in {"sent", "marked"} /\ cur[w] = e

\* With one worker a snapshot is never out of date.
SnapshotsCurrent ==
  \A w \in Worker :
    /\ \A e \in todo[w] : snap[w][e] = attempts[e]
    /\ pc[w] \in {"claimed", "sent", "marked", "errored", "disposing"} =>
         snap[w][cur[w]] + 1 = attempts[cur[w]] /\ cur[w] \notin todo[w]

\* MarkAsProcessing takes a row that is in nobody's hands.
LEMMA FreeToClaim ==
  ASSUME Exclusive, NEW w \in Worker, pc[w] = "entry", NEW e \in Entry, Claimable(e)
  PROVE  \A v \in Worker : ~InFlight(v, e)
  BY DEF Exclusive, SoleWorker, InFlight, Claimable

\* A worker that moves on leaves everybody else's hands as they are.
LEMMA SkipLetsGo ==
  ASSUME TypeOK, NEW w \in Worker, NEW x, Skip(w, x)
  PROVE  /\ \A v \in Worker, e \in Entry : InFlight(v, e)' => InFlight(v, e) /\ v # w
         /\ pc'[w] \in {"idle", "entry"}
         /\ \A v \in Worker : v # w => pc'[v] = pc[v] /\ cur'[v] = cur[v]
  BY DEF Skip, TypeOK, InFlight

\* The row in a worker's hands stays its own.
LEMMA ExclusiveStep ==
  ASSUME IInv, Undisturbed, Exclusive, Next
  PROVE  Exclusive'
  <1> USE DEF vars, queueVars, workerVars, breakerVars, sourceVars
  <1>1. ASSUME NEW w \in Worker, NEW S \in SUBSET Entry, FetchPending(w, S) PROVE Exclusive'
    BY <1>1, ConstantsAssumption DEF FetchPending, IInv, TypeOK, WorkerInv, Undisturbed, SoleWorker, BreakersClosed, Exclusive, SingleSender, InFlight
  <1>2. ASSUME NEW w \in Worker, NEW e \in Entry, Defer(w, e) PROVE Exclusive'
    BY <1>2, ConstantsAssumption DEF Defer, DeferRow, Live, Skip, BreakerOpen, IInv, TypeOK, WorkerInv, Undisturbed, SoleWorker, BreakersClosed, Exclusive, SingleSender, InFlight
  <1>3. ASSUME NEW w \in Worker, NEW e \in Entry, Claim(w, e) PROVE Exclusive'
    <2>1. CASE Claimable(e) /\ MarkAsProcessing(w, e, "claimed")
      <3>1. \A v \in Worker : ~InFlight(v, e)
        BY <2>1, <1>3, FreeToClaim DEF Claim
      <3>2. \A v \in Worker, x \in Entry :
              InFlight(v, x)' => IF v = w THEN x = e ELSE InFlight(v, x)
        BY <2>1 DEF MarkAsProcessing, InFlight, IInv, TypeOK
      <3>3. status' = [status EXCEPT ![e] = "processing"] /\ stale' = [stale EXCEPT ![e] = FALSE]
        BY <2>1 DEF MarkAsProcessing
      <3> QED BY <3>1, <3>2, <3>3 DEF Exclusive, SingleSender, SoleWorker, IInv, TypeOK
    <2>2. CASE ~Claimable(e) /\ Skip(w, e) /\ UNCHANGED <<queueVars, snap>>
      BY <2>2, SkipLetsGo DEF Exclusive, SingleSender, SoleWorker, IInv
    <2> QED BY <2>1, <2>2, <1>3 DEF Claim
  <1>4. ASSUME NEW w \in Worker, NEW e \in Entry, ClaimOrphan(w, e) PROVE Exclusive'
    <2>1. CASE Claimable(e) /\ MarkAsProcessing(w, e, "errored")
      <3>1. \A v \in Worker : ~InFlight(v, e)
        BY <2>1, <1>4, FreeToClaim DEF ClaimOrphan
      <3>2. \A v \in Worker, x \in Entry :
              InFlight(v, x)' => IF v = w THEN x = e ELSE InFlight(v, x)
        BY <2>1 DEF MarkAsProcessing, InFlight, IInv, TypeOK
      <3>3. status' = [status EXCEPT ![e] = "processing"] /\ stale' = [stale EXCEPT ![e] = FALSE]
        BY <2>1 DEF MarkAsProcessing
      <3> QED BY <3>1, <3>2, <3>3 DEF Exclusive, SingleSender, SoleWorker, IInv, TypeOK
    <2>2. CASE ~Claimable(e) /\ Skip(w, e) /\ UNCHANGED <<queueVars, snap>>
      BY <2>2, SkipLetsGo DEF Exclusive, SingleSender, SoleWorker, IInv
    <2> QED BY <2>1, <2>2, <1>4 DEF ClaimOrphan
  <1>5. ASSUME NEW w \in Worker, NEW c \in SendError, SendFails(w, c) PROVE Exclusive'
    BY <1>5, ConstantsAssumption DEF SendFails, IInv, TypeOK, WorkerInv, Undisturbed, SoleWorker, BreakersClosed, Exclusive, SingleSender, InFlight
  <1>6. ASSUME NEW w \in Worker, LoopExits(w) PROVE Exclusive'
    BY <1>6, ConstantsAssumption DEF LoopExits, Halted, IInv, TypeOK, WorkerInv, Undisturbed, SoleWorker, BreakersClosed, Exclusive, SingleSender, InFlight
  <1>7. ASSUME NEW w \in Worker, WaitCancelled(w) PROVE Exclusive'
    BY <1>7, ConstantsAssumption DEF WaitCancelled, Skip, IInv, TypeOK, WorkerInv, Undisturbed, SoleWorker, BreakersClosed, Exclusive, SingleSender, InFlight
  <1>8. ASSUME NEW w \in Worker, SendSucceeds(w) PROVE Exclusive'
    BY <1>8, ConstantsAssumption DEF SendSucceeds, IInv, TypeOK, WorkerInv, Undisturbed, SoleWorker, BreakersClosed, Exclusive, SingleSender, InFlight
  <1>9. ASSUME NEW w \in Worker, MarkAsSent(w) PROVE Exclusive'
    BY <1>9, ConstantsAssumption DEF MarkAsSent, DeleteRow, IInv, TypeOK, WorkerInv, Undisturbed, SoleWorker, BreakersClosed, Exclusive, SingleSender, InFlight
  <1>10. ASSUME NEW w \in Worker, RecordSent(w) PROVE Exclusive'
    BY <1>10, ConstantsAssumption DEF RecordSent, Skip, IInv, TypeOK, WorkerInv, Undisturbed, SoleWorker, BreakersClosed, Exclusive, SingleSender, InFlight
  <1>11. ASSUME NEW w \in Worker, RecordFailed(w) PROVE Exclusive'
    BY <1>11, ConstantsAssumption DEF RecordFailed, IInv, TypeOK, WorkerInv, Undisturbed, SoleWorker, BreakersClosed, Exclusive, SingleSender, InFlight
  <1>12. ASSUME NEW w \in Worker, Dispose(w) PROVE Exclusive'
    BY <1>12, ConstantsAssumption DEF Dispose, DeleteRow, FailRow, Live, Skip, IInv, TypeOK, WorkerInv, Undisturbed, SoleWorker, BreakersClosed, Exclusive, SingleSender, InFlight
  <1>13. ASSUME NEW w \in Worker, CallFails(w) PROVE Exclusive'
    <2>1. status' = status /\ stale' = stale
      BY <1>13 DEF CallFails
    <2>2. CASE \E x : Skip(w, x)
      BY <2>1, <2>2, SkipLetsGo DEF Exclusive, SingleSender, SoleWorker, IInv
    <2>3. CASE pc[w] = "errored" /\ pc' = [pc EXCEPT ![w] = "disposing"] /\ UNCHANGED <<todo, cur>>
      BY <2>1, <2>3 DEF Exclusive, SingleSender, SoleWorker, InFlight, IInv, TypeOK
    <2> QED BY <2>2, <2>3, <1>13 DEF CallFails
  <1>14. ASSUME NEW w \in Worker, Start(w) PROVE Exclusive'
    BY <1>14, ConstantsAssumption DEF Start, IInv, TypeOK, WorkerInv, Undisturbed, SoleWorker, BreakersClosed, Exclusive, SingleSender, InFlight
  <1>15. ASSUME NEW w \in Worker, Stop(w) PROVE Exclusive'
    BY <1>15, ConstantsAssumption DEF Stop, IInv, TypeOK, WorkerInv, Undisturbed, SoleWorker, BreakersClosed, Exclusive, SingleSender, InFlight
  <1>16. ASSUME NEW w \in Worker, Crash(w) PROVE Exclusive'
    BY <1>16, ConstantsAssumption DEF Crash, Halted, IInv, TypeOK, WorkerInv, Undisturbed, SoleWorker, BreakersClosed, Exclusive, SingleSender, InFlight
  <1>17. ASSUME NEW w \in Worker, AnswerLost(w) PROVE Exclusive'
    BY <1>17, ConstantsAssumption DEF AnswerLost, IInv, TypeOK, WorkerInv, Undisturbed, SoleWorker, BreakersClosed, Exclusive, SingleSender, InFlight
  <1>18. ASSUME NEW w \in Worker, CooldownEnds(w) PROVE Exclusive'
    BY <1>18, ConstantsAssumption DEF CooldownEnds, IInv, TypeOK, WorkerInv, Undisturbed, SoleWorker, BreakersClosed, Exclusive, SingleSender, InFlight
  <1>19. ASSUME NEW s \in Source, NEW S \in SUBSET Entry, Enqueue(s, S) PROVE Exclusive'
    BY <1>19, ConstantsAssumption DEF Enqueue, IInv, TypeOK, WorkerInv, Undisturbed, SoleWorker, BreakersClosed, Exclusive, SingleSender, InFlight
  <1>20. ASSUME NEW s \in Source, PauseBySource(s) PROVE Exclusive'
    BY <1>20, ConstantsAssumption DEF PauseBySource, OutOfReach, Of, IInv, TypeOK, WorkerInv, Undisturbed, SoleWorker, BreakersClosed, Exclusive, SingleSender, InFlight
  <1>21. ASSUME NEW s \in Source, ResumeBySource(s) PROVE Exclusive'
    BY <1>21, ConstantsAssumption DEF ResumeBySource, Of, IInv, TypeOK, WorkerInv, Undisturbed, SoleWorker, BreakersClosed, Exclusive, SingleSender, InFlight
  <1>22. ASSUME NEW s \in Source, DeleteBySource(s) PROVE Exclusive'
    BY <1>22, ConstantsAssumption DEF DeleteBySource, OutOfReach, Of, IInv, TypeOK, WorkerInv, Undisturbed, SoleWorker, BreakersClosed, Exclusive, SingleSender, InFlight
  <1>23. ASSUME NEW e \in Entry, RetryComesDue(e) PROVE Exclusive'
    BY <1>23, ConstantsAssumption DEF RetryComesDue, IInv, TypeOK, WorkerInv, Undisturbed, SoleWorker, BreakersClosed, Exclusive, SingleSender, InFlight
  <1>24. ASSUME NEW e \in Entry, ClaimGoesStale(e) PROVE Exclusive'
    BY <1>24, ConstantsAssumption DEF ClaimGoesStale, IInv, TypeOK, WorkerInv, Undisturbed, SoleWorker, BreakersClosed, Exclusive, SingleSender, InFlight
  <1> QED
    BY <1>1, <1>2, <1>3, <1>4, <1>5, <1>6, <1>7, <1>8, <1>9, <1>10, <1>11, <1>12, <1>13, <1>14,
       <1>15, <1>16, <1>17, <1>18, <1>19, <1>20, <1>21, <1>22, <1>23, <1>24
       DEF Next, WorkerStep, Fault, UserStep, TimePasses

\* A deleted row stays deleted, and a cancellation deletes what it reaches.
LEMMA CancelledStep ==
  ASSUME IInv, CancelledRows, Next
  PROVE  CancelledRows'
  <1> USE DEF vars, queueVars, workerVars, breakerVars, sourceVars
  <1>1. ASSUME NEW w \in Worker, NEW S \in SUBSET Entry, FetchPending(w, S) PROVE CancelledRows'
    BY <1>1, ConstantsAssumption DEF FetchPending, IInv, TypeOK, WorkerInv, CancelledRows
  <1>2. ASSUME NEW w \in Worker, NEW e \in Entry, Defer(w, e) PROVE CancelledRows'
    BY <1>2, ConstantsAssumption DEF Defer, DeferRow, Live, Skip, BreakerOpen, IInv, TypeOK, WorkerInv, CancelledRows
  <1>3. ASSUME NEW w \in Worker, NEW e \in Entry, Claim(w, e) PROVE CancelledRows'
    BY <1>3, ConstantsAssumption DEF Claim, Claimable, MarkAsProcessing, Skip, IInv, TypeOK, WorkerInv, CancelledRows
  <1>4. ASSUME NEW w \in Worker, NEW e \in Entry, ClaimOrphan(w, e) PROVE CancelledRows'
    BY <1>4, ConstantsAssumption DEF ClaimOrphan, Claimable, MarkAsProcessing, Skip, IInv, TypeOK, WorkerInv, CancelledRows
  <1>5. ASSUME NEW w \in Worker, NEW c \in SendError, SendFails(w, c) PROVE CancelledRows'
    BY <1>5, ConstantsAssumption DEF SendFails, IInv, TypeOK, WorkerInv, CancelledRows
  <1>6. ASSUME NEW w \in Worker, LoopExits(w) PROVE CancelledRows'
    BY <1>6, ConstantsAssumption DEF LoopExits, Halted, IInv, TypeOK, WorkerInv, CancelledRows
  <1>7. ASSUME NEW w \in Worker, WaitCancelled(w) PROVE CancelledRows'
    BY <1>7, ConstantsAssumption DEF WaitCancelled, Skip, IInv, TypeOK, WorkerInv, CancelledRows
  <1>8. ASSUME NEW w \in Worker, SendSucceeds(w) PROVE CancelledRows'
    BY <1>8, ConstantsAssumption DEF SendSucceeds, IInv, TypeOK, WorkerInv, CancelledRows
  <1>9. ASSUME NEW w \in Worker, MarkAsSent(w) PROVE CancelledRows'
    BY <1>9, ConstantsAssumption DEF MarkAsSent, DeleteRow, IInv, TypeOK, WorkerInv, CancelledRows
  <1>10. ASSUME NEW w \in Worker, RecordSent(w) PROVE CancelledRows'
    BY <1>10, ConstantsAssumption DEF RecordSent, Skip, IInv, TypeOK, WorkerInv, CancelledRows
  <1>11. ASSUME NEW w \in Worker, RecordFailed(w) PROVE CancelledRows'
    BY <1>11, ConstantsAssumption DEF RecordFailed, IInv, TypeOK, WorkerInv, CancelledRows
  <1>12. ASSUME NEW w \in Worker, Dispose(w) PROVE CancelledRows'
    BY <1>12, ConstantsAssumption DEF Dispose, DeleteRow, FailRow, Live, Skip, IInv, TypeOK, WorkerInv, CancelledRows
  <1>13. ASSUME NEW w \in Worker, CallFails(w) PROVE CancelledRows'
    BY <1>13, ConstantsAssumption DEF CallFails, Skip, IInv, TypeOK, WorkerInv, CancelledRows
  <1>14. ASSUME NEW w \in Worker, Start(w) PROVE CancelledRows'
    BY <1>14, ConstantsAssumption DEF Start, IInv, TypeOK, WorkerInv, CancelledRows
  <1>15. ASSUME NEW w \in Worker, Stop(w) PROVE CancelledRows'
    BY <1>15, ConstantsAssumption DEF Stop, IInv, TypeOK, WorkerInv, CancelledRows
  <1>16. ASSUME NEW w \in Worker, Crash(w) PROVE CancelledRows'
    BY <1>16, ConstantsAssumption DEF Crash, Halted, IInv, TypeOK, WorkerInv, CancelledRows
  <1>17. ASSUME NEW w \in Worker, AnswerLost(w) PROVE CancelledRows'
    BY <1>17, ConstantsAssumption DEF AnswerLost, IInv, TypeOK, WorkerInv, CancelledRows
  <1>18. ASSUME NEW w \in Worker, CooldownEnds(w) PROVE CancelledRows'
    BY <1>18, ConstantsAssumption DEF CooldownEnds, IInv, TypeOK, WorkerInv, CancelledRows
  <1>19. ASSUME NEW s \in Source, NEW S \in SUBSET Entry, Enqueue(s, S) PROVE CancelledRows'
    BY <1>19, ConstantsAssumption DEF Enqueue, IInv, TypeOK, WorkerInv, CancelledRows
  <1>20. ASSUME NEW s \in Source, PauseBySource(s) PROVE CancelledRows'
    BY <1>20, ConstantsAssumption DEF PauseBySource, OutOfReach, Of, IInv, TypeOK, WorkerInv, CancelledRows
  <1>21. ASSUME NEW s \in Source, ResumeBySource(s) PROVE CancelledRows'
    BY <1>21, ConstantsAssumption DEF ResumeBySource, Of, IInv, TypeOK, WorkerInv, CancelledRows
  <1>22. ASSUME NEW s \in Source, DeleteBySource(s) PROVE CancelledRows'
    <2> SUFFICES ASSUME NEW x \in Entry, src'[SourceOf[x]] = "cancelled", x \notin tail'[SourceOf[x]]
                 PROVE  status'[x] = "gone"
      BY DEF CancelledRows
    <2>1. CASE SourceOf[x] = s
      <3>1. x \notin OutOfReach(s)
        BY <2>1, <1>22, ConstantsAssumption DEF DeleteBySource, IInv, TypeOK
      <3>2. status[x] \in {"pending", "failed", "paused", "gone"}
        BY <2>1, <3>1 DEF OutOfReach, Of, IInv, TypeOK, Status
      <3> QED BY <2>1, <3>2, <1>22 DEF DeleteBySource, Of, IInv, TypeOK
    <2>2. CASE SourceOf[x] # s
      <3>1. src'[SourceOf[x]] = src[SourceOf[x]] /\ tail'[SourceOf[x]] = tail[SourceOf[x]] /\ status'[x] = status[x]
        BY <2>2, <1>22, ConstantsAssumption DEF DeleteBySource, Of, IInv, TypeOK
      <3> QED BY <3>1 DEF CancelledRows
    <2> QED BY <2>1, <2>2
  <1>23. ASSUME NEW e \in Entry, RetryComesDue(e) PROVE CancelledRows'
    BY <1>23, ConstantsAssumption DEF RetryComesDue, IInv, TypeOK, WorkerInv, CancelledRows
  <1>24. ASSUME NEW e \in Entry, ClaimGoesStale(e) PROVE CancelledRows'
    BY <1>24, ConstantsAssumption DEF ClaimGoesStale, IInv, TypeOK, WorkerInv, CancelledRows
  <1> QED
    BY <1>1, <1>2, <1>3, <1>4, <1>5, <1>6, <1>7, <1>8, <1>9, <1>10, <1>11, <1>12, <1>13, <1>14,
       <1>15, <1>16, <1>17, <1>18, <1>19, <1>20, <1>21, <1>22, <1>23, <1>24
       DEF Next, WorkerStep, Fault, UserStep, TimePasses

\* No statement of a worker revives a paused row, an open breaker apart.
LEMMA HaltedStep ==
  ASSUME IInv, Exclusive, BreakersClosed, HaltedRows, Next
  PROVE  HaltedRows'
  <1> USE DEF vars, queueVars, workerVars, breakerVars, sourceVars
  <1>1. ASSUME NEW w \in Worker, NEW S \in SUBSET Entry, FetchPending(w, S) PROVE HaltedRows'
    BY <1>1, ConstantsAssumption DEF FetchPending, IInv, TypeOK, WorkerInv, HaltedRows, Exclusive, InFlight, BreakersClosed
  <1>2. ASSUME NEW w \in Worker, NEW e \in Entry, Defer(w, e) PROVE HaltedRows'
    BY <1>2, ConstantsAssumption DEF Defer, DeferRow, Live, Skip, BreakerOpen, IInv, TypeOK, WorkerInv, HaltedRows, Exclusive, InFlight, BreakersClosed
  <1>3. ASSUME NEW w \in Worker, NEW e \in Entry, Claim(w, e) PROVE HaltedRows'
    <2>1. \A x \in Entry : status[x] \in {"paused", "gone"} => status'[x] = status[x]
      BY <1>3 DEF Claim, Claimable, MarkAsProcessing, IInv, TypeOK
    <2>2. src' = src /\ tail' = tail
      BY <1>3 DEF Claim
    <2> QED BY <2>1, <2>2 DEF HaltedRows
  <1>4. ASSUME NEW w \in Worker, NEW e \in Entry, ClaimOrphan(w, e) PROVE HaltedRows'
    BY <1>4, ConstantsAssumption DEF ClaimOrphan, Claimable, MarkAsProcessing, Skip, IInv, TypeOK, WorkerInv, HaltedRows, Exclusive, InFlight, BreakersClosed
  <1>5. ASSUME NEW w \in Worker, NEW c \in SendError, SendFails(w, c) PROVE HaltedRows'
    BY <1>5, ConstantsAssumption DEF SendFails, IInv, TypeOK, WorkerInv, HaltedRows, Exclusive, InFlight, BreakersClosed
  <1>6. ASSUME NEW w \in Worker, LoopExits(w) PROVE HaltedRows'
    BY <1>6, ConstantsAssumption DEF LoopExits, Halted, IInv, TypeOK, WorkerInv, HaltedRows, Exclusive, InFlight, BreakersClosed
  <1>7. ASSUME NEW w \in Worker, WaitCancelled(w) PROVE HaltedRows'
    BY <1>7, ConstantsAssumption DEF WaitCancelled, Skip, IInv, TypeOK, WorkerInv, HaltedRows, Exclusive, InFlight, BreakersClosed
  <1>8. ASSUME NEW w \in Worker, SendSucceeds(w) PROVE HaltedRows'
    BY <1>8, ConstantsAssumption DEF SendSucceeds, IInv, TypeOK, WorkerInv, HaltedRows, Exclusive, InFlight, BreakersClosed
  <1>9. ASSUME NEW w \in Worker, MarkAsSent(w) PROVE HaltedRows'
    BY <1>9, ConstantsAssumption DEF MarkAsSent, DeleteRow, IInv, TypeOK, WorkerInv, HaltedRows, Exclusive, InFlight, BreakersClosed
  <1>10. ASSUME NEW w \in Worker, RecordSent(w) PROVE HaltedRows'
    BY <1>10, ConstantsAssumption DEF RecordSent, Skip, IInv, TypeOK, WorkerInv, HaltedRows, Exclusive, InFlight, BreakersClosed
  <1>11. ASSUME NEW w \in Worker, RecordFailed(w) PROVE HaltedRows'
    BY <1>11, ConstantsAssumption DEF RecordFailed, IInv, TypeOK, WorkerInv, HaltedRows, Exclusive, InFlight, BreakersClosed
  <1>12. ASSUME NEW w \in Worker, Dispose(w) PROVE HaltedRows'
    <2>1. cur[w] \in Entry /\ status[cur[w]] = "processing"
      BY <1>12 DEF Dispose, IInv, WorkerInv, Exclusive, InFlight
    <2>2. \A x \in Entry : x # cur[w] => status'[x] = status[x]
      BY <2>1, <1>12 DEF Dispose, DeleteRow, FailRow, IInv, TypeOK
    <2>3. src' = src /\ tail' = tail
      BY <1>12 DEF Dispose
    <2>4. status'[cur[w]] \in {"gone", "failed"}
      BY <2>1, <1>12 DEF Dispose, DeleteRow, FailRow, Live, IInv, TypeOK
    <2> QED BY <2>1, <2>2, <2>3 DEF HaltedRows
  <1>13. ASSUME NEW w \in Worker, CallFails(w) PROVE HaltedRows'
    BY <1>13, ConstantsAssumption DEF CallFails, Skip, IInv, TypeOK, WorkerInv, HaltedRows, Exclusive, InFlight, BreakersClosed
  <1>14. ASSUME NEW w \in Worker, Start(w) PROVE HaltedRows'
    BY <1>14, ConstantsAssumption DEF Start, IInv, TypeOK, WorkerInv, HaltedRows, Exclusive, InFlight, BreakersClosed
  <1>15. ASSUME NEW w \in Worker, Stop(w) PROVE HaltedRows'
    BY <1>15, ConstantsAssumption DEF Stop, IInv, TypeOK, WorkerInv, HaltedRows, Exclusive, InFlight, BreakersClosed
  <1>16. ASSUME NEW w \in Worker, Crash(w) PROVE HaltedRows'
    BY <1>16, ConstantsAssumption DEF Crash, Halted, IInv, TypeOK, WorkerInv, HaltedRows, Exclusive, InFlight, BreakersClosed
  <1>17. ASSUME NEW w \in Worker, AnswerLost(w) PROVE HaltedRows'
    BY <1>17, ConstantsAssumption DEF AnswerLost, IInv, TypeOK, WorkerInv, HaltedRows, Exclusive, InFlight, BreakersClosed
  <1>18. ASSUME NEW w \in Worker, CooldownEnds(w) PROVE HaltedRows'
    BY <1>18, ConstantsAssumption DEF CooldownEnds, IInv, TypeOK, WorkerInv, HaltedRows, Exclusive, InFlight, BreakersClosed
  <1>19. ASSUME NEW s \in Source, NEW S \in SUBSET Entry, Enqueue(s, S) PROVE HaltedRows'
    BY <1>19, ConstantsAssumption DEF Enqueue, IInv, TypeOK, WorkerInv, HaltedRows, Exclusive, InFlight, BreakersClosed
  <1>20. ASSUME NEW s \in Source, PauseBySource(s) PROVE HaltedRows'
    <2> SUFFICES ASSUME NEW x \in Entry, src'[SourceOf[x]] # "live", x \notin tail'[SourceOf[x]]
                 PROVE  status'[x] \in {"paused", "gone"}
      BY DEF HaltedRows
    <2>1. CASE SourceOf[x] = s
      <3>1. x \notin OutOfReach(s)
        BY <2>1, <1>20, ConstantsAssumption DEF PauseBySource, IInv, TypeOK
      <3>2. status[x] \in {"pending", "failed", "paused", "gone"}
        BY <2>1, <3>1 DEF OutOfReach, Of, IInv, TypeOK, Status
      <3> QED BY <2>1, <3>2, <1>20 DEF PauseBySource, Of, IInv, TypeOK
    <2>2. CASE SourceOf[x] # s
      <3>1. src'[SourceOf[x]] = src[SourceOf[x]] /\ tail'[SourceOf[x]] = tail[SourceOf[x]] /\ status'[x] = status[x]
        BY <2>2, <1>20, ConstantsAssumption DEF PauseBySource, Of, IInv, TypeOK
      <3> QED BY <3>1 DEF HaltedRows
    <2> QED BY <2>1, <2>2
  <1>21. ASSUME NEW s \in Source, ResumeBySource(s) PROVE HaltedRows'
    BY <1>21, ConstantsAssumption DEF ResumeBySource, Of, IInv, TypeOK, WorkerInv, HaltedRows, Exclusive, InFlight, BreakersClosed
  <1>22. ASSUME NEW s \in Source, DeleteBySource(s) PROVE HaltedRows'
    <2> SUFFICES ASSUME NEW x \in Entry, src'[SourceOf[x]] # "live", x \notin tail'[SourceOf[x]]
                 PROVE  status'[x] \in {"paused", "gone"}
      BY DEF HaltedRows
    <2>1. CASE SourceOf[x] = s
      <3>1. x \notin OutOfReach(s)
        BY <2>1, <1>22, ConstantsAssumption DEF DeleteBySource, IInv, TypeOK
      <3>2. status[x] \in {"pending", "failed", "paused", "gone"}
        BY <2>1, <3>1 DEF OutOfReach, Of, IInv, TypeOK, Status
      <3> QED BY <2>1, <3>2, <1>22 DEF DeleteBySource, Of, IInv, TypeOK
    <2>2. CASE SourceOf[x] # s
      <3>1. src'[SourceOf[x]] = src[SourceOf[x]] /\ tail'[SourceOf[x]] = tail[SourceOf[x]] /\ status'[x] = status[x]
        BY <2>2, <1>22, ConstantsAssumption DEF DeleteBySource, Of, IInv, TypeOK
      <3> QED BY <3>1 DEF HaltedRows
    <2> QED BY <2>1, <2>2
  <1>23. ASSUME NEW e \in Entry, RetryComesDue(e) PROVE HaltedRows'
    BY <1>23, ConstantsAssumption DEF RetryComesDue, IInv, TypeOK, WorkerInv, HaltedRows, Exclusive, InFlight, BreakersClosed
  <1>24. ASSUME NEW e \in Entry, ClaimGoesStale(e) PROVE HaltedRows'
    BY <1>24, ConstantsAssumption DEF ClaimGoesStale, IInv, TypeOK, WorkerInv, HaltedRows, Exclusive, InFlight, BreakersClosed
  <1> QED
    BY <1>1, <1>2, <1>3, <1>4, <1>5, <1>6, <1>7, <1>8, <1>9, <1>10, <1>11, <1>12, <1>13, <1>14,
       <1>15, <1>16, <1>17, <1>18, <1>19, <1>20, <1>21, <1>22, <1>23, <1>24
       DEF Next, WorkerStep, Fault, UserStep, TimePasses

\* A worker that has nothing unaccounted for in hand may move on.
LEMMA AccountKept ==
  ASSUME TypeOK, NEW w \in Worker, NEW x \in Entry, Account(x),
         pc[w] = "sent" => cur[w] # x,
         pc'[w] \notin {"sent", "claimed"},
         \A v \in Worker : v # w => pc'[v] = pc[v] /\ cur'[v] = cur[v],
         status'[x] # "gone" => status[x] # "gone",
         stopping' = stopping, delivered' = delivered,
         faults' \in Nat, faults <= faults'
  PROVE  Account(x)'
  <1>1. delivered[x] \in Nat /\ faults \in Nat
    BY DEF TypeOK
  <1>2. delivered'[x] <= faults' + 1
    BY <1>1 DEF Account
  <1>3. ASSUME status'[x] # "gone", \A v \in Worker : pc'[v] = "sent" => cur'[v] # x
        PROVE  delivered'[x] <= faults'
    <2>1. \A v \in Worker : pc[v] = "sent" => cur[v] # x
      BY <1>3
    <2>2. delivered[x] <= faults
      BY <1>3, <2>1 DEF Account
    <2> QED BY <1>1, <2>2
  <1>4. ASSUME NEW v \in Worker, cur'[v] = x, stopping'[v], pc'[v] = "claimed"
        PROVE  delivered'[x] < faults'
    <2>1. delivered[x] < faults
      BY <1>4 DEF Account
    <2> QED BY <1>1, <2>1
  <1>5. ASSUME NEW v \in Worker, cur'[v] = x, stopping'[v], pc'[v] = "sent"
        PROVE  delivered'[x] <= faults'
    <2>1. delivered[x] <= faults
      BY <1>5 DEF Account
    <2> QED BY <1>1, <2>1
  <1> QED BY <1>2, <1>3, <1>4, <1>5 DEF Account

\* The same for processWorkspace moving on to its next row.
LEMMA AccountSkip ==
  ASSUME TypeOK, NEW w \in Worker, NEW y, Skip(w, y), pc[w] # "sent",
         \A x \in Entry : Account(x),
         \A x \in Entry : status'[x] # "gone" => status[x] # "gone",
         stopping' = stopping, delivered' = delivered, faults' = faults
  PROVE  \A x \in Entry : Account(x)'
  <1> SUFFICES ASSUME NEW x \in Entry PROVE Account(x)'
    OBVIOUS
  <1>1. /\ pc'[w] \notin {"sent", "claimed"}
        /\ \A v \in Worker : v # w => pc'[v] = pc[v] /\ cur'[v] = cur[v]
    BY SkipLetsGo
  <1>2. faults' \in Nat /\ faults <= faults'
    BY DEF TypeOK
  <1>3. Account(x) /\ (status'[x] # "gone" => status[x] # "gone")
    OBVIOUS
  <1> QED BY <1>1, <1>2, <1>3, AccountKept

\* Every copy but one is paid for by a fault.
LEMMA AccountStep ==
  ASSUME IInv, Exclusive, \A e \in Entry : Account(e), Next
  PROVE  \A x \in Entry : Account(x)'
  <1> USE DEF vars, queueVars, workerVars, breakerVars, sourceVars
  <1>1. ASSUME NEW w \in Worker, NEW S \in SUBSET Entry, FetchPending(w, S) PROVE \A x \in Entry : Account(x)'
    BY <1>1, ConstantsAssumption DEF FetchPending, IInv, TypeOK, WorkerInv, Account, Exclusive, SingleSender, InFlight, SoleWorker
  <1>2. ASSUME NEW w \in Worker, NEW e \in Entry, Defer(w, e) PROVE \A x \in Entry : Account(x)'
    BY <1>2, ConstantsAssumption DEF Defer, DeferRow, Live, Skip, BreakerOpen, IInv, TypeOK, WorkerInv, Account, Exclusive, SingleSender, InFlight, SoleWorker
  <1>3. ASSUME NEW w \in Worker, NEW e \in Entry, Claim(w, e) PROVE \A x \in Entry : Account(x)'
    <2>1. CASE Claimable(e) /\ MarkAsProcessing(w, e, "claimed")
      <3>1. \A v \in Worker : ~InFlight(v, e)
        BY <2>1, <1>3, FreeToClaim DEF Claim
      <3>2. \A v \in Worker : IF v = w THEN pc'[v] = "claimed" /\ cur'[v] = e ELSE pc'[v] = pc[v] /\ cur'[v] = cur[v]
        BY <2>1 DEF MarkAsProcessing, IInv, TypeOK
      <3>3. /\ status[e] # "gone" /\ status' = [status EXCEPT ![e] = "processing"]
            /\ pc[w] = "entry" /\ ~stopping[w]
            /\ stopping' = stopping /\ delivered' = delivered /\ faults' = faults
        BY <2>1, <1>3 DEF Claim, Claimable, MarkAsProcessing
      <3> QED BY <3>1, <3>2, <3>3 DEF Account, InFlight, IInv, TypeOK
    <2>2. CASE ~Claimable(e) /\ Skip(w, e) /\ UNCHANGED <<queueVars, snap>>
      <3>1. /\ pc[w] = "entry" /\ status' = status
            /\ stopping' = stopping /\ delivered' = delivered /\ faults' = faults
        BY <2>2, <1>3 DEF Claim
      <3> QED BY <2>2, <3>1, AccountSkip DEF IInv
    <2> QED BY <2>1, <2>2, <1>3 DEF Claim
  <1>4. ASSUME NEW w \in Worker, NEW e \in Entry, ClaimOrphan(w, e) PROVE \A x \in Entry : Account(x)'
    <2>1. CASE Claimable(e) /\ MarkAsProcessing(w, e, "errored")
      <3>1. \A v \in Worker : ~InFlight(v, e)
        BY <2>1, <1>4, FreeToClaim DEF ClaimOrphan
      <3>2. \A v \in Worker : IF v = w THEN pc'[v] = "errored" /\ cur'[v] = e ELSE pc'[v] = pc[v] /\ cur'[v] = cur[v]
        BY <2>1 DEF MarkAsProcessing, IInv, TypeOK
      <3>3. /\ status[e] # "gone" /\ status' = [status EXCEPT ![e] = "processing"]
            /\ pc[w] = "entry" /\ ~stopping[w]
            /\ stopping' = stopping /\ delivered' = delivered /\ faults' = faults
        BY <2>1, <1>4 DEF ClaimOrphan, Claimable, MarkAsProcessing
      <3> QED BY <3>1, <3>2, <3>3 DEF Account, InFlight, IInv, TypeOK
    <2>2. CASE ~Claimable(e) /\ Skip(w, e) /\ UNCHANGED <<queueVars, snap>>
      <3>1. /\ pc[w] = "entry" /\ status' = status
            /\ stopping' = stopping /\ delivered' = delivered /\ faults' = faults
        BY <2>2, <1>4 DEF ClaimOrphan
      <3> QED BY <2>2, <3>1, AccountSkip DEF IInv
    <2> QED BY <2>1, <2>2, <1>4 DEF ClaimOrphan
  <1>5. ASSUME NEW w \in Worker, NEW c \in SendError, SendFails(w, c) PROVE \A x \in Entry : Account(x)'
    BY <1>5, ConstantsAssumption DEF SendFails, IInv, TypeOK, WorkerInv, Account, Exclusive, SingleSender, InFlight, SoleWorker
  <1>6. ASSUME NEW w \in Worker, LoopExits(w) PROVE \A x \in Entry : Account(x)'
    <2>1. /\ pc[w] \in {"idle", "entry"}
          /\ \A v \in Worker : v # w => pc'[v] = pc[v] /\ cur'[v] = cur[v]
          /\ pc'[w] = "stopped"
          /\ status' = status /\ stopping' = stopping /\ delivered' = delivered /\ faults' = faults
      BY <1>6 DEF LoopExits, Halted, IInv, TypeOK
    <2> QED BY <2>1 DEF Account, IInv, TypeOK
  <1>7. ASSUME NEW w \in Worker, WaitCancelled(w) PROVE \A x \in Entry : Account(x)'
    <2>1. /\ Skip(w, cur[w])
          /\ pc[w] = "claimed"
          /\ status' = status /\ stopping' = stopping /\ delivered' = delivered /\ faults' = faults
      BY <1>7 DEF WaitCancelled
    <2> QED BY <2>1, AccountSkip DEF IInv
  <1>8. ASSUME NEW w \in Worker, SendSucceeds(w) PROVE \A x \in Entry : Account(x)'
    BY <1>8, ConstantsAssumption DEF SendSucceeds, IInv, TypeOK, WorkerInv, Account, Exclusive, SingleSender, InFlight, SoleWorker
  <1>9. ASSUME NEW w \in Worker, MarkAsSent(w) PROVE \A x \in Entry : Account(x)'
    BY <1>9, ConstantsAssumption DEF MarkAsSent, DeleteRow, IInv, TypeOK, WorkerInv, Account, Exclusive, SingleSender, InFlight, SoleWorker
  <1>10. ASSUME NEW w \in Worker, RecordSent(w) PROVE \A x \in Entry : Account(x)'
    <2>1. /\ Skip(w, cur[w])
          /\ pc[w] = "marked"
          /\ status' = status /\ stopping' = stopping /\ delivered' = delivered /\ faults' = faults
      BY <1>10 DEF RecordSent
    <2> QED BY <2>1, AccountSkip DEF IInv
  <1>11. ASSUME NEW w \in Worker, RecordFailed(w) PROVE \A x \in Entry : Account(x)'
    BY <1>11, ConstantsAssumption DEF RecordFailed, IInv, TypeOK, WorkerInv, Account, Exclusive, SingleSender, InFlight, SoleWorker
  <1>12. ASSUME NEW w \in Worker, Dispose(w) PROVE \A x \in Entry : Account(x)'
    <2>1. /\ Skip(w, cur[w]) /\ pc[w] = "disposing" /\ cur[w] \in Entry
          /\ stopping' = stopping /\ delivered' = delivered /\ faults' = faults
      BY <1>12 DEF Dispose, IInv, WorkerInv
    <2>2. status[cur[w]] = "processing"
      BY <2>1 DEF Exclusive, InFlight
    <2>3. \A x \in Entry : status'[x] # "gone" => status[x] # "gone"
      BY <2>1, <2>2, <1>12 DEF Dispose, DeleteRow, FailRow, IInv, TypeOK
    <2> QED BY <2>1, <2>3, AccountSkip DEF IInv
  <1>13. ASSUME NEW w \in Worker, CallFails(w) PROVE \A x \in Entry : Account(x)'
    <2>1. /\ status' = status /\ stopping' = stopping /\ delivered' = delivered
          /\ faults' = IF stopping[w] THEN faults ELSE faults + 1
      BY <1>13 DEF CallFails
    <2>2. ASSUME NEW y, Skip(w, y) PROVE \A x \in Entry : Account(x)'
      <3> SUFFICES ASSUME NEW x \in Entry PROVE Account(x)'
        OBVIOUS
      <3>1. /\ pc'[w] \in {"idle", "entry"}
            /\ \A v \in Worker : v # w => pc'[v] = pc[v] /\ cur'[v] = cur[v]
        BY <2>2, SkipLetsGo DEF IInv
      <3>2. faults \in Nat /\ faults' \in Nat /\ faults <= faults' /\ delivered[x] \in Nat
        BY <2>1 DEF IInv, TypeOK
      <3>3. CASE pc[w] = "sent" /\ cur[w] = x
        <4>1. stopping[w] => delivered[x] <= faults
          BY <3>3 DEF Account
        <4>2. delivered[x] <= faults'
          BY <2>1, <3>2, <4>1 DEF Account
        <4>3. \A v \in Worker : pc'[v] \in {"claimed", "sent"} => cur'[v] # x
          BY <3>1, <3>3 DEF Exclusive, SingleSender, InFlight
        <4> QED BY <2>1, <3>2, <4>2, <4>3 DEF Account
      <3>4. CASE ~(pc[w] = "sent" /\ cur[w] = x)
        BY <2>1, <3>1, <3>2, <3>4, AccountKept DEF IInv
      <3> QED BY <3>3, <3>4
    <2>4. CASE pc[w] = "errored" /\ pc' = [pc EXCEPT ![w] = "disposing"] /\ UNCHANGED <<todo, cur>>
      BY <2>1, <2>4 DEF Account, IInv, TypeOK
    <2> QED BY <2>2, <2>4, <1>13 DEF CallFails
  <1>14. ASSUME NEW w \in Worker, Start(w) PROVE \A x \in Entry : Account(x)'
    BY <1>14, ConstantsAssumption DEF Start, IInv, TypeOK, WorkerInv, Account, Exclusive, SingleSender, InFlight, SoleWorker
  <1>15. ASSUME NEW w \in Worker, Stop(w) PROVE \A x \in Entry : Account(x)'
    <2>1. /\ stopping' = [stopping EXCEPT ![w] = TRUE] /\ faults' = faults + 1
          /\ pc' = pc /\ cur' = cur /\ status' = status /\ delivered' = delivered
      BY <1>15 DEF Stop
    <2> SUFFICES ASSUME NEW x \in Entry PROVE Account(x)'
      OBVIOUS
    <2>2. delivered[x] \in Nat /\ faults \in Nat
      BY DEF IInv, TypeOK
    <2>3. ASSUME pc[w] = "claimed", cur[w] = x PROVE delivered[x] <= faults
      <3>1. status[x] = "processing" /\ \A v \in Worker : pc[v] = "sent" => cur[v] # x
        BY <2>3 DEF Exclusive, SingleSender, InFlight
      <3> QED BY <3>1 DEF Account
    <2> QED BY <2>1, <2>2, <2>3 DEF Account, IInv, TypeOK
  <1>16. ASSUME NEW w \in Worker, Crash(w) PROVE \A x \in Entry : Account(x)'
    BY <1>16, ConstantsAssumption DEF Crash, Halted, IInv, TypeOK, WorkerInv, Account, Exclusive, SingleSender, InFlight, SoleWorker
  <1>17. ASSUME NEW w \in Worker, AnswerLost(w) PROVE \A x \in Entry : Account(x)'
    BY <1>17, ConstantsAssumption DEF AnswerLost, IInv, TypeOK, WorkerInv, Account, Exclusive, SingleSender, InFlight, SoleWorker
  <1>18. ASSUME NEW w \in Worker, CooldownEnds(w) PROVE \A x \in Entry : Account(x)'
    BY <1>18, ConstantsAssumption DEF CooldownEnds, IInv, TypeOK, WorkerInv, Account, Exclusive, SingleSender, InFlight, SoleWorker
  <1>19. ASSUME NEW s \in Source, NEW S \in SUBSET Entry, Enqueue(s, S) PROVE \A x \in Entry : Account(x)'
    BY <1>19, ConstantsAssumption DEF Enqueue, IInv, TypeOK, WorkerInv, Account, Exclusive, SingleSender, InFlight, SoleWorker
  <1>20. ASSUME NEW s \in Source, PauseBySource(s) PROVE \A x \in Entry : Account(x)'
    BY <1>20, ConstantsAssumption DEF PauseBySource, OutOfReach, Of, IInv, TypeOK, WorkerInv, Account, Exclusive, SingleSender, InFlight, SoleWorker
  <1>21. ASSUME NEW s \in Source, ResumeBySource(s) PROVE \A x \in Entry : Account(x)'
    BY <1>21, ConstantsAssumption DEF ResumeBySource, Of, IInv, TypeOK, WorkerInv, Account, Exclusive, SingleSender, InFlight, SoleWorker
  <1>22. ASSUME NEW s \in Source, DeleteBySource(s) PROVE \A x \in Entry : Account(x)'
    BY <1>22, ConstantsAssumption DEF DeleteBySource, OutOfReach, Of, IInv, TypeOK, WorkerInv, Account, Exclusive, SingleSender, InFlight, SoleWorker
  <1>23. ASSUME NEW e \in Entry, RetryComesDue(e) PROVE \A x \in Entry : Account(x)'
    BY <1>23, ConstantsAssumption DEF RetryComesDue, IInv, TypeOK, WorkerInv, Account, Exclusive, SingleSender, InFlight, SoleWorker
  <1>24. ASSUME NEW e \in Entry, ClaimGoesStale(e) PROVE \A x \in Entry : Account(x)'
    BY <1>24, ConstantsAssumption DEF ClaimGoesStale, IInv, TypeOK, WorkerInv, Account, Exclusive, SingleSender, InFlight, SoleWorker
  <1> QED
    BY <1>1, <1>2, <1>3, <1>4, <1>5, <1>6, <1>7, <1>8, <1>9, <1>10, <1>11, <1>12, <1>13, <1>14,
       <1>15, <1>16, <1>17, <1>18, <1>19, <1>20, <1>21, <1>22, <1>23, <1>24
       DEF Next, WorkerStep, Fault, UserStep, TimePasses

\* History keeps up with the sends.
LEMMA RecordedStep ==
  ASSUME IInv, Exclusive, Recorded, Next
  PROVE  Recorded'
  <1> USE DEF vars, queueVars, workerVars, breakerVars, sourceVars
  <1>1. ASSUME NEW w \in Worker, NEW S \in SUBSET Entry, FetchPending(w, S) PROVE Recorded'
    BY <1>1, ConstantsAssumption DEF FetchPending, IInv, TypeOK, WorkerInv, Recorded, Exclusive, SingleSender, InFlight, SoleWorker
  <1>2. ASSUME NEW w \in Worker, NEW e \in Entry, Defer(w, e) PROVE Recorded'
    BY <1>2, ConstantsAssumption DEF Defer, DeferRow, Live, Skip, BreakerOpen, IInv, TypeOK, WorkerInv, Recorded, Exclusive, SingleSender, InFlight, SoleWorker
  <1>3. ASSUME NEW w \in Worker, NEW e \in Entry, Claim(w, e) PROVE Recorded'
    <2>0. /\ pc[w] = "entry"
          /\ stopping' = stopping /\ delivered' = delivered /\ hist' = hist /\ faults' = faults
      BY <1>3 DEF Claim
    <2>1. CASE Claimable(e) /\ MarkAsProcessing(w, e, "claimed")
      <3>1. \A v \in Worker : ~InFlight(v, e)
        BY <2>0, <2>1, FreeToClaim
      <3>2. \A v \in Worker : IF v = w THEN pc'[v] = "claimed" ELSE pc'[v] = pc[v] /\ cur'[v] = cur[v]
        BY <2>1 DEF MarkAsProcessing, IInv, TypeOK
      <3>3. status[e] # "gone" /\ status' = [status EXCEPT ![e] = "processing"]
        BY <2>1 DEF Claimable, MarkAsProcessing
      <3>4. ASSUME faults = 0
            PROVE  \A v \in Worker : ~stopping[v] /\ (pc'[v] = "marked" => status'[cur'[v]] = "gone")
        BY <3>2, <3>3, <3>4 DEF Recorded, IInv, TypeOK, WorkerInv
      <3>5. ASSUME faults = 0, NEW x \in Entry, delivered[x] > 0
            PROVE  \/ status'[x] = "gone" /\ hist[x] = "sent"
                   \/ \E v \in Worker : pc'[v] \in {"sent", "marked"} /\ cur'[v] = x
        <4>1. CASE status[x] = "gone" /\ hist[x] = "sent"
          BY <3>3, <4>1 DEF IInv, TypeOK
        <4>2. ASSUME NEW v \in Worker, pc[v] \in {"sent", "marked"}, cur[v] = x
              PROVE  pc'[v] \in {"sent", "marked"} /\ cur'[v] = x
          BY <2>0, <3>2, <4>2
        <4> QED BY <3>5, <4>1, <4>2 DEF Recorded
      <3> QED BY <2>0, <3>4, <3>5 DEF Recorded
    <2>2. CASE ~Claimable(e) /\ Skip(w, e) /\ UNCHANGED <<queueVars, snap>>
      <3>1. /\ pc'[w] \in {"idle", "entry"}
            /\ \A v \in Worker : v # w => pc'[v] = pc[v] /\ cur'[v] = cur[v]
        BY <2>2, SkipLetsGo DEF IInv
      <3> QED BY <2>0, <2>2, <3>1 DEF Recorded
    <2> QED BY <2>1, <2>2, <1>3 DEF Claim
  <1>4. ASSUME NEW w \in Worker, NEW e \in Entry, ClaimOrphan(w, e) PROVE Recorded'
    <2>0. /\ pc[w] = "entry"
          /\ stopping' = stopping /\ delivered' = delivered /\ hist' = hist /\ faults' = faults
      BY <1>4 DEF ClaimOrphan
    <2>1. CASE Claimable(e) /\ MarkAsProcessing(w, e, "errored")
      <3>1. \A v \in Worker : ~InFlight(v, e)
        BY <2>0, <2>1, FreeToClaim
      <3>2. \A v \in Worker : IF v = w THEN pc'[v] = "errored" ELSE pc'[v] = pc[v] /\ cur'[v] = cur[v]
        BY <2>1 DEF MarkAsProcessing, IInv, TypeOK
      <3>3. status[e] # "gone" /\ status' = [status EXCEPT ![e] = "processing"]
        BY <2>1 DEF Claimable, MarkAsProcessing
      <3>4. ASSUME faults = 0
            PROVE  \A v \in Worker : ~stopping[v] /\ (pc'[v] = "marked" => status'[cur'[v]] = "gone")
        BY <3>2, <3>3, <3>4 DEF Recorded, IInv, TypeOK, WorkerInv
      <3>5. ASSUME faults = 0, NEW x \in Entry, delivered[x] > 0
            PROVE  \/ status'[x] = "gone" /\ hist[x] = "sent"
                   \/ \E v \in Worker : pc'[v] \in {"sent", "marked"} /\ cur'[v] = x
        <4>1. CASE status[x] = "gone" /\ hist[x] = "sent"
          BY <3>3, <4>1 DEF IInv, TypeOK
        <4>2. ASSUME NEW v \in Worker, pc[v] \in {"sent", "marked"}, cur[v] = x
              PROVE  pc'[v] \in {"sent", "marked"} /\ cur'[v] = x
          BY <2>0, <3>2, <4>2
        <4> QED BY <3>5, <4>1, <4>2 DEF Recorded
      <3> QED BY <2>0, <3>4, <3>5 DEF Recorded
    <2>2. CASE ~Claimable(e) /\ Skip(w, e) /\ UNCHANGED <<queueVars, snap>>
      <3>1. /\ pc'[w] \in {"idle", "entry"}
            /\ \A v \in Worker : v # w => pc'[v] = pc[v] /\ cur'[v] = cur[v]
        BY <2>2, SkipLetsGo DEF IInv
      <3> QED BY <2>0, <2>2, <3>1 DEF Recorded
    <2> QED BY <2>1, <2>2, <1>4 DEF ClaimOrphan
  <1>5. ASSUME NEW w \in Worker, NEW c \in SendError, SendFails(w, c) PROVE Recorded'
    BY <1>5, ConstantsAssumption DEF SendFails, IInv, TypeOK, WorkerInv, Recorded, Exclusive, SingleSender, InFlight, SoleWorker
  <1>6. ASSUME NEW w \in Worker, LoopExits(w) PROVE Recorded'
    BY <1>6, ConstantsAssumption DEF LoopExits, Halted, IInv, TypeOK, WorkerInv, Recorded, Exclusive, SingleSender, InFlight, SoleWorker
  <1>7. ASSUME NEW w \in Worker, WaitCancelled(w) PROVE Recorded'
    BY <1>7, ConstantsAssumption DEF WaitCancelled, Skip, IInv, TypeOK, WorkerInv, Recorded, Exclusive, SingleSender, InFlight, SoleWorker
  <1>8. ASSUME NEW w \in Worker, SendSucceeds(w) PROVE Recorded'
    BY <1>8, ConstantsAssumption DEF SendSucceeds, IInv, TypeOK, WorkerInv, Recorded, Exclusive, SingleSender, InFlight, SoleWorker
  <1>9. ASSUME NEW w \in Worker, MarkAsSent(w) PROVE Recorded'
    BY <1>9, ConstantsAssumption DEF MarkAsSent, DeleteRow, IInv, TypeOK, WorkerInv, Recorded, Exclusive, SingleSender, InFlight, SoleWorker
  <1>10. ASSUME NEW w \in Worker, RecordSent(w) PROVE Recorded'
    BY <1>10, ConstantsAssumption DEF RecordSent, Skip, IInv, TypeOK, WorkerInv, Recorded, Exclusive, SingleSender, InFlight, SoleWorker
  <1>11. ASSUME NEW w \in Worker, RecordFailed(w) PROVE Recorded'
    <2>1. /\ pc[w] = "errored" /\ cur[w] \in Entry
          /\ hist' = [hist EXCEPT ![cur[w]] = "failed"]
          /\ pc' = [pc EXCEPT ![w] = "disposing"]
          /\ cur' = cur /\ status' = status /\ stopping' = stopping /\ delivered' = delivered /\ faults' = faults
      BY <1>11 DEF RecordFailed, IInv, WorkerInv
    <2>2. /\ status[cur[w]] = "processing"
          /\ \A v \in Worker : pc[v] = "sent" => cur[v] # cur[w]
      BY <2>1 DEF Exclusive, SingleSender, InFlight
    <2>3. ASSUME faults = 0 PROVE ~(delivered[cur[w]] > 0)
      <3> SUFFICES ASSUME delivered[cur[w]] > 0 PROVE FALSE
        OBVIOUS
      <3>1. PICK v \in Worker : pc[v] \in {"sent", "marked"} /\ cur[v] = cur[w]
        BY <2>1, <2>2, <2>3 DEF Recorded
      <3>2. pc[v] = "marked" => status[cur[v]] = "gone"
        BY <2>3 DEF Recorded
      <3> QED BY <2>2, <3>1, <3>2
    <2>4. \A e \in Entry : hist'[e] = "sent" => delivered[e] > 0
      BY <2>1 DEF Recorded, IInv, TypeOK
    <2>5. ASSUME faults = 0, NEW x \in Entry, delivered[x] > 0
          PROVE  \/ status[x] = "gone" /\ hist'[x] = "sent"
                 \/ \E v \in Worker : pc'[v] \in {"sent", "marked"} /\ cur[v] = x
      <3>1. x # cur[w] /\ hist'[x] = hist[x]
        BY <2>1, <2>3, <2>5 DEF IInv, TypeOK
      <3>2. \A v \in Worker : pc[v] \in {"sent", "marked"} => pc'[v] = pc[v]
        BY <2>1 DEF IInv, TypeOK
      <3> QED BY <2>5, <3>1, <3>2 DEF Recorded
    <2>6. faults = 0 => \A v \in Worker : ~stopping[v] /\ (pc'[v] = "marked" => status[cur[v]] = "gone")
      BY <2>1 DEF Recorded, IInv, TypeOK
    <2> QED BY <2>1, <2>4, <2>5, <2>6 DEF Recorded
  <1>12. ASSUME NEW w \in Worker, Dispose(w) PROVE Recorded'
    BY <1>12, ConstantsAssumption DEF Dispose, DeleteRow, FailRow, Live, Skip, IInv, TypeOK, WorkerInv, Recorded, Exclusive, SingleSender, InFlight, SoleWorker
  <1>13. ASSUME NEW w \in Worker, CallFails(w) PROVE Recorded'
    BY <1>13, ConstantsAssumption DEF CallFails, Skip, IInv, TypeOK, WorkerInv, Recorded, Exclusive, SingleSender, InFlight, SoleWorker
  <1>14. ASSUME NEW w \in Worker, Start(w) PROVE Recorded'
    BY <1>14, ConstantsAssumption DEF Start, IInv, TypeOK, WorkerInv, Recorded, Exclusive, SingleSender, InFlight, SoleWorker
  <1>15. ASSUME NEW w \in Worker, Stop(w) PROVE Recorded'
    BY <1>15, ConstantsAssumption DEF Stop, IInv, TypeOK, WorkerInv, Recorded, Exclusive, SingleSender, InFlight, SoleWorker
  <1>16. ASSUME NEW w \in Worker, Crash(w) PROVE Recorded'
    BY <1>16, ConstantsAssumption DEF Crash, Halted, IInv, TypeOK, WorkerInv, Recorded, Exclusive, SingleSender, InFlight, SoleWorker
  <1>17. ASSUME NEW w \in Worker, AnswerLost(w) PROVE Recorded'
    BY <1>17, ConstantsAssumption DEF AnswerLost, IInv, TypeOK, WorkerInv, Recorded, Exclusive, SingleSender, InFlight, SoleWorker
  <1>18. ASSUME NEW w \in Worker, CooldownEnds(w) PROVE Recorded'
    BY <1>18, ConstantsAssumption DEF CooldownEnds, IInv, TypeOK, WorkerInv, Recorded, Exclusive, SingleSender, InFlight, SoleWorker
  <1>19. ASSUME NEW s \in Source, NEW S \in SUBSET Entry, Enqueue(s, S) PROVE Recorded'
    BY <1>19, ConstantsAssumption DEF Enqueue, IInv, TypeOK, WorkerInv, Recorded, Exclusive, SingleSender, InFlight, SoleWorker
  <1>20. ASSUME NEW s \in Source, PauseBySource(s) PROVE Recorded'
    BY <1>20, ConstantsAssumption DEF PauseBySource, OutOfReach, Of, IInv, TypeOK, WorkerInv, Recorded, Exclusive, SingleSender, InFlight, SoleWorker
  <1>21. ASSUME NEW s \in Source, ResumeBySource(s) PROVE Recorded'
    BY <1>21, ConstantsAssumption DEF ResumeBySource, Of, IInv, TypeOK, WorkerInv, Recorded, Exclusive, SingleSender, InFlight, SoleWorker
  <1>22. ASSUME NEW s \in Source, DeleteBySource(s) PROVE Recorded'
    BY <1>22, ConstantsAssumption DEF DeleteBySource, OutOfReach, Of, IInv, TypeOK, WorkerInv, Recorded, Exclusive, SingleSender, InFlight, SoleWorker
  <1>23. ASSUME NEW e \in Entry, RetryComesDue(e) PROVE Recorded'
    BY <1>23, ConstantsAssumption DEF RetryComesDue, IInv, TypeOK, WorkerInv, Recorded, Exclusive, SingleSender, InFlight, SoleWorker
  <1>24. ASSUME NEW e \in Entry, ClaimGoesStale(e) PROVE Recorded'
    BY <1>24, ConstantsAssumption DEF ClaimGoesStale, IInv, TypeOK, WorkerInv, Recorded, Exclusive, SingleSender, InFlight, SoleWorker
  <1> QED
    BY <1>1, <1>2, <1>3, <1>4, <1>5, <1>6, <1>7, <1>8, <1>9, <1>10, <1>11, <1>12, <1>13, <1>14,
       <1>15, <1>16, <1>17, <1>18, <1>19, <1>20, <1>21, <1>22, <1>23, <1>24
       DEF Next, WorkerStep, Fault, UserStep, TimePasses

\* The one worker's snapshot follows the attempts column.
LEMMA SnapshotStep ==
  ASSUME IInv, SoleWorker, SnapshotsCurrent, NoStrandedRow, Next
  PROVE  (SnapshotsCurrent /\ NoStrandedRow)'
  <1> USE DEF vars, queueVars, workerVars, breakerVars, sourceVars
  <1>1. ASSUME NEW w \in Worker, NEW S \in SUBSET Entry, FetchPending(w, S) PROVE (SnapshotsCurrent /\ NoStrandedRow)'
    BY <1>1, ConstantsAssumption DEF FetchPending, IInv, TypeOK, WorkerInv, SnapshotsCurrent, NoStrandedRow, SoleWorker, IsPermanent
  <1>2. ASSUME NEW w \in Worker, NEW e \in Entry, Defer(w, e) PROVE (SnapshotsCurrent /\ NoStrandedRow)'
    BY <1>2, ConstantsAssumption DEF Defer, DeferRow, Live, Skip, BreakerOpen, IInv, TypeOK, WorkerInv, SnapshotsCurrent, NoStrandedRow, SoleWorker, IsPermanent
  <1>3. ASSUME NEW w \in Worker, NEW e \in Entry, Claim(w, e) PROVE (SnapshotsCurrent /\ NoStrandedRow)'
    BY <1>3, ConstantsAssumption DEF Claim, Claimable, MarkAsProcessing, Skip, IInv, TypeOK, WorkerInv, SnapshotsCurrent, NoStrandedRow, SoleWorker, IsPermanent
  <1>4. ASSUME NEW w \in Worker, NEW e \in Entry, ClaimOrphan(w, e) PROVE (SnapshotsCurrent /\ NoStrandedRow)'
    <2>1. CASE Claimable(e) /\ MarkAsProcessing(w, e, "errored")
      BY <2>1, <1>4 DEF ClaimOrphan, Claimable, MarkAsProcessing,
         IInv, TypeOK, SnapshotsCurrent, NoStrandedRow, SoleWorker
    <2>2. CASE ~Claimable(e) /\ Skip(w, e) /\ UNCHANGED <<queueVars, snap>>
      BY <2>2, <1>4 DEF ClaimOrphan, Skip, IInv, TypeOK, SnapshotsCurrent, NoStrandedRow, SoleWorker
    <2> QED BY <2>1, <2>2, <1>4 DEF ClaimOrphan
  <1>5. ASSUME NEW w \in Worker, NEW c \in SendError, SendFails(w, c) PROVE (SnapshotsCurrent /\ NoStrandedRow)'
    BY <1>5, ConstantsAssumption DEF SendFails, IInv, TypeOK, WorkerInv, SnapshotsCurrent, NoStrandedRow, SoleWorker, IsPermanent
  <1>6. ASSUME NEW w \in Worker, LoopExits(w) PROVE (SnapshotsCurrent /\ NoStrandedRow)'
    BY <1>6, ConstantsAssumption DEF LoopExits, Halted, IInv, TypeOK, WorkerInv, SnapshotsCurrent, NoStrandedRow, SoleWorker, IsPermanent
  <1>7. ASSUME NEW w \in Worker, WaitCancelled(w) PROVE (SnapshotsCurrent /\ NoStrandedRow)'
    BY <1>7, ConstantsAssumption DEF WaitCancelled, Skip, IInv, TypeOK, WorkerInv, SnapshotsCurrent, NoStrandedRow, SoleWorker, IsPermanent
  <1>8. ASSUME NEW w \in Worker, SendSucceeds(w) PROVE (SnapshotsCurrent /\ NoStrandedRow)'
    BY <1>8, ConstantsAssumption DEF SendSucceeds, IInv, TypeOK, WorkerInv, SnapshotsCurrent, NoStrandedRow, SoleWorker, IsPermanent
  <1>9. ASSUME NEW w \in Worker, MarkAsSent(w) PROVE (SnapshotsCurrent /\ NoStrandedRow)'
    BY <1>9, ConstantsAssumption DEF MarkAsSent, DeleteRow, IInv, TypeOK, WorkerInv, SnapshotsCurrent, NoStrandedRow, SoleWorker, IsPermanent
  <1>10. ASSUME NEW w \in Worker, RecordSent(w) PROVE (SnapshotsCurrent /\ NoStrandedRow)'
    BY <1>10, ConstantsAssumption DEF RecordSent, Skip, IInv, TypeOK, WorkerInv, SnapshotsCurrent, NoStrandedRow, SoleWorker, IsPermanent
  <1>11. ASSUME NEW w \in Worker, RecordFailed(w) PROVE (SnapshotsCurrent /\ NoStrandedRow)'
    BY <1>11, ConstantsAssumption DEF RecordFailed, IInv, TypeOK, WorkerInv, SnapshotsCurrent, NoStrandedRow, SoleWorker, IsPermanent
  <1>12. ASSUME NEW w \in Worker, Dispose(w) PROVE (SnapshotsCurrent /\ NoStrandedRow)'
    BY <1>12, ConstantsAssumption DEF Dispose, DeleteRow, FailRow, Live, Skip, IInv, TypeOK, WorkerInv, SnapshotsCurrent, NoStrandedRow, SoleWorker, IsPermanent
  <1>13. ASSUME NEW w \in Worker, CallFails(w) PROVE (SnapshotsCurrent /\ NoStrandedRow)'
    BY <1>13, ConstantsAssumption DEF CallFails, Skip, IInv, TypeOK, WorkerInv, SnapshotsCurrent, NoStrandedRow, SoleWorker, IsPermanent
  <1>14. ASSUME NEW w \in Worker, Start(w) PROVE (SnapshotsCurrent /\ NoStrandedRow)'
    BY <1>14, ConstantsAssumption DEF Start, IInv, TypeOK, WorkerInv, SnapshotsCurrent, NoStrandedRow, SoleWorker, IsPermanent
  <1>15. ASSUME NEW w \in Worker, Stop(w) PROVE (SnapshotsCurrent /\ NoStrandedRow)'
    BY <1>15, ConstantsAssumption DEF Stop, IInv, TypeOK, WorkerInv, SnapshotsCurrent, NoStrandedRow, SoleWorker, IsPermanent
  <1>16. ASSUME NEW w \in Worker, Crash(w) PROVE (SnapshotsCurrent /\ NoStrandedRow)'
    BY <1>16, ConstantsAssumption DEF Crash, Halted, IInv, TypeOK, WorkerInv, SnapshotsCurrent, NoStrandedRow, SoleWorker, IsPermanent
  <1>17. ASSUME NEW w \in Worker, AnswerLost(w) PROVE (SnapshotsCurrent /\ NoStrandedRow)'
    BY <1>17, ConstantsAssumption DEF AnswerLost, IInv, TypeOK, WorkerInv, SnapshotsCurrent, NoStrandedRow, SoleWorker, IsPermanent
  <1>18. ASSUME NEW w \in Worker, CooldownEnds(w) PROVE (SnapshotsCurrent /\ NoStrandedRow)'
    BY <1>18, ConstantsAssumption DEF CooldownEnds, IInv, TypeOK, WorkerInv, SnapshotsCurrent, NoStrandedRow, SoleWorker, IsPermanent
  <1>19. ASSUME NEW s \in Source, NEW S \in SUBSET Entry, Enqueue(s, S) PROVE (SnapshotsCurrent /\ NoStrandedRow)'
    BY <1>19, ConstantsAssumption DEF Enqueue, IInv, TypeOK, WorkerInv, SnapshotsCurrent, NoStrandedRow, SoleWorker, IsPermanent
  <1>20. ASSUME NEW s \in Source, PauseBySource(s) PROVE (SnapshotsCurrent /\ NoStrandedRow)'
    BY <1>20, ConstantsAssumption DEF PauseBySource, OutOfReach, Of, IInv, TypeOK, WorkerInv, SnapshotsCurrent, NoStrandedRow, SoleWorker, IsPermanent
  <1>21. ASSUME NEW s \in Source, ResumeBySource(s) PROVE (SnapshotsCurrent /\ NoStrandedRow)'
    BY <1>21, ConstantsAssumption DEF ResumeBySource, Of, IInv, TypeOK, WorkerInv, SnapshotsCurrent, NoStrandedRow, SoleWorker, IsPermanent
  <1>22. ASSUME NEW s \in Source, DeleteBySource(s) PROVE (SnapshotsCurrent /\ NoStrandedRow)'
    BY <1>22, ConstantsAssumption DEF DeleteBySource, OutOfReach, Of, IInv, TypeOK, WorkerInv, SnapshotsCurrent, NoStrandedRow, SoleWorker, IsPermanent
  <1>23. ASSUME NEW e \in Entry, RetryComesDue(e) PROVE (SnapshotsCurrent /\ NoStrandedRow)'
    BY <1>23, ConstantsAssumption DEF RetryComesDue, IInv, TypeOK, WorkerInv, SnapshotsCurrent, NoStrandedRow, SoleWorker, IsPermanent
  <1>24. ASSUME NEW e \in Entry, ClaimGoesStale(e) PROVE (SnapshotsCurrent /\ NoStrandedRow)'
    BY <1>24, ConstantsAssumption DEF ClaimGoesStale, IInv, TypeOK, WorkerInv, SnapshotsCurrent, NoStrandedRow, SoleWorker, IsPermanent
  <1> QED
    BY <1>1, <1>2, <1>3, <1>4, <1>5, <1>6, <1>7, <1>8, <1>9, <1>10, <1>11, <1>12, <1>13, <1>14,
       <1>15, <1>16, <1>17, <1>18, <1>19, <1>20, <1>21, <1>22, <1>23, <1>24
       DEF Next, WorkerStep, Fault, UserStep, TimePasses

\* An initial state has nothing in hand, nothing halted and nothing sent.
LEMMA InitInHand ==
  Init => /\ Exclusive /\ CancelledRows /\ HaltedRows /\ Recorded
          /\ \A e \in Entry : Account(e)
          /\ SnapshotsCurrent /\ NoStrandedRow
  <1> SUFFICES ASSUME Init
               PROVE  /\ Exclusive /\ CancelledRows /\ HaltedRows /\ Recorded
                      /\ \A e \in Entry : Account(e)
                      /\ SnapshotsCurrent /\ NoStrandedRow
    OBVIOUS
  <1>1. Exclusive
    BY DEF Init, Exclusive, SingleSender, InFlight
  <1>2. CancelledRows /\ HaltedRows
    BY ConstantsAssumption DEF Init, CancelledRows, HaltedRows
  <1>3. Recorded
    BY DEF Init, Recorded
  <1>4. \A e \in Entry : Account(e)
    BY DEF Init, Account
  <1>5. SnapshotsCurrent /\ NoStrandedRow
    BY DEF Init, SnapshotsCurrent, NoStrandedRow
  <1> QED BY <1>1, <1>2, <1>3, <1>4, <1>5

\* A stuttering step changes none of it.
LEMMA StutterInHand ==
  ASSUME UNCHANGED vars
  PROVE  /\ Exclusive => Exclusive'
         /\ CancelledRows => CancelledRows'
         /\ HaltedRows => HaltedRows'
         /\ Recorded => Recorded'
         /\ (\A e \in Entry : Account(e)) => \A x \in Entry : Account(x)'
         /\ SnapshotsCurrent /\ NoStrandedRow => (SnapshotsCurrent /\ NoStrandedRow)'
  <1> USE DEF vars, queueVars, workerVars, breakerVars, sourceVars
  <1>1. Exclusive => Exclusive'
    BY DEF Exclusive, SingleSender, InFlight, SoleWorker
  <1>2. (CancelledRows => CancelledRows') /\ (HaltedRows => HaltedRows')
    BY DEF CancelledRows, HaltedRows
  <1>3. Recorded => Recorded'
    BY DEF Recorded
  <1>4. (\A e \in Entry : Account(e)) => \A x \in Entry : Account(x)'
    BY DEF Account
  <1>5. SnapshotsCurrent /\ NoStrandedRow => (SnapshotsCurrent /\ NoStrandedRow)'
    BY DEF SnapshotsCurrent, NoStrandedRow
  <1> QED BY <1>1, <1>2, <1>3, <1>4, <1>5

\* Undisturbed, a row in hand is in one worker's hands only.
THEOREM HandsAreExclusive == Spec /\ []Undisturbed => []Exclusive
  <1>1. IInv /\ Undisturbed /\ Exclusive /\ [Next]_vars => Exclusive'
    BY ExclusiveStep, StutterInHand
  <1>2. Init => Exclusive
    BY InitInHand
  <1> QED
    BY <1>1, <1>2, Invariance, PTL DEF Spec

\* No two workers handle the same row (MarkAsProcessing), for any number of
\* instances, as long as no send outlives the reclaim window and no breaker
\* opens.
THEOREM OneHandlerPerRow == Spec /\ []Undisturbed => []SingleSender
  <1>1. Exclusive => SingleSender
    BY DEF Exclusive
  <1> QED
    BY <1>1, HandsAreExclusive, PTL

\* A recipient gets k + 1 copies only after k faults (SendEmail, MarkAsSent).
THEOREM CopiesNeedFaults == Spec /\ []Undisturbed => []DuplicatesNeedFaults
  <1> DEFINE Paid == \A e \in Entry : Account(e)
  <1>1. Init => Paid
    BY InitInHand
  <1>2. IInv /\ Exclusive /\ Paid /\ [Next]_vars => Paid'
    BY AccountStep, StutterInHand
  <1>3. IInv /\ Paid => DuplicatesNeedFaults
    BY DEF IInv, TypeOK, Account, DuplicatesNeedFaults
  <1> HIDE DEF Paid
  <1> QED
    BY <1>1, <1>2, <1>3, Invariance, HandsAreExclusive, PTL DEF Spec

\* While nothing fails, message_history says "sent" of exactly the rows the
\* provider accepted (upsertMessageHistory).
THEOREM HistoryIsTrue == Spec /\ []Undisturbed => []HistoryMatchesOutcome
  <1>1. Init => Recorded
    BY InitInHand
  <1>2. IInv /\ Exclusive /\ Recorded /\ [Next]_vars => Recorded'
    BY RecordedStep, StutterInHand
  <1>3. Recorded => HistoryMatchesOutcome
    BY DEF Recorded, HistoryMatchesOutcome
  <1> QED
    BY <1>1, <1>2, <1>3, Invariance, HandsAreExclusive, PTL DEF Spec

\* A row waiting for its retry has an attempt left when one worker judges it
\* (handleError): its snapshot plus one is the attempts column.
THEOREM RetryIsPossible ==
  ASSUME SoleWorker
  PROVE  Spec => []NoStrandedRow
  <1> DEFINE Inv == SnapshotsCurrent /\ NoStrandedRow
  <1>1. Init => Inv
    BY InitInHand
  <1>2. IInv /\ Inv /\ [Next]_vars => Inv'
    BY SoleWorker, SnapshotStep, StutterInHand
  <1>3. Inv => NoStrandedRow
    OBVIOUS
  <1> HIDE DEF Inv
  <1> QED
    BY <1>1, <1>2, <1>3, Invariance, PTL DEF Spec

\* Only SendEmail's two outcomes hand an email to the provider, and only for
\* the row in hand.
LEMMA DeliveryIsInHand ==
  ASSUME IInv, [Next]_vars, NEW e \in Entry, delivered'[e] > delivered[e]
  PROVE  \E w \in Worker : InFlight(w, e)
  <1>1. PICK w \in Worker : SendSucceeds(w) \/ AnswerLost(w)
    <2>1. delivered' # delivered
      BY DEF IInv, TypeOK
    <2> QED
      BY <2>1 DEF vars, Next, WorkerStep, Fault, UserStep, TimePasses, Start, Stop, Crash,
         LoopExits, FetchPending, Defer, Claim, ClaimOrphan, WaitCancelled, SendFails, MarkAsSent,
         RecordSent, RecordFailed, Dispose, CallFails, Enqueue, PauseBySource, ResumeBySource,
         DeleteBySource, RetryComesDue, ClaimGoesStale, CooldownEnds
  <1>2. pc[w] = "claimed" /\ delivered' = [delivered EXCEPT ![cur[w]] = @ + 1]
    BY <1>1 DEF SendSucceeds, AnswerLost
  <1>3. cur[w] = e
    BY <1>2 DEF IInv, TypeOK
  <1> QED
    BY <1>2, <1>3 DEF InFlight

\* After a cancellation (DeleteBySource) the provider gets only emails whose
\* row the statement could not reach.
THEOREM CancellationHolds == Spec /\ []Undisturbed => CancelStopsDelivery
  <1>1. Init => CancelledRows
    BY InitInHand
  <1>2. IInv /\ CancelledRows /\ [Next]_vars => CancelledRows'
    BY CancelledStep, StutterInHand
  <1>3. IInv /\ Exclusive /\ CancelledRows /\ [Next]_vars =>
          [\A e \in Entry :
             delivered'[e] > delivered[e] /\ src[SourceOf[e]] = "cancelled"
               => e \in tail[SourceOf[e]]]_vars
    BY DeliveryIsInHand DEF Exclusive, CancelledRows
  <1> QED
    BY <1>1, <1>2, <1>3, Invariance, HandsAreExclusive, PTL DEF Spec, CancelStopsDelivery

\* The same for a pause (PauseBySource), which an open breaker may undo.
THEOREM PauseHolds == Spec /\ []Undisturbed /\ []BreakersClosed => HaltStopsDelivery
  <1>1. Init => HaltedRows
    BY InitInHand
  <1>2. IInv /\ Exclusive /\ BreakersClosed /\ HaltedRows /\ [Next]_vars => HaltedRows'
    BY HaltedStep, StutterInHand
  <1>3. IInv /\ Exclusive /\ HaltedRows /\ [Next]_vars =>
          [\A e \in Entry :
             delivered'[e] > delivered[e] /\ src[SourceOf[e]] # "live"
               => e \in tail[SourceOf[e]]]_vars
    BY DeliveryIsInHand DEF Exclusive, HaltedRows
  <1> QED
    BY <1>1, <1>2, <1>3, Invariance, HandsAreExclusive, PTL DEF Spec, HaltStopsDelivery

===============================================================================
