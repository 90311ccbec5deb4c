------------------------ MODULE WebhookDeliveryProofs ------------------------
(***************************************************************************)
(* WebhookDelivery for any number of workers: although a worker counts     *)
(* from the row it read, and overwrites what others wrote meanwhile, no    *)
(* delivery is given up before max_attempts attempts came to their end.    *)
(* A worker also trusts a subscription it looked up earlier in the batch:  *)
(* what it posts to was enabled when the batch was read.                   *)
(*                                                                         *)
(* With a worker to itself the table keeps an order that several lack:     *)
(* the row in hand is undelivered and has not come due again, so it is     *)
(* posted twice only where a fault lost the first answer, and a delivered  *)
(* row is final.                                                           *)
(***************************************************************************)
EXTENDS WebhookDelivery, SequenceTheorems, FiniteSetTheorems, TLAPS

\* What the argument needs of the types; a worker that is not idle has a row
\* in hand.
TableTypes ==
  /\ row \in [Delivery -> Row]
  /\ tried \in [Delivery -> Nat]
  /\ pc \in [Worker -> {"idle", "batch", "ok", "error"}]
  /\ batch \in [Worker -> Seq(Snapshot)]
  /\ \A w \in Worker : pc[w] # "idle" => batch[w] # <<>>

\* Neither a row nor a copy of it counts more attempts than came to an end:
\* that number never falls, so a stale copy stays below it.
CountsAreTrue ==
  /\ \A d \in Delivery : row[d].attempts <= tried[d]
  /\ \A w \in Worker : \A i \in 1 .. Len(batch[w]) : batch[w][i].attempts <= tried[batch[w][i].id]

IInv == TableTypes /\ CountsAreTrue

LEMMA InitIInv == Init => IInv
  <1> SUFFICES ASSUME Init PROVE IInv
    OBVIOUS
  <1>1. row \in [Delivery -> Row] /\ tried \in [Delivery -> Nat]
    BY DEF Init, Row
  <1>2. \A w \in Worker : batch[w] = <<>> /\ pc[w] = "idle"
    BY DEF Init
  <1>3. batch \in [Worker -> Seq(Snapshot)] /\ pc \in [Worker -> {"idle", "batch", "ok", "error"}]
    BY DEF Init
  <1>4. \A d \in Delivery : row[d].attempts <= tried[d]
    BY DEF Init
  <1> QED
    BY <1>1, <1>2, <1>3, <1>4 DEF IInv, TableTypes, CountsAreTrue

\* Steps that leave the rows, the counts and the workers' batches alone.
LEMMA Untouched ==
  ASSUME IInv, UNCHANGED <<row, tried, pc, batch>>
  PROVE  IInv'
  BY DEF IInv, TableTypes, CountsAreTrue

\* Rows that are inserted or deleted count from zero.
LEMMA RowsFromZero ==
  ASSUME IInv, UNCHANGED <<tried, pc, batch>>, NEW S \in SUBSET Delivery,
         NEW s \in {"pending", "gone"},
         row' = [d \in Delivery |-> IF d \in S THEN [status |-> s, attempts |-> 0] ELSE row[d]]
  PROVE  IInv'
  <1>1. [status |-> s, attempts |-> 0] \in Row
    BY DEF Row
  <1>2. row' \in [Delivery -> Row]
    BY <1>1 DEF IInv, TableTypes
  <1>3. \A d \in Delivery : row'[d].attempts <= tried'[d]
    BY DEF IInv, TableTypes, CountsAreTrue
  <1> QED
    BY <1>2, <1>3 DEF IInv, TableTypes, CountsAreTrue

\* A copy of a row is true when it is made.
LEMMA TickPreserves ==
  ASSUME IInv, NEW w \in Worker, Tick(w)
  PROVE  IInv'
  <1>0. PICK n \in 1 .. BatchSize :
          \E q \in [1 .. n -> Pending] :
            batch' = [batch EXCEPT ![w] = [i \in 1 .. n |-> [id |-> q[i], attempts |-> row[q[i]].attempts]]]
    BY DEF Tick
  <1>1. PICK q \in [1 .. n -> Pending] :
          batch' = [batch EXCEPT ![w] = [i \in 1 .. n |-> [id |-> q[i], attempts |-> row[q[i]].attempts]]]
    BY <1>0
  <1> DEFINE B == [i \in 1 .. n |-> [id |-> q[i], attempts |-> row[q[i]].attempts]]
  <1>2. n \in Nat \ {0}
    BY WebhookAssumption
  <1>3. ASSUME NEW i \in 1 .. n
        PROVE  B[i] \in Snapshot /\ B[i].attempts <= tried[B[i].id]
    <2>1. q[i] \in Delivery
      BY DEF Pending
    <2>2. row[q[i]].attempts \in Nat /\ row[q[i]].attempts <= tried[q[i]]
      BY <2>1 DEF IInv, TableTypes, CountsAreTrue, Row
    <2>3. B[i] = [id |-> q[i], attempts |-> row[q[i]].attempts]
      OBVIOUS
    <2> QED
      BY <2>1, <2>2, <2>3 DEF Snapshot
  <1>4. B \in Seq(Snapshot) /\ Len(B) = n /\ B # <<>>
    BY <1>2, <1>3
  <1> HIDE DEF B
  <1>5. batch' \in [Worker -> Seq(Snapshot)] /\ batch'[w] = B /\ \A o \in Worker \ {w} : batch'[o] = batch[o]
    BY <1>1, <1>4 DEF IInv, TableTypes, B
  <1>6. /\ pc' \in [Worker -> {"idle", "batch", "ok", "error"}]
        /\ \A o \in Worker \ {w} : pc'[o] = pc[o]
        /\ UNCHANGED <<row, tried>>
    BY DEF Tick, tableVars, countVars, IInv, TableTypes
  <1> QED
    BY <1>3, <1>4, <1>5, <1>6 DEF IInv, TableTypes, CountsAreTrue

\* The row in hand, and what is left of the batch after it.
LEMMA BatchInHand ==
  ASSUME IInv, NEW w \in Worker, pc[w] # "idle"
  PROVE  /\ InHand(w) \in Snapshot
         /\ InHand(w).id \in Delivery /\ InHand(w).attempts \in Nat
         /\ InHand(w).attempts <= tried[InHand(w).id]
         /\ Tail(batch[w]) \in Seq(Snapshot)
         /\ Len(batch[w]) # 1 => Tail(batch[w]) # <<>>
         /\ \A i \in 1 .. Len(Tail(batch[w])) : Tail(batch[w])[i] = batch[w][i + 1] /\ i + 1 \in 1 .. Len(batch[w])
  <1>1. batch[w] \in Seq(Snapshot) /\ batch[w] # <<>>
    BY DEF IInv, TableTypes
  <1>2. InHand(w) = batch[w][1] /\ 1 \in 1 .. Len(batch[w]) /\ batch[w][1] \in Snapshot
    BY <1>1 DEF InHand
  <1>3. InHand(w).id \in Delivery /\ InHand(w).attempts \in Nat
    BY <1>2 DEF Snapshot
  <1>4. InHand(w).attempts <= tried[InHand(w).id]
    BY <1>2 DEF IInv, CountsAreTrue
  <1>5. /\ Tail(batch[w]) \in Seq(Snapshot)
        /\ Len(Tail(batch[w])) = Len(batch[w]) - 1
        /\ \A i \in 1 .. Len(Tail(batch[w])) : Tail(batch[w])[i] = batch[w][i + 1]
    BY <1>1, HeadTailProperties
  <1>6. Len(batch[w]) \in Nat /\ Len(batch[w]) # 0
    BY <1>1
  <1>7. Len(batch[w]) # 1 => Tail(batch[w]) # <<>>
    <2>1. Len(batch[w]) # 1 => Len(Tail(batch[w])) # 0
      BY <1>5, <1>6
    <2> QED
      BY <2>1
  <1>8. \A i \in 1 .. Len(Tail(batch[w])) : i + 1 \in 1 .. Len(batch[w])
    BY <1>5, <1>6
  <1> QED
    BY <1>2, <1>3, <1>4, <1>5, <1>7, <1>8

\* A worker moves on to the next row; counts only grow.
LEMMA NextRowPreserves ==
  ASSUME IInv, NEW w \in Worker, pc[w] # "idle", NextRow(w),
         row' \in [Delivery -> Row], tried' \in [Delivery -> Nat],
         \A d \in Delivery : tried[d] <= tried'[d] /\ row'[d].attempts <= tried'[d]
  PROVE  IInv'
  <1>1. batch' = [batch EXCEPT ![w] = Tail(batch[w])]
    BY DEF NextRow, IInv, TableTypes
  <1>2. batch' \in [Worker -> Seq(Snapshot)] /\ pc' \in [Worker -> {"idle", "batch", "ok", "error"}]
    BY <1>1, BatchInHand DEF NextRow, IInv, TableTypes
  <1>3. ASSUME NEW o \in Worker PROVE pc'[o] # "idle" => batch'[o] # <<>>
    BY <1>1, BatchInHand DEF NextRow, IInv, TableTypes
  <1>4. ASSUME NEW o \in Worker, NEW i \in 1 .. Len(batch'[o])
        PROVE  batch'[o][i].attempts <= tried'[batch'[o][i].id]
    <2>1. PICK j \in 1 .. Len(batch[o]) : batch'[o][i] = batch[o][j]
      BY <1>1, BatchInHand DEF IInv, TableTypes
    <2>2. batch[o][j] \in Snapshot
      BY DEF IInv, TableTypes
    <2>3. batch[o][j].id \in Delivery /\ batch[o][j].attempts \in Nat
      BY <2>2 DEF Snapshot
    <2>4. batch[o][j].attempts <= tried[batch[o][j].id]
      BY DEF IInv, CountsAreTrue
    <2>5. tried[batch[o][j].id] \in Nat /\ tried'[batch[o][j].id] \in Nat
      BY <2>3 DEF IInv, TableTypes
    <2> QED
      BY <2>1, <2>3, <2>4, <2>5
  <1> QED
    BY <1>2, <1>3, <1>4 DEF IInv, TableTypes, CountsAreTrue

\* An attempt ends: its count is one more than that of a true copy, or of the
\* row itself.
LEMMA EndPreserves ==
  ASSUME IInv, NEW w \in Worker, HandleDeliverySuccess(w) \/ HandleDeliveryFailure(w)
  PROVE  IInv'
  <1> DEFINE d == InHand(w).id
  <1>1. pc[w] # "idle" /\ NextRow(w)
    BY DEF HandleDeliverySuccess, HandleDeliveryFailure, Ended
  <1>2. d \in Delivery /\ InHand(w).attempts \in Nat /\ InHand(w).attempts <= tried[d]
    BY <1>1, BatchInHand
  <1>3. tried' = [tried EXCEPT ![d] = tried[d] + 1]
    BY DEF HandleDeliverySuccess, HandleDeliveryFailure, Ended
  <1>4. row[d] \in Row /\ row[d].attempts \in Nat /\ tried[d] \in Nat /\ row[d].attempts <= tried[d]
    BY <1>2 DEF IInv, TableTypes, CountsAreTrue, Row
  <1>5. PICK r \in Row : row' = [row EXCEPT ![d] = r] /\ r.attempts <= tried[d] + 1
    <2>1. CASE row' = row
      BY <2>1, <1>2, <1>4 DEF IInv, TableTypes
    <2>2. CASE HandleDeliverySuccess(w) /\ row' # row
      <3> DEFINE r == [status |-> "delivered", attempts |-> row[d].attempts + 1]
      <3>1. r \in Row /\ r.attempts <= tried[d] + 1
        BY <1>4 DEF Row
      <3>2. Update(d, r)
        BY <2>2 DEF HandleDeliverySuccess
      <3>3. row' = [row EXCEPT ![d] = IF row[d].status = "gone" THEN row[d] ELSE r]
        BY <3>2, <1>2 DEF Update, IInv, TableTypes
      <3> HIDE DEF r
      <3>4. CASE row[d].status = "gone"
        <4>1. row' = [row EXCEPT ![d] = row[d]] /\ row[d].attempts <= tried[d] + 1
          BY <3>3, <3>4, <1>4
        <4> QED
          BY <4>1, <1>4
      <3>5. CASE row[d].status # "gone"
        BY <3>1, <3>3, <3>5
      <3> QED
        BY <3>4, <3>5
    <2>3. CASE HandleDeliveryFailure(w) /\ row' # row
      <3> DEFINE r == [status |-> "failed", attempts |-> InHand(w).attempts + 1]
      <3>1. r \in Row /\ r.attempts <= tried[d] + 1
        BY <1>2, <1>4 DEF Row
      <3>2. Update(d, r)
        BY <2>3 DEF HandleDeliveryFailure, NextAttempts
      <3>3. row' = [row EXCEPT ![d] = IF row[d].status = "gone" THEN row[d] ELSE r]
        BY <3>2, <1>2 DEF Update, IInv, TableTypes
      <3> HIDE DEF r
      <3>4. CASE row[d].status = "gone"
        <4>1. row' = [row EXCEPT ![d] = row[d]] /\ row[d].attempts <= tried[d] + 1
          BY <3>3, <3>4, <1>4
        <4> QED
          BY <4>1, <1>4
      <3>5. CASE row[d].status # "gone"
        BY <3>1, <3>3, <3>5
      <3> QED
        BY <3>4, <3>5
    <2> QED
      BY <2>1, <2>2, <2>3
  <1>6. row' \in [Delivery -> Row] /\ tried' \in [Delivery -> Nat]
    BY <1>2, <1>3, <1>4, <1>5 DEF IInv, TableTypes
  <1>7. \A c \in Delivery : tried[c] <= tried'[c] /\ row'[c].attempts <= tried'[c]
    BY <1>2, <1>3, <1>4, <1>5 DEF IInv, TableTypes, CountsAreTrue, Row
  <1> QED
    BY <1>1, <1>6, <1>7, NextRowPreserves

\* The other steps of a worker write no row.
LEMMA WorkPreserves ==
  ASSUME IInv, NEW w \in Worker, Work(w) \/ Crash(w)
  PROVE  IInv'
  <1>1. CASE Tick(w)
    BY <1>1, TickPreserves
  <1>2. ASSUME NextRow(w), pc[w] = "batch", UNCHANGED <<row, tried>> PROVE IInv'
    <2>1. \A d \in Delivery : tried[d] <= tried'[d] /\ row'[d].attempts <= tried'[d]
      BY <1>2 DEF IInv, TableTypes, CountsAreTrue
    <2> QED
      BY <1>2, <2>1, NextRowPreserves DEF IInv, TableTypes
  <1>3. CASE Lookup(w)
    BY <1>2, <1>3, Untouched DEF Lookup, tableVars, countVars
  <1>4. CASE Skip(w)
    BY <1>2, <1>4 DEF Skip, tableVars, countVars
  <1>5. CASE Post(w)
    <2>1. /\ pc' \in [Worker -> {"idle", "batch", "ok", "error"}]
          /\ \A o \in Worker : pc'[o] # "idle" => pc[o] # "idle"
          /\ UNCHANGED <<row, tried, batch>>
      BY <1>5 DEF Post, tableVars, IInv, TableTypes
    <2> QED
      BY <2>1 DEF IInv, TableTypes, CountsAreTrue
  <1>6. CASE HandleDeliverySuccess(w) \/ HandleDeliveryFailure(w)
    BY <1>6, EndPreserves
  <1>7. CASE Crash(w)
    BY <1>7 DEF Crash, tableVars, countVars, IInv, TableTypes, CountsAreTrue
  <1> QED
    BY <1>1, <1>3, <1>4, <1>5, <1>6, <1>7 DEF Work

\* Commands on subscriptions and the clock touch no row.
LEMMA CommandsPreserve ==
  ASSUME IInv,
         \/ \E s \in Subscription : Create(s) \/ Delete(s)
         \/ \E u \in User : Command(u)
         \/ \E d \in Delivery : ComesDue(d)
         \/ WeekPasses
  PROVE  IInv'
  <1>1. ASSUME NEW s \in Subscription, Create(s) \/ Delete(s) PROVE IInv'
    BY <1>1, Untouched DEF Create, Delete, tableVars, countVars
  <1>2. ASSUME NEW u \in User, Command(u) PROVE IInv'
    BY <1>2, Untouched DEF Command, Open, Toggle, RegenerateSecret, Save, tableVars, countVars, workerVars
  <1>3. ASSUME NEW d \in Delivery, ComesDue(d) PROVE IInv'
    BY <1>3, Untouched DEF ComesDue, countVars, workerVars
  <1>4. CASE WeekPasses
    BY <1>4, Untouched DEF WeekPasses, countVars, workerVars
  <1> QED
    BY <1>1, <1>2, <1>3, <1>4

\* The counts are true in every behaviour.
THEOREM Invariance == Spec => []IInv
  <1>1. IInv /\ [Next]_vars => IInv'
    <2> SUFFICES ASSUME IInv, [Next]_vars PROVE IInv'
      OBVIOUS
    <2>1. CASE UNCHANGED vars
      BY <2>1, Untouched DEF vars, tableVars, countVars, workerVars
    <2>2. ASSUME NEW e \in Event, NEW M \in SUBSET Subscription, Fire(e, M) PROVE IInv'
      <3>1. {e} \X (M \cap Enabled) \in SUBSET Delivery
        BY DEF Delivery
      <3> QED
        BY <2>2, <3>1, RowsFromZero DEF Fire, workerVars, countVars
    <2>3. ASSUME NEW w \in Worker, CleanupOldDeliveries(w) PROVE IInv'
      <3>1. row' = [d \in Delivery |-> IF d \in old \cap Delivery THEN [status |-> "gone", attempts |-> 0] ELSE row[d]]
        BY <2>3 DEF CleanupOldDeliveries
      <3> QED
        BY <2>3, <3>1, RowsFromZero DEF CleanupOldDeliveries, workerVars, countVars
    <2>4. ASSUME NEW w \in Worker, Work(w) \/ Crash(w) PROVE IInv'
      BY <2>4, WorkPreserves
    <2> QED
      BY <2>1, <2>2, <2>3, <2>4, CommandsPreserve DEF Next
  <1> QED
    BY <1>1, InitIInv, PTL DEF Spec

\* handleDeliveryFailure gives a delivery up only after max_attempts attempts
\* came to their end, for any number of workers and faults.
THEOREM GivenUpAfterAllAttempts == Spec => []GivenUpIsExhausted
  <1>1. IInv => GivenUpIsExhausted
    <2> SUFFICES ASSUME IInv, NEW d \in Delivery, row[d].attempts >= MaxAttempts
                 PROVE  tried[d] >= MaxAttempts
      BY DEF GivenUpIsExhausted
    <2>1. row[d].attempts \in Nat /\ tried[d] \in Nat /\ row[d].attempts <= tried[d]
      BY DEF IInv, TableTypes, CountsAreTrue, Row
    <2> QED
      BY <2>1, WebhookAssumption
  <1> QED
    BY <1>1, Invariance, PTL
-----------------------------------------------------------------------------
(* The type invariant.                                                     *)

\* Finitely many events and subscriptions pair up finitely.
LEMMA DeliveryIsFinite == IsFiniteSet(Delivery)
  BY WebhookAssumption, FS_Product DEF Delivery

\* An arrangement of a finite set is a sequence of its elements, each once.
LEMMA Arrangement ==
  ASSUME NEW S \in SUBSET Delivery, NEW q \in SetToSeqs(S)
  PROVE  /\ q \in Seq(S) /\ q \in Seq(Delivery)
         /\ \A i, j \in DOMAIN q : i # j => q[i] # q[j]
  <1>1. Cardinality(S) \in Nat
    BY DeliveryIsFinite, FS_Subset, FS_CardinalityType
  <1>2. /\ q \in [1 .. Cardinality(S) -> S]
        /\ \A i, j \in 1 .. Cardinality(S) : i # j => q[i] # q[j]
    BY DEF SetToSeqs
  <1> QED
    BY <1>1, <1>2

\* What is left of the due rows is some of them, each once.
LEMMA RestOfDue ==
  ASSUME TypeOK, NEW S, NEW q \in Rest(S)
  PROVE  /\ q \in Seq(Delivery)
         /\ \A i, j \in DOMAIN q : i # j => q[i] # q[j]
         /\ \A i \in DOMAIN q : \E k \in DOMAIN due : due[k] = q[i]
  <1>1. ToSet(due) \ S \in SUBSET Delivery
    BY DEF ToSet, TypeOK
  <1>2. q \in SetToSeqs(ToSet(due) \ S)
    BY DEF Rest
  <1>3. /\ q \in Seq(ToSet(due) \ S) /\ q \in Seq(Delivery)
        /\ \A i, j \in DOMAIN q : i # j => q[i] # q[j]
    BY <1>1, <1>2, Arrangement
  <1>4. \A i \in DOMAIN q : q[i] \in ToSet(due)
    BY <1>3
  <1> QED
    BY <1>3, <1>4 DEF ToSet

\* A changed state or secret leaves a row of webhook_subscriptions.
LEMMA SubRowUpdates ==
  ASSUME NEW r \in SubRow, NEW a \in {"none", "enabled", "disabled", "deleted"}, NEW n \in Nat
  PROVE  /\ [r EXCEPT !.state = a] \in SubRow /\ [r EXCEPT !.state = a].state = a
         /\ [r EXCEPT !.secret = n] \in SubRow /\ [r EXCEPT !.secret = n].state = r.state
  BY DEF SubRow

\* Commands on subscriptions.
LEMMA CommandTypes ==
  ASSUME TypeOK,
         \/ \E s \in Subscription : Create(s) \/ Delete(s)
         \/ \E u \in User : Command(u)
  PROVE  TypeOK'
  <1> USE DEF tableVars, countVars, workerVars, subVars
  <1>0. ASSUME NEW s \in Subscription, NEW r \in SubRow, Put(s, r)
        PROVE  sub' \in [Subscription -> SubRow] /\ open' \in [Worker -> SUBSET Subscription]
    BY <1>0 DEF Put, TypeOK
  <1>1. ASSUME NEW s \in Subscription, Create(s) PROVE TypeOK'
    <2>1. [state |-> "enabled", secret |-> 1] \in SubRow
      BY DEF SubRow
    <2>2. sub' \in [Subscription -> SubRow] /\ open' \in [Worker -> SUBSET Subscription]
      BY <1>0, <1>1, <2>1 DEF Create
    <2> QED BY <1>1, <2>2 DEF Create, TypeOK
  <1>2. ASSUME NEW s \in Subscription, Delete(s) PROVE TypeOK'
    <2>1. [sub[s] EXCEPT !.state = "deleted"] \in SubRow
      <3>1. sub[s] \in SubRow
        BY DEF TypeOK
      <3> QED BY <3>1, SubRowUpdates
    <2>2. sub' \in [Subscription -> SubRow] /\ open' \in [Worker -> SUBSET Subscription]
      BY <1>0, <1>2, <2>1 DEF Delete
    <2> QED BY <1>2, <2>2 DEF Delete, Counted, TypeOK
  <1>3. ASSUME NEW u \in User, NEW s \in Subscription, Open(u, s) PROVE TypeOK'
    BY <1>3 DEF Open, TypeOK
  <1>4. ASSUME NEW u \in User, NEW r \in SubRow, Save(u, r), known' \in [Subscription -> Nat] PROVE TypeOK'
    <2>1. upc[u] \in Subscription
      BY <1>4 DEF Save, TypeOK
    <2>2. sub' \in [Subscription -> SubRow] /\ open' \in [Worker -> SUBSET Subscription]
      BY <1>0, <1>4, <2>1 DEF Save, TypeOK
    <2>3. upc' \in [User -> {"idle"} \cup Subscription] /\ ucopy' \in [User -> SubRow]
      BY <1>4 DEF Save, Return, NoSub, SubRow, TypeOK
    <2> QED BY <1>4, <2>2, <2>3 DEF Save, Counted, TypeOK
  <1>5. ASSUME NEW u \in User, NEW b \in BOOLEAN, Toggle(u, b) PROVE TypeOK'
    <2>1. [ucopy[u] EXCEPT !.state = IF b THEN "enabled" ELSE "disabled"] \in SubRow
      <3>1. ucopy[u] \in SubRow
        BY DEF TypeOK
      <3> QED BY <3>1, SubRowUpdates
    <2> QED BY <1>4, <1>5, <2>1 DEF Toggle, TypeOK
  <1>6. ASSUME NEW u \in User, RegenerateSecret(u) PROVE TypeOK'
    <2>1. [ucopy[u] EXCEPT !.secret = commands + 2] \in SubRow /\ commands + 2 \in Nat
      <3>1. ucopy[u] \in SubRow /\ commands + 2 \in Nat
        BY DEF TypeOK
      <3> QED BY <3>1, SubRowUpdates
    <2>2. known' \in [Subscription -> Nat]
      BY <1>6, <2>1 DEF RegenerateSecret, TypeOK
    <2> QED BY <1>4, <1>6, <2>1, <2>2 DEF RegenerateSecret
  <1> QED
    BY <1>1, <1>2, <1>3, <1>5, <1>6 DEF Command

\* Events, time and the cleanup.
LEMMA TableTypesKept ==
  ASSUME TypeOK, IInv',
         \/ \E e \in Event, M \in SUBSET Subscription : Fire(e, M)
         \/ \E d \in Delivery : ComesDue(d)
         \/ WeekPasses
         \/ \E w \in Worker : CleanupOldDeliveries(w)
  PROVE  TypeOK'
  <1> USE DEF tableVars, countVars, workerVars, subVars
  <1>0. /\ row' \in [Delivery -> Row] /\ tried' \in [Delivery -> Nat]
        /\ pc' \in [Worker -> {"idle", "batch", "ok", "error"}] /\ batch' \in [Worker -> Seq(Snapshot)]
    BY DEF IInv, TableTypes
  <1>1. ASSUME NEW e \in Event, NEW M \in SUBSET Subscription, Fire(e, M) PROVE TypeOK'
    <2>1. {e} \X (M \cap Enabled) \in SUBSET Delivery
      BY DEF Delivery
    <2>2. PICK q \in SetToSeqs({e} \X (M \cap Enabled)) : due' = due \o q
      BY <1>1 DEF Fire
    <2>3. due' \in Seq(Delivery)
      <3>1. due \in Seq(Delivery) /\ q \in Seq(Delivery)
        BY <2>1, Arrangement DEF TypeOK
      <3> QED BY <2>2, <3>1, ConcatProperties
    <2> QED BY <1>0, <1>1, <2>3 DEF Fire, TypeOK
  <1>2. ASSUME NEW d \in Delivery, ComesDue(d) PROVE TypeOK'
    BY <1>2 DEF ComesDue, TypeOK
  <1>3. CASE WeekPasses
    BY <1>3 DEF WeekPasses, Counted, TypeOK
  <1>4. ASSUME NEW w \in Worker, CleanupOldDeliveries(w) PROVE TypeOK'
    <2>1. due' \in Seq(Delivery)
      BY <1>4, RestOfDue DEF CleanupOldDeliveries
    <2> QED BY <1>0, <1>4, <2>1 DEF CleanupOldDeliveries, TypeOK
  <1> QED
    BY <1>1, <1>2, <1>3, <1>4

\* The workers.
LEMMA WorkTypes ==
  ASSUME IInv, TypeOK, IInv', NEW w \in Worker, Work(w) \/ Crash(w)
  PROVE  TypeOK'
  <1> USE DEF tableVars, countVars, workerVars, subVars
  <1>0. /\ row' \in [Delivery -> Row] /\ tried' \in [Delivery -> Nat]
        /\ pc' \in [Worker -> {"idle", "batch", "ok", "error"}] /\ batch' \in [Worker -> Seq(Snapshot)]
    BY DEF IInv, TableTypes
  <1>1. CASE Tick(w)
    BY <1>0, <1>1 DEF Tick, TypeOK, NoSub, SubRow, Enabled
  <1>2. pc[w] # "idle" => InHand(w).id \in Delivery /\ Target(w) \in Subscription
    BY BatchInHand DEF Target, Delivery
  <1>3. CASE Lookup(w)
    <2>1. cache' \in [Worker -> [Subscription -> SubRow]]
      <3>1. CASE cache' = cache
        BY <3>1 DEF TypeOK
      <3>2. CASE cache' = [cache EXCEPT ![w][Target(w)] = sub[Target(w)]]
        <4>1. Target(w) \in Subscription /\ sub[Target(w)] \in SubRow
          BY <1>2, <1>3 DEF Lookup, TypeOK
        <4>2. [cache[w] EXCEPT ![Target(w)] = sub[Target(w)]] \in [Subscription -> SubRow]
          BY <4>1 DEF TypeOK
        <4> QED BY <3>2, <4>2 DEF TypeOK
      <3> QED BY <1>3, <3>1, <3>2 DEF Lookup
    <2>2. faults' \in Nat
      BY <1>3 DEF Lookup, Fault, TypeOK
    <2> QED BY <1>0, <1>3, <2>1, <2>2 DEF Lookup, TypeOK
  <1>4. CASE Skip(w)
    BY <1>0, <1>4 DEF Skip, TypeOK
  <1>5. CASE Post(w)
    <2>1. accepted' \in [Delivery -> Nat]
      <3>1. accepted' = accepted \/ accepted' = [accepted EXCEPT ![InHand(w).id] = @ + 1]
        BY <1>5 DEF Post
      <3>2. accepted \in [Delivery -> Nat] /\ InHand(w).id \in Delivery
        BY <1>2, <1>5 DEF Post, TypeOK
      <3> QED BY <3>1, <3>2
    <2>2. faults' \in Nat
      BY <1>5 DEF Post, Fault, TypeOK
    <2> QED BY <1>0, <1>5, <2>1, <2>2 DEF Post, TypeOK
  <1>6. CASE HandleDeliverySuccess(w)
    BY <1>0, <1>6 DEF HandleDeliverySuccess, Ended, Fault, TypeOK
  <1>7. CASE HandleDeliveryFailure(w)
    <2>1. due' \in Seq(Delivery)
      <3>1. due' = due \/ due' \in Rest({InHand(w).id})
        BY <1>7 DEF HandleDeliveryFailure
      <3> QED BY <3>1, RestOfDue DEF TypeOK
    <2>2. faults' \in Nat
      BY <1>7 DEF HandleDeliveryFailure, Fault, TypeOK
    <2> QED BY <1>0, <1>7, <2>1, <2>2 DEF HandleDeliveryFailure, Ended, TypeOK
  <1>8. CASE Crash(w)
    BY <1>0, <1>8 DEF Crash, Fault, TypeOK
  <1> QED
    BY <1>1, <1>3, <1>4, <1>5, <1>6, <1>7, <1>8 DEF Work

\* Subscriptions, rows, batches and caches stay well typed, with any number
\* of users and workers.
THEOREM TypeCorrect == Spec => []TypeOK
  <1>1. Init => TypeOK
    BY DEF Init, TypeOK, NoSub, SubRow, Row
  <1>2. IInv /\ IInv' /\ TypeOK /\ [Next]_vars => TypeOK'
    <2> SUFFICES ASSUME IInv, IInv', TypeOK, [Next]_vars PROVE TypeOK'
      OBVIOUS
    <2>1. CASE UNCHANGED vars
      BY <2>1 DEF vars, tableVars, countVars, workerVars, subVars, TypeOK
    <2>2. CASE Next
      BY <2>2, CommandTypes, TableTypesKept, WorkTypes DEF Next
    <2> QED BY <2>1, <2>2
  <1> QED
    BY <1>1, <1>2, Invariance, PTL DEF Spec

-----------------------------------------------------------------------------
(* Disabled subscriptions.                                                 *)

\* A subscription that is enabled now, or was when a worker looked it up for
\* its batch, is among those seen enabled since the batch was read.
SeenEnabled ==
  /\ \A s \in Subscription : sub[s].state = "none" => sub[s] = NoSub
  /\ \A u \in User : upc[u] # "idle" => ucopy[u].state \in {"enabled", "disabled"}
  /\ \A w \in Worker : Enabled \subseteq open[w]
  /\ \A w \in Worker, s \in Subscription :
       /\ cache[w][s] = NoSub \/ cache[w][s].state \in {"enabled", "disabled"}
       /\ cache[w][s].state = "enabled" => s \in open[w]

\* A write of a subscription leaves every worker's view behind it.
LEMMA PutIsSeen ==
  ASSUME TypeOK, SeenEnabled, NEW s \in Subscription, NEW r \in SubRow, r.state # "none", Put(s, r),
         cache' = cache
  PROVE  /\ \A t \in Subscription : sub'[t].state = "none" => sub'[t] = NoSub
         /\ \A w \in Worker : Enabled' \subseteq open'[w]
         /\ \A w \in Worker, t \in Subscription :
              /\ cache'[w][t] = NoSub \/ cache'[w][t].state \in {"enabled", "disabled"}
              /\ cache'[w][t].state = "enabled" => t \in open'[w]
  <1>1. sub' = [sub EXCEPT ![s] = r]
    BY DEF Put
  <1>2. \A w \in Worker : open[w] \subseteq open'[w] /\ (r.state = "enabled" => s \in open'[w])
    BY DEF Put
  <1>3. \A t \in Subscription : sub'[t].state = "none" => sub'[t] = NoSub
    BY <1>1 DEF SeenEnabled, TypeOK
  <1>4. \A w \in Worker : Enabled' \subseteq open'[w]
    BY <1>1, <1>2 DEF SeenEnabled, Enabled, TypeOK
  <1>5. \A w \in Worker, t \in Subscription :
          /\ cache'[w][t] = NoSub \/ cache'[w][t].state \in {"enabled", "disabled"}
          /\ cache'[w][t].state = "enabled" => t \in open'[w]
    BY <1>2 DEF SeenEnabled
  <1> QED BY <1>3, <1>4, <1>5

\* Every step keeps the workers' views behind the subscriptions.
LEMMA SeenEnabledStep ==
  ASSUME IInv, TypeOK, SeenEnabled, Next
  PROVE  SeenEnabled'
  <1> USE DEF tableVars, countVars, workerVars, subVars
  <1>1. ASSUME NEW s \in Subscription, Create(s) PROVE SeenEnabled'
    <2>1. [state |-> "enabled", secret |-> 1] \in SubRow
      BY DEF SubRow
    <2>2. cache' = cache /\ upc' = upc /\ ucopy' = ucopy
      BY <1>1 DEF Create
    <2> QED BY <1>1, <2>1, <2>2, PutIsSeen DEF Create, SeenEnabled
  <1>2. ASSUME NEW s \in Subscription, Delete(s) PROVE SeenEnabled'
    <2>1. [sub[s] EXCEPT !.state = "deleted"] \in SubRow /\ [sub[s] EXCEPT !.state = "deleted"].state = "deleted"
      <3>1. sub[s] \in SubRow
        BY DEF TypeOK
      <3> QED BY <3>1, SubRowUpdates
    <2>2. cache' = cache /\ upc' = upc /\ ucopy' = ucopy
      BY <1>2 DEF Delete
    <2> QED BY <1>2, <2>1, <2>2, PutIsSeen DEF Delete, SeenEnabled
  <1>3. ASSUME NEW u \in User, NEW s \in Subscription, Open(u, s) PROVE SeenEnabled'
    BY <1>3 DEF Open, SeenEnabled, TypeOK, Enabled
  <1>4. ASSUME NEW u \in User, NEW r \in SubRow, r.state # "none", Save(u, r) PROVE SeenEnabled'
    <2>1. upc[u] \in Subscription
      BY <1>4 DEF Save, TypeOK
    <2>2. cache' = cache
      BY <1>4 DEF Save
    <2>3. \A v \in User : upc'[v] # "idle" => ucopy'[v].state \in {"enabled", "disabled"}
      BY <1>4 DEF Save, Return, SeenEnabled, TypeOK
    <2>4. CASE UNCHANGED <<sub, open>>
      BY <2>2, <2>3, <2>4 DEF SeenEnabled, Enabled
    <2>5. CASE Put(upc[u], r)
      BY <1>4, <2>1, <2>2, <2>3, <2>5, PutIsSeen DEF SeenEnabled
    <2> QED BY <1>4, <2>4, <2>5 DEF Save
  <1>5. ASSUME NEW u \in User, NEW b \in BOOLEAN, Toggle(u, b) PROVE SeenEnabled'
    <2> DEFINE r == [ucopy[u] EXCEPT !.state = IF b THEN "enabled" ELSE "disabled"]
    <2>1. r \in SubRow /\ r.state # "none"
      <3>1. ucopy[u] \in SubRow
        BY DEF TypeOK
      <3> QED BY <3>1, SubRowUpdates
    <2> QED BY <1>4, <1>5, <2>1 DEF Toggle
  <1>6. ASSUME NEW u \in User, RegenerateSecret(u) PROVE SeenEnabled'
    <2> DEFINE r == [ucopy[u] EXCEPT !.secret = commands + 2]
    <2>1. r \in SubRow /\ r.state = ucopy[u].state
      <3>1. ucopy[u] \in SubRow /\ commands + 2 \in Nat
        BY DEF TypeOK
      <3> QED BY <3>1, SubRowUpdates
    <2>2. ucopy[u].state # "none" /\ Save(u, r)
      BY <1>6 DEF RegenerateSecret, Save, SeenEnabled
    <2> HIDE DEF r
    <2> QED BY <1>4, <2>1, <2>2
  <1>7. ASSUME UNCHANGED <<sub, upc, ucopy, cache, open>> PROVE SeenEnabled'
    BY <1>7 DEF SeenEnabled, Enabled
  <1>8. ASSUME NEW w \in Worker, Tick(w) PROVE SeenEnabled'
    <2>1. /\ \A v \in Worker : open'[v] = IF v = w THEN Enabled ELSE open[v]
          /\ \A v \in Worker, s \in Subscription : cache'[v][s] = IF v = w THEN NoSub ELSE cache[v][s]
          /\ Enabled' = Enabled
      BY <1>8 DEF Tick, TypeOK, Enabled
    <2> QED BY <1>8, <2>1 DEF Tick, SeenEnabled, NoSub
  <1>9. ASSUME NEW w \in Worker, Lookup(w) PROVE SeenEnabled'
    <2>1. CASE UNCHANGED cache
      BY <1>7, <1>9, <2>1 DEF Lookup
    <2>2. CASE sub[Target(w)].state # "deleted" /\ cache' = [cache EXCEPT ![w][Target(w)] = sub[Target(w)]]
      <3>1. Target(w) \in Subscription
        BY <1>9, BatchInHand DEF Lookup, Target, Delivery
      <3>2. \A v \in Worker, s \in Subscription :
              cache'[v][s] = IF v = w /\ s = Target(w) THEN sub[s] ELSE cache[v][s]
        BY <2>2, <3>1 DEF TypeOK
      <3>3. /\ sub[Target(w)].state \in {"none", "enabled", "disabled"}
            /\ sub[Target(w)].state = "enabled" => Target(w) \in open[w]
        BY <2>2, <3>1 DEF TypeOK, SubRow, SeenEnabled, Enabled
      <3> QED BY <1>9, <3>1, <3>2, <3>3 DEF Lookup, SeenEnabled, Enabled
    <2> QED BY <1>9, <2>1, <2>2 DEF Lookup
  <1>10. ASSUME NEW w \in Worker, \/ Skip(w) \/ Post(w) \/ Crash(w) \/ CleanupOldDeliveries(w)
                                  \/ HandleDeliverySuccess(w) \/ HandleDeliveryFailure(w)
         PROVE  SeenEnabled'
    BY <1>7, <1>10 DEF Skip, Post, Crash, CleanupOldDeliveries, HandleDeliverySuccess, HandleDeliveryFailure, Ended
  <1>11. ASSUME NEW e \in Event, NEW M \in SUBSET Subscription, Fire(e, M) PROVE SeenEnabled'
    BY <1>7, <1>11 DEF Fire
  <1>12. ASSUME NEW d \in Delivery, ComesDue(d) PROVE SeenEnabled'
    BY <1>7, <1>12 DEF ComesDue
  <1>13. CASE WeekPasses
    BY <1>7, <1>13 DEF WeekPasses
  <1> QED
    BY <1>1, <1>2, <1>3, <1>5, <1>6, <1>8, <1>9, <1>10, <1>11, <1>12, <1>13 DEF Next, Command, Work

\* Only Post takes a worker from a row it has looked up to an answer.
LEMMA AnswersAreToEnabled ==
  ASSUME IInv, TypeOK, SeenEnabled, [Next]_vars, NEW w \in Worker, pc[w] = "batch", pc'[w] \in {"ok", "error"}
  PROVE  Target(w) \in open[w]
  <1>1. Post(w)
    <2>0. pc' # pc
      OBVIOUS
    <2>1. PICK v \in Worker : Work(v) \/ Crash(v)
      BY <2>0 DEF Next, Command, Create, Delete, Open, Toggle, RegenerateSecret, Save, Fire, ComesDue,
         WeekPasses, CleanupOldDeliveries, vars, tableVars, countVars, workerVars, subVars
    <2>2. v = w
      BY <2>1 DEF Work, Crash, Tick, Lookup, Skip, Post, HandleDeliverySuccess, HandleDeliveryFailure,
         Ended, NextRow, TypeOK
    <2> QED
      BY <2>1, <2>2 DEF Work, Crash, Tick, Lookup, Skip, HandleDeliverySuccess, HandleDeliveryFailure,
         Ended, NextRow, TypeOK
  <1>2. Target(w) \in Subscription
    BY BatchInHand DEF Target, Delivery
  <1> QED
    BY <1>1, <1>2 DEF Post, Skips, SeenEnabled

\* A subscription disabled or deleted before a batch was read is sent nothing
\* of it, with any number of workers and of commands between (processDelivery
\* trusts a cached subscription).
THEOREM NothingToTheDisabled == Spec => DisabledIsLeftAlone
  <1>1. Init => SeenEnabled
    BY DEF Init, SeenEnabled, NoSub, Enabled
  <1>2. IInv /\ TypeOK /\ SeenEnabled /\ [Next]_vars => SeenEnabled'
    <2> SUFFICES ASSUME IInv, TypeOK, SeenEnabled, [Next]_vars PROVE SeenEnabled'
      OBVIOUS
    <2>1. CASE UNCHANGED vars
      BY <2>1 DEF SeenEnabled, Enabled, vars, subVars, workerVars
    <2> QED BY <2>1, SeenEnabledStep
  <1>3. IInv /\ TypeOK /\ SeenEnabled /\ [Next]_vars =>
          [\A w \in Worker : pc[w] = "batch" /\ pc'[w] \in {"ok", "error"} => Target(w) \in open[w]]_vars
    BY AnswersAreToEnabled
  <1> QED
    BY <1>1, <1>2, <1>3, Invariance, TypeCorrect, PTL DEF Spec, DisabledIsLeftAlone

-----------------------------------------------------------------------------
(* One worker: what its receivers accept.                                  *)

SoleWorker == \A v, w \in Worker : v = w

\* No row is due twice, and what is due was inserted.
DueIsSound ==
  /\ \A i, j \in DOMAIN due : i # j => due[i] # due[j]
  /\ \A i \in DOMAIN due : row[due[i]].status # "none"

\* The rows a worker has still to process are undelivered, each there once.
BatchIsOpen ==
  \A w \in Worker :
    /\ pc[w] = "idle" => batch[w] = <<>>
    /\ \A i \in 1 .. Len(batch[w]) : row[batch[w][i].id].status \in {"pending", "failed"}
    /\ \A i, j \in 1 .. Len(batch[w]) : i # j => batch[w][i].id # batch[w][j].id

\* The receiver of d has accepted it and the worker has yet to write it down.
Answered(d) == \E w \in Worker : pc[w] = "ok" /\ InHand(w).id = d

\* All that a receiver accepts of d is paid for by a fault, but for one: the
\* one after which the row is delivered, or about to be.
Account(d) ==
  /\ accepted[d] <= 1 + faults
  /\ row[d].status \in {"none", "pending", "failed"} /\ ~Answered(d) => accepted[d] <= faults

\* A row is never un-inserted, and a write of a worker hits the row in hand.
LEMMA RowsStay ==
  ASSUME IInv, TypeOK, Next
  PROVE  \A d \in Delivery : row[d].status # "none" => row'[d].status # "none"
  <1> USE DEF tableVars, countVars, workerVars, subVars
  <1>1. ASSUME NEW e \in Event, NEW M \in SUBSET Subscription, Fire(e, M)
        PROVE  \A d \in Delivery : row[d].status # "none" => row'[d].status # "none"
    BY <1>1 DEF Fire, TypeOK
  <1>2. ASSUME NEW w \in Worker, CleanupOldDeliveries(w)
        PROVE  \A d \in Delivery : row[d].status # "none" => row'[d].status # "none"
    BY <1>2 DEF CleanupOldDeliveries, TypeOK
  <1>3. ASSUME NEW w \in Worker, HandleDeliverySuccess(w) \/ HandleDeliveryFailure(w)
        PROVE  \A d \in Delivery : row[d].status # "none" => row'[d].status # "none"
    <2>1. InHand(w).id \in Delivery
      BY <1>3, BatchInHand DEF HandleDeliverySuccess, HandleDeliveryFailure
    <2>2. PICK r : r.status # "none" /\ (row' = row \/ Update(InHand(w).id, r))
      BY <1>3 DEF HandleDeliverySuccess, HandleDeliveryFailure
    <2> QED BY <2>1, <2>2 DEF Update, TypeOK
  <1>4. ASSUME row' = row
        PROVE  \A d \in Delivery : row[d].status # "none" => row'[d].status # "none"
    BY <1>4
  <1>5. ASSUME \/ \E s \in Subscription : Create(s) \/ Delete(s)
               \/ \E u \in User : Command(u)
               \/ \E d \in Delivery : ComesDue(d)
               \/ WeekPasses
               \/ \E w \in Worker : Tick(w) \/ Lookup(w) \/ Skip(w) \/ Post(w) \/ Crash(w)
        PROVE  row' = row
    BY <1>5 DEF Create, Delete, Command, Open, Toggle, RegenerateSecret, Save, ComesDue, WeekPasses,
       Tick, Lookup, Skip, Post, Crash
  <1> QED
    BY <1>1, <1>2, <1>3, <1>4, <1>5 DEF Next, Work

\* Rows are appended to the due ones only when they are not there.
LEMMA DueIsSoundStep ==
  ASSUME IInv, TypeOK, DueIsSound, Next
  PROVE  DueIsSound'
  <1> USE DEF tableVars, countVars, workerVars, subVars
  <1>0. due \in Seq(Delivery)
    BY DEF TypeOK
  <1>1. ASSUME NEW S, due' \in Rest(S) PROVE DueIsSound'
    <2>1. /\ due' \in Seq(Delivery)
          /\ \A i, j \in DOMAIN due' : i # j => due'[i] # due'[j]
          /\ \A i \in DOMAIN due' : \E k \in DOMAIN due : due[k] = due'[i]
      BY <1>1, RestOfDue
    <2>2. \A k \in DOMAIN due : due[k] \in Delivery /\ row[due[k]].status # "none"
      BY <1>0 DEF DueIsSound
    <2> QED BY <2>1, <2>2, RowsStay DEF DueIsSound
  <1>2. ASSUME due' = due PROVE DueIsSound'
    <2>2. \A k \in DOMAIN due : due[k] \in Delivery /\ row[due[k]].status # "none"
      BY <1>0 DEF DueIsSound
    <2> QED BY <1>2, <2>2, RowsStay DEF DueIsSound
  <1>3. ASSUME NEW e \in Event, NEW M \in SUBSET Subscription, Fire(e, M) PROVE DueIsSound'
    <2> DEFINE S == {e} \X (M \cap Enabled)
    <2>1. S \in SUBSET Delivery
      BY DEF Delivery
    <2>2. PICK q \in SetToSeqs(S) : due' = due \o q
      BY <1>3 DEF Fire
    <2>3. /\ q \in Seq(S) /\ q \in Seq(Delivery)
          /\ \A i, j \in DOMAIN q : i # j => q[i] # q[j]
      BY <2>1, <2>2, Arrangement
    <2>4. \A d \in S : row[d].status = "none" /\ row'[d].status = "pending"
      BY <1>3, <2>1 DEF Fire
    <2> HIDE DEF S
    <2>5. /\ DOMAIN due' = 1 .. (Len(due) + Len(q))
          /\ \A i \in DOMAIN due' : due'[i] = IF i <= Len(due) THEN due[i] ELSE q[i - Len(due)]
          /\ \A i \in DOMAIN due' : IF i <= Len(due) THEN i \in DOMAIN due ELSE i - Len(due) \in DOMAIN q
          /\ Len(due) \in Nat /\ Len(q) \in Nat
      BY <1>0, <2>2, <2>3
    <2>6. \A k \in DOMAIN due : due[k] \in Delivery /\ row[due[k]].status # "none" /\ row'[due[k]].status # "none"
      BY <1>0, RowsStay DEF DueIsSound
    <2>7. \A k \in DOMAIN q : q[k] \in S
      BY <2>3
    <2>8. ASSUME NEW i \in DOMAIN due', NEW j \in DOMAIN due', i # j PROVE due'[i] # due'[j]
      <3>1. CASE i <= Len(due) /\ j <= Len(due)
        BY <3>1, <2>5, <2>8 DEF DueIsSound
      <3>2. CASE i <= Len(due) /\ ~(j <= Len(due))
        BY <3>2, <2>4, <2>5, <2>6, <2>7
      <3>3. CASE ~(i <= Len(due)) /\ j <= Len(due)
        BY <3>3, <2>4, <2>5, <2>6, <2>7
      <3>4. CASE ~(i <= Len(due)) /\ ~(j <= Len(due))
        <4>1. i - Len(due) # j - Len(due)
          BY <2>5, <2>8
        <4> QED BY <3>4, <4>1, <2>3, <2>5
      <3> QED BY <3>1, <3>2, <3>3, <3>4
    <2>9. \A i \in DOMAIN due' : row'[due'[i]].status # "none"
      BY <2>4, <2>5, <2>6, <2>7
    <2> QED BY <2>8, <2>9 DEF DueIsSound
  <1>4. ASSUME NEW d \in Delivery, ComesDue(d) PROVE DueIsSound'
    <2>1. due' = Append(due, d) /\ row' = row
      BY <1>4 DEF ComesDue
    <2>2. row[d].status # "none" /\ \A k \in DOMAIN due : due[k] # d
      BY <1>0, <1>4 DEF ComesDue, IsWaiting, Contains
    <2>3. /\ DOMAIN due' = 1 .. (Len(due) + 1) /\ Len(due) \in Nat
          /\ \A i \in DOMAIN due' : due'[i] = IF i = Len(due) + 1 THEN d ELSE due[i]
          /\ \A i \in DOMAIN due' : i # Len(due) + 1 => i \in DOMAIN due
      BY <1>0, <2>1
    <2> QED BY <2>1, <2>2, <2>3 DEF DueIsSound
  <1>5. ASSUME NEW w \in Worker, CleanupOldDeliveries(w) PROVE DueIsSound'
    BY <1>1, <1>5 DEF CleanupOldDeliveries
  <1>6. ASSUME NEW w \in Worker, HandleDeliveryFailure(w) PROVE DueIsSound'
    BY <1>1, <1>2, <1>6 DEF HandleDeliveryFailure
  <1>7. ASSUME \/ \E s \in Subscription : Create(s) \/ Delete(s)
               \/ \E u \in User : Command(u)
               \/ WeekPasses
               \/ \E w \in Worker : Tick(w) \/ Lookup(w) \/ Skip(w) \/ Post(w) \/ Crash(w) \/ HandleDeliverySuccess(w)
        PROVE  due' = due
    BY <1>7 DEF Create, Delete, Command, Open, Toggle, RegenerateSecret, Save, WeekPasses,
       Tick, Lookup, Skip, Post, Crash, HandleDeliverySuccess
  <1> QED
    BY <1>2, <1>3, <1>4, <1>5, <1>6, <1>7 DEF Next, Work

\* The worker's next row is another one: writing down the one in hand leaves
\* the rest of the batch undelivered.
LEMMA NextRowIsOpen ==
  ASSUME IInv, TypeOK, SoleWorker, BatchIsOpen, NEW w \in Worker, pc[w] # "idle", NextRow(w),
         \A d \in Delivery : d # InHand(w).id => row'[d] = row[d]
  PROVE  BatchIsOpen'
  <1>1. batch[w] \in Seq(Snapshot) /\ batch[w] # <<>>
    BY DEF IInv, TableTypes
  <1>2. /\ batch'[w] = Tail(batch[w])
        /\ pc'[w] = IF Len(batch[w]) = 1 THEN "idle" ELSE "batch"
    BY DEF NextRow, TypeOK
  <1>3. /\ Len(batch[w]) \in Nat /\ Len(batch'[w]) = Len(batch[w]) - 1
        /\ batch'[w] \in Seq(Snapshot)
        /\ \A i \in 1 .. Len(batch'[w]) : batch'[w][i] = batch[w][i + 1] /\ i + 1 \in 1 .. Len(batch[w])
    BY <1>1, <1>2, HeadTailProperties
  <1>4. InHand(w).id = batch[w][1].id /\ 1 \in 1 .. Len(batch[w])
    BY <1>1 DEF InHand
  <1>5. \A i \in 1 .. Len(batch[w]) : batch[w][i].id \in Delivery
    <2>1. \A i \in 1 .. Len(batch[w]) : batch[w][i] \in Snapshot
      BY <1>1
    <2> QED BY <2>1 DEF Snapshot
  <1>6. pc'[w] = "idle" => batch'[w] = <<>>
    <2>1. pc'[w] = "idle" => Len(batch'[w]) = 0
      BY <1>2, <1>3
    <2> QED BY <1>3, <2>1
  <1>7. ASSUME NEW i \in 1 .. Len(batch'[w]) PROVE row'[batch'[w][i].id].status \in {"pending", "failed"}
    <2>1. i + 1 \in 1 .. Len(batch[w]) /\ i + 1 # 1 /\ batch'[w][i] = batch[w][i + 1]
      BY <1>3
    <2>2. batch[w][i + 1].id # batch[w][1].id
      BY <1>4, <2>1 DEF BatchIsOpen
    <2> QED BY <1>4, <1>5, <2>1, <2>2 DEF BatchIsOpen
  <1>8. ASSUME NEW i \in 1 .. Len(batch'[w]), NEW j \in 1 .. Len(batch'[w]), i # j
        PROVE  batch'[w][i].id # batch'[w][j].id
    <2>1. i + 1 # j + 1
      BY <1>3, <1>8
    <2>2. /\ i + 1 \in 1 .. Len(batch[w]) /\ batch'[w][i] = batch[w][i + 1]
          /\ j + 1 \in 1 .. Len(batch[w]) /\ batch'[w][j] = batch[w][j + 1]
      BY <1>3
    <2> QED BY <2>1, <2>2 DEF BatchIsOpen
  <1> QED
    BY <1>6, <1>7, <1>8 DEF BatchIsOpen, SoleWorker

\* Nobody but the one worker writes the rows of its batch.
LEMMA BatchIsOpenStep ==
  ASSUME IInv, TypeOK, SoleWorker, DueIsSound, BatchIsOpen, Next
  PROVE  BatchIsOpen'
  <1> USE DEF tableVars, countVars, workerVars, subVars
  <1>0. \A w \in Worker : \A i \in 1 .. Len(batch[w]) : batch[w][i].id \in Delivery
    <2>1. \A w \in Worker : \A i \in 1 .. Len(batch[w]) : batch[w][i] \in Snapshot
      BY DEF TypeOK
    <2> QED BY <2>1 DEF Snapshot
  <1>1. ASSUME UNCHANGED <<row, pc, batch>> PROVE BatchIsOpen'
    BY <1>1 DEF BatchIsOpen
  <1>2. ASSUME NEW e \in Event, NEW M \in SUBSET Subscription, Fire(e, M) PROVE BatchIsOpen'
    <2>1. \A d \in Delivery : row[d].status # "none" => row'[d] = row[d]
      BY <1>2 DEF Fire, TypeOK
    <2> QED BY <1>0, <1>2, <2>1 DEF Fire, BatchIsOpen
  <1>3. ASSUME NEW w \in Worker, CleanupOldDeliveries(w) PROVE BatchIsOpen'
    <2>1. batch' = batch /\ pc' = pc /\ \A v \in Worker : batch[v] = <<>>
      BY <1>3 DEF CleanupOldDeliveries, SoleWorker, BatchIsOpen
    <2> QED BY <2>1 DEF BatchIsOpen
  <1>4. ASSUME NEW w \in Worker, Tick(w) PROVE BatchIsOpen'
    <2>1. PICK n \in 1 .. BatchSize : \E q \in [1 .. n -> Pending] :
            /\ IsBatch(q, n)
            /\ batch' = [batch EXCEPT ![w] = [i \in 1 .. n |-> [id |-> q[i], attempts |-> row[q[i]].attempts]]]
      BY <1>4 DEF Tick
    <2>2. PICK q \in [1 .. n -> Pending] :
            /\ IsBatch(q, n)
            /\ batch' = [batch EXCEPT ![w] = [i \in 1 .. n |-> [id |-> q[i], attempts |-> row[q[i]].attempts]]]
      BY <2>1
    <2>3. n \in Nat
      BY WebhookAssumption
    <2>4. /\ Len(batch'[w]) = n
          /\ \A i \in 1 .. n : batch'[w][i].id = q[i]
      BY <2>2, <2>3 DEF TypeOK
    <2>5. \A i \in 1 .. n : row[q[i]].status \in {"pending", "failed"}
      BY DEF Pending, IsPending
    <2>6. \A i, j \in 1 .. n : i < j => q[i] # q[j]
      BY <2>2 DEF IsBatch, Before, DueIsSound, TypeOK
    <2>7. \A i, j \in 1 .. n : i # j => q[i] # q[j]
      <3> SUFFICES ASSUME NEW i \in 1 .. n, NEW j \in 1 .. n, i # j PROVE q[i] # q[j]
        OBVIOUS
      <3>1. i < j \/ j < i
        BY <2>3
      <3> QED BY <2>6, <3>1
    <2>8. pc'[w] = "batch" /\ row' = row
      BY <1>4 DEF Tick, TypeOK
    <2> QED BY <2>4, <2>5, <2>7, <2>8 DEF BatchIsOpen, SoleWorker
  <1>5. ASSUME NEW w \in Worker, Lookup(w) \/ Skip(w) PROVE BatchIsOpen'
    <2>1. row' = row /\ pc[w] = "batch" /\ (UNCHANGED <<pc, batch>> \/ NextRow(w))
      BY <1>5 DEF Lookup, Skip
    <2> QED BY <1>1, <2>1, NextRowIsOpen
  <1>6. ASSUME NEW w \in Worker, Post(w) PROVE BatchIsOpen'
    <2>1. row' = row /\ batch' = batch /\ pc'[w] \in {"ok", "error"}
      BY <1>6 DEF Post, TypeOK
    <2> QED BY <2>1 DEF BatchIsOpen, SoleWorker
  <1>7. ASSUME NEW w \in Worker, HandleDeliverySuccess(w) \/ HandleDeliveryFailure(w) PROVE BatchIsOpen'
    <2>1. pc[w] # "idle" /\ NextRow(w)
      BY <1>7 DEF HandleDeliverySuccess, HandleDeliveryFailure, Ended
    <2>2. \A d \in Delivery : d # InHand(w).id => row'[d] = row[d]
      BY <1>7 DEF HandleDeliverySuccess, HandleDeliveryFailure, Update, TypeOK
    <2> QED BY <2>1, <2>2, NextRowIsOpen
  <1>8. ASSUME NEW w \in Worker, Crash(w) PROVE BatchIsOpen'
    <2>1. batch'[w] = <<>>
      BY <1>8 DEF Crash, TypeOK
    <2> QED BY <2>1 DEF BatchIsOpen, SoleWorker
  <1>9. ASSUME \/ \E s \in Subscription : Create(s) \/ Delete(s)
               \/ \E u \in User : Command(u)
               \/ \E d \in Delivery : ComesDue(d)
               \/ WeekPasses
        PROVE  UNCHANGED <<row, pc, batch>>
    BY <1>9 DEF Create, Delete, Command, Open, Toggle, RegenerateSecret, Save, ComesDue, WeekPasses
  <1> QED
    BY <1>1, <1>2, <1>3, <1>4, <1>5, <1>6, <1>7, <1>8, <1>9 DEF Next, Work

\* Row in hand of the one worker: it is undelivered.
LEMMA InHandIsOpen ==
  ASSUME IInv, BatchIsOpen, NEW w \in Worker, pc[w] # "idle"
  PROVE  InHand(w).id \in Delivery /\ row[InHand(w).id].status \in {"pending", "failed"}
  <1>1. batch[w] \in Seq(Snapshot) /\ batch[w] # <<>>
    BY DEF IInv, TableTypes
  <1>2. InHand(w) = batch[w][1] /\ 1 \in 1 .. Len(batch[w])
    BY <1>1 DEF InHand
  <1> QED BY <1>2, BatchInHand DEF BatchIsOpen

\* Every acceptance but the last is paid for.
LEMMA AccountStep ==
  ASSUME IInv, TypeOK, SoleWorker, BatchIsOpen, \A d \in Delivery : Account(d), Next
  PROVE  \A d \in Delivery : Account(d)'
  <1> USE DEF tableVars, countVars, workerVars, subVars
  <1>0. /\ \A d \in Delivery : accepted[d] \in Nat
        /\ faults \in Nat
    BY DEF TypeOK
  <1>1. ASSUME UNCHANGED <<accepted, pc, batch, faults>>,
               \A d \in Delivery : row'[d].status \in {"none", "pending", "failed"}
                                     => row[d].status \in {"none", "pending", "failed"}
        PROVE  \A d \in Delivery : Account(d)'
    BY <1>1 DEF Account, Answered, InHand
  <1>2. ASSUME NEW w \in Worker, pc[w] # "ok", accepted' = accepted, faults' \in Nat, faults <= faults',
               \A d \in Delivery : row'[d].status \in {"none", "pending", "failed"}
                                     => row[d].status \in {"none", "pending", "failed"}
        PROVE  \A d \in Delivery : Account(d)'
    <2> SUFFICES ASSUME NEW d \in Delivery PROVE Account(d)'
      OBVIOUS
    <2>1. ~Answered(d)
      BY <1>2 DEF Answered, SoleWorker
    <2> QED BY <1>0, <1>2, <2>1 DEF Account
  <1>3. ASSUME NEW e \in Event, NEW M \in SUBSET Subscription, Fire(e, M) PROVE \A d \in Delivery : Account(d)'
    <2>1. \A d \in Delivery : row[d].status = "none" \/ row'[d] = row[d]
      BY <1>3 DEF Fire, TypeOK
    <2> QED BY <1>1, <1>3, <2>1 DEF Fire
  <1>4. ASSUME NEW w \in Worker, CleanupOldDeliveries(w) PROVE \A d \in Delivery : Account(d)'
    <2>1. \A d \in Delivery : row'[d].status = "gone" \/ row'[d] = row[d]
      BY <1>4 DEF CleanupOldDeliveries, TypeOK
    <2> QED BY <1>1, <1>4, <2>1 DEF CleanupOldDeliveries
  <1>5. ASSUME NEW w \in Worker, Tick(w) \/ Lookup(w) \/ Skip(w) PROVE \A d \in Delivery : Account(d)'
    <2>1. /\ pc[w] # "ok" /\ accepted' = accepted /\ row' = row
          /\ faults' \in Nat /\ faults <= faults'
      BY <1>0, <1>5 DEF Tick, Lookup, Skip, Fault
    <2> QED BY <1>2, <2>1
  <1>6. ASSUME NEW w \in Worker, Post(w) PROVE \A d \in Delivery : Account(d)'
    <2>0. InHand(w).id \in Delivery
      BY <1>6, InHandIsOpen DEF Post
    <2> PICK h \in Delivery : h = InHand(w).id
      BY <2>0
    <2>1. /\ pc[w] = "batch" /\ row' = row /\ batch' = batch
          /\ row[h].status \in {"pending", "failed"}
      BY <1>6, InHandIsOpen DEF Post
    <2>2. \A d \in Delivery : ~Answered(d)
      BY <2>1 DEF Answered, SoleWorker
    <2>3. CASE accepted' = [accepted EXCEPT ![h] = @ + 1] /\ pc' = [pc EXCEPT ![w] = "ok"] /\ faults' = faults
      <3>1. Answered(h)'
        BY <2>1, <2>3 DEF Answered, InHand, TypeOK
      <3>2. accepted[h] <= faults
        BY <2>1, <2>2 DEF Account
      <3>3. accepted'[h] = accepted[h] + 1 /\ \A d \in Delivery : d # h => accepted'[d] = accepted[d]
        BY <2>1, <2>3 DEF TypeOK
      <3>4. Account(h)'
        BY <1>0, <2>1, <2>3, <3>1, <3>2, <3>3 DEF Account
      <3>5. \A d \in Delivery : d # h => Account(d)'
        BY <2>1, <2>2, <2>3, <3>3 DEF Account
      <3> QED BY <3>4, <3>5
    <2>4. CASE accepted' = [accepted EXCEPT ![h] = @ + 1] /\ faults' = faults + 1
      <3>1. \A d \in Delivery : accepted'[d] <= accepted[d] + 1
        BY <1>0, <2>4 DEF TypeOK
      <3>2. \A d \in Delivery : ~Answered(d) => (row[d].status \in {"none", "pending", "failed"} => accepted[d] <= faults)
        BY DEF Account
      <3>3. \A d \in Delivery : accepted'[d] <= 1 + faults'
        <4> SUFFICES ASSUME NEW d \in Delivery PROVE accepted'[d] <= 1 + faults'
          OBVIOUS
        <4>1. d # h => accepted'[d] = accepted[d]
          BY <2>4 DEF TypeOK
        <4>2. accepted[d] <= 1 + faults /\ accepted[h] <= faults
          BY <2>1, <2>2 DEF Account
        <4>3. accepted'[h] = accepted[h] + 1
          BY <2>4 DEF TypeOK
        <4> QED BY <1>0, <2>4, <4>1, <4>2, <4>3
      <3>4. \A d \in Delivery : row[d].status \in {"none", "pending", "failed"} => accepted'[d] <= faults'
        BY <1>0, <2>2, <2>4, <3>1, <3>2
      <3> QED BY <2>1, <3>3, <3>4 DEF Account
    <2>5. CASE accepted' = accepted /\ faults' = faults
      BY <1>0, <1>2, <2>1, <2>5
    <2> QED BY <1>6, <2>3, <2>4, <2>5 DEF Post, Fault
  <1>7. ASSUME NEW w \in Worker, HandleDeliverySuccess(w) PROVE \A d \in Delivery : Account(d)'
    <2>0. InHand(w).id \in Delivery
      BY <1>7, InHandIsOpen DEF HandleDeliverySuccess
    <2> PICK h \in Delivery : h = InHand(w).id
      BY <2>0
    <2>1. /\ row[h].status \in {"pending", "failed"}
          /\ accepted' = accepted
      BY <1>7, InHandIsOpen DEF HandleDeliverySuccess, Ended
    <2>2. faults' \in Nat /\ faults <= faults' /\ \A d \in Delivery : d # h => row'[d] = row[d]
      BY <1>0, <1>7 DEF HandleDeliverySuccess, Update, Fault, TypeOK
    <2>3. row'[h].status = "delivered" \/ faults' = faults + 1
      BY <1>7, <2>1 DEF HandleDeliverySuccess, Update, Fault, TypeOK
    <2>4. Account(h)'
      BY <1>0, <2>1, <2>2, <2>3 DEF Account
    <2>5. ASSUME NEW d \in Delivery, d # h PROVE Account(d)'
      <3>1. ~Answered(d)
        BY <2>5 DEF Answered, SoleWorker
      <3> QED BY <1>0, <2>1, <2>2, <2>5, <3>1 DEF Account
    <2> QED BY <2>4, <2>5
  <1>8. ASSUME NEW w \in Worker, HandleDeliveryFailure(w) PROVE \A d \in Delivery : Account(d)'
    <2>0. InHand(w).id \in Delivery
      BY <1>8, InHandIsOpen DEF HandleDeliveryFailure
    <2> PICK h \in Delivery : h = InHand(w).id
      BY <2>0
    <2>1. /\ row[h].status \in {"pending", "failed"}
          /\ accepted' = accepted /\ pc[w] # "ok"
      BY <1>8, InHandIsOpen DEF HandleDeliveryFailure, Ended
    <2>2. faults' \in Nat /\ faults <= faults' /\ \A d \in Delivery : d # h => row'[d] = row[d]
      BY <1>0, <1>8 DEF HandleDeliveryFailure, Update, Fault, TypeOK
    <2> QED BY <1>2, <2>1, <2>2
  <1>9. ASSUME NEW w \in Worker, Crash(w) PROVE \A d \in Delivery : Account(d)'
    <2>1. row' = row /\ accepted' = accepted /\ faults' = faults + 1
      BY <1>9 DEF Crash, Fault
    <2> QED BY <1>0, <2>1 DEF Account
  <1>10. ASSUME \/ \E s \in Subscription : Create(s) \/ Delete(s)
                \/ \E u \in User : Command(u)
                \/ \E d \in Delivery : ComesDue(d)
                \/ WeekPasses
         PROVE  \A d \in Delivery : Account(d)'
    <2>1. UNCHANGED <<row, accepted, pc, batch, faults>>
      BY <1>10 DEF Create, Delete, Command, Open, Toggle, RegenerateSecret, Save, ComesDue, WeekPasses
    <2> QED BY <1>1, <2>1
  <1> QED
    BY <1>3, <1>4, <1>5, <1>6, <1>7, <1>8, <1>9, <1>10 DEF Next, Work

\* Everything the one-worker theorems rest on.
OneWorkerInv == DueIsSound /\ BatchIsOpen /\ \A d \in Delivery : Account(d)

\* It holds in every behaviour of one worker.
LEMMA OneWorkerInvariance ==
  ASSUME SoleWorker
  PROVE  Spec => []OneWorkerInv
  <1>1. Init => OneWorkerInv
    BY DEF Init, OneWorkerInv, DueIsSound, BatchIsOpen, Account, Answered
  <1>2. IInv /\ TypeOK /\ OneWorkerInv /\ [Next]_vars => OneWorkerInv'
    <2> SUFFICES ASSUME IInv, TypeOK, OneWorkerInv, [Next]_vars PROVE OneWorkerInv'
      OBVIOUS
    <2>1. CASE UNCHANGED vars
      BY <2>1 DEF OneWorkerInv, DueIsSound, BatchIsOpen, Account, Answered, InHand,
         vars, tableVars, countVars, workerVars
    <2>2. CASE Next
      BY <2>2, SoleWorker, DueIsSoundStep, BatchIsOpenStep, AccountStep DEF OneWorkerInv
    <2> QED BY <2>1, <2>2
  <1> QED
    BY <1>1, <1>2, Invariance, TypeCorrect, PTL DEF Spec

\* With one worker a receiver accepts a delivery k + 1 times only after k
\* faults: an answer that was late or lost, or a statement that failed or a
\* worker that died between the answer and MarkDelivered.
THEOREM OneCopyPerFault ==
  ASSUME SoleWorker
  PROVE  Spec => []AcceptedOncePerFault
  <1>1. OneWorkerInv => AcceptedOncePerFault
    BY DEF OneWorkerInv, Account, AcceptedOncePerFault
  <1> QED
    BY <1>1, OneWorkerInvariance, SoleWorker, PTL

\* With one worker a delivered row is never opened again: the worker writes
\* only the row in hand, which is undelivered.
THEOREM DeliveredStaysDelivered ==
  ASSUME SoleWorker
  PROVE  Spec => DeliveredIsFinal
  <1>1. IInv /\ TypeOK /\ OneWorkerInv /\ [Next]_vars =>
          [\A d \in Delivery : row[d].status = "delivered" => row'[d].status \in {"delivered", "gone"}]_vars
    <2> SUFFICES ASSUME IInv, TypeOK, OneWorkerInv, Next, NEW d \in Delivery, row[d].status = "delivered"
                 PROVE  row'[d].status \in {"delivered", "gone"}
      OBVIOUS
    <2> USE DEF tableVars, countVars, workerVars, subVars
    <2>1. ASSUME NEW e \in Event, NEW M \in SUBSET Subscription, Fire(e, M)
          PROVE  row'[d] = row[d]
      BY <2>1 DEF Fire, TypeOK, Delivery
    <2>2. ASSUME NEW w \in Worker, CleanupOldDeliveries(w)
          PROVE  row'[d] = row[d] \/ row'[d].status = "gone"
      BY <2>2 DEF CleanupOldDeliveries, TypeOK
    <2>3. ASSUME NEW w \in Worker, HandleDeliverySuccess(w) \/ HandleDeliveryFailure(w)
          PROVE  row'[d] = row[d]
      <3>1. row[InHand(w).id].status \in {"pending", "failed"}
        BY <2>3, InHandIsOpen DEF OneWorkerInv, HandleDeliverySuccess, HandleDeliveryFailure
      <3>2. d # InHand(w).id
        BY <3>1
      <3> QED BY <2>3, <3>2 DEF HandleDeliverySuccess, HandleDeliveryFailure, Update, TypeOK
    <2>4. ASSUME \/ \E s \in Subscription : Create(s) \/ Delete(s)
                 \/ \E u \in User : Command(u)
                 \/ \E c \in Delivery : ComesDue(c)
                 \/ WeekPasses
                 \/ \E w \in Worker : Tick(w) \/ Lookup(w) \/ Skip(w) \/ Post(w) \/ Crash(w)
          PROVE  row' = row
      BY <2>4 DEF Create, Delete, Command, Open, Toggle, RegenerateSecret, Save, ComesDue, WeekPasses,
         Tick, Lookup, Skip, Post, Crash
    <2> QED
      BY <2>1, <2>2, <2>3, <2>4 DEF Next, Work
  <1> QED
    BY <1>1, OneWorkerInvariance, SoleWorker, Invariance, TypeCorrect, PTL DEF Spec, DeliveredIsFinal

==============================================================================
