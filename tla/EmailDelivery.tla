---------------------------- MODULE EmailDelivery ----------------------------
(***************************************************************************)
(* The email queue and its workers implement Delivery.                     *)
(***************************************************************************)
EXTENDS EmailQueue

\* A row is a message of Delivery: queued while it is in the table, settled
\* once it is deleted, and being tried by the workers that hold its claim and
\* have not heard from the provider.
StateOf(e) ==
  CASE status[e] = "absent" -> "new"
    [] status[e] = "gone"   -> "settled"
    [] OTHER                -> "queued"

StateMap     == [e \in Entry |-> StateOf(e)]
TryingMap    == [e \in Entry |-> {w \in Worker : Sending(w, e)}]
CancelledMap == {s \in Source : src[s] = "cancelled"}

Abstract == INSTANCE Delivery WITH
  Message   <- Entry,
  Sender    <- Worker,
  MaxTries  <- MaxAttempts,
  state     <- StateMap,
  tries     <- attempts,
  trying    <- TryingMap,
  copies    <- delivered,
  refused   <- hard,
  cancelled <- CancelledMap

\* The table, the workers and the breakers, with their snapshots, retries,
\* crashes and shutdowns, are an implementation of Delivery: every step of
\* EmailQueue is a step of it or leaves it unchanged.
ImplementsDelivery == Abstract!Spec
===============================================================================
