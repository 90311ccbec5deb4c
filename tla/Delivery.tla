------------------------------- MODULE Delivery -------------------------------
(***************************************************************************)
(* What the email queue promises of a message, without tables, statuses,   *)
(* snapshots, retries, timers or a circuit breaker.                        *)
(*                                                                         *)
(* A submitted message is tried, by one sender at a time per try; a try    *)
(* hands the provider at most one copy; and the message settles only for a *)
(* reason: a copy was accepted, the provider refused it for good, its      *)
(* tries are spent, or its source was cancelled.  A cancellation withdraws *)
(* at least every message that has not been tried.                         *)
(***************************************************************************)
EXTENDS Integers, FiniteSets

CONSTANTS
  Message,      \* emails that may be submitted
  Source,       \* broadcasts and automations that submit them
  SourceOf,     \* the source of each message
  Sender,       \* whoever may hand a message to the provider
  MaxTries      \* tries after which a message may be dropped

VARIABLES
  state,        \* "new", "queued" or "settled"
  tries,        \* tries begun for each message
  trying,       \* senders in the middle of a try of each message
  copies,       \* copies the provider accepted
  refused,      \* the provider refused the message for good
  cancelled     \* sources that were cancelled

vars == <<state, tries, trying, copies, refused, cancelled>>

Init ==
  /\ state = [m \in Message |-> "new"]
  /\ tries = [m \in Message |-> 0]
  /\ trying = [m \in Message |-> {}]
  /\ copies = [m \in Message |-> 0]
  /\ refused = [m \in Message |-> FALSE]
  /\ cancelled = {}

Submit(S) ==
  /\ \A m \in S : state[m] = "new"
  /\ state' = [m \in Message |-> IF m \in S THEN "queued" ELSE state[m]]
  /\ UNCHANGED <<tries, trying, copies, refused, cancelled>>

\* A sender takes up a queued message.  A try that fails before it reaches
\* the provider is spent all the same.
Try(w, m) ==
  /\ state[m] = "queued"
  /\ \A n \in Message : w \notin trying[n]
  /\ tries' = [tries EXCEPT ![m] = @ + 1]
  /\ \/ trying' = [trying EXCEPT ![m] = @ \cup {w}]
     \/ UNCHANGED trying
  /\ UNCHANGED <<state, copies, refused, cancelled>>

EndTry(w, m) ==
  /\ w \in trying[m]
  /\ trying' = [trying EXCEPT ![m] = @ \ {w}]

\* The provider accepts the message, refuses it for good, or the try comes
\* to nothing.
Accept(w, m) ==
  /\ EndTry(w, m)
  /\ copies' = [copies EXCEPT ![m] = @ + 1]
  /\ UNCHANGED <<state, tries, refused, cancelled>>

Refuse(w, m) ==
  /\ EndTry(w, m)
  /\ refused' = [refused EXCEPT ![m] = TRUE]
  /\ UNCHANGED <<state, tries, copies, cancelled>>

Abandon(w, m) ==
  /\ EndTry(w, m)
  /\ UNCHANGED <<state, tries, copies, refused, cancelled>>

Settle(m) ==
  /\ state[m] = "queued"
  /\ copies[m] > 0 \/ refused[m] \/ tries[m] >= MaxTries
  /\ state' = [state EXCEPT ![m] = "settled"]
  /\ UNCHANGED <<tries, trying, copies, refused, cancelled>>

\* Messages submitted after the cancellation are not covered by it.
Cancel(s, S) ==
  /\ s \notin cancelled
  /\ cancelled' = cancelled \cup {s}
  /\ \A m \in S : state[m] = "queued" /\ SourceOf[m] = s
  /\ \A m \in Message : state[m] = "queued" /\ SourceOf[m] = s /\ tries[m] = 0 => m \in S
  /\ state' = [m \in Message |-> IF m \in S THEN "settled" ELSE state[m]]
  /\ UNCHANGED <<tries, trying, copies, refused>>

Next ==
  \/ \E S \in SUBSET Message : Submit(S)
  \/ \E w \in Sender, m \in Message :
       Try(w, m) \/ Accept(w, m) \/ Refuse(w, m) \/ Abandon(w, m)
  \/ \E m \in Message : Settle(m)
  \/ \E s \in Source, S \in SUBSET Message : Cancel(s, S)

Spec == Init /\ [][Next]_vars
===============================================================================
