------------------------- MODULE MCAutomationJourney -------------------------
(* Instances of AutomationJourney for TLC: a trigger or branch node, an    *)
(* email, a delay and a second email.                                      *)
EXTENDS AutomationJourney, TLC

CONSTANTS t, e, d, f

OneContact == [j \in Journey |-> CHOOSE c \in Contact : TRUE]

Kinds  == [n \in Node |-> CASE n = d -> "delay" [] n \in {e, f} -> "email" [] OTHER -> "other"]
Path   == (t :> {e, d}) @@ (e :> {d, NoNode}) @@ (d :> {f, NoNode}) @@ (f :> {NoNode})
Pruned == {Node, Node \ {d}}

\* A path without delay nodes: t, e, f.
Straight == (t :> {e}) @@ (e :> {f}) @@ (f :> {NoNode})
Emails   == [n \in Node |-> IF n = t THEN "other" ELSE "email"]
Fixed    == {Node}

Rows == Permutations(Journey)
Schedulers == Permutations(Scheduler)
===============================================================================
