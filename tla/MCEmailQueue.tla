----------------------------- MODULE MCEmailQueue -----------------------------
(* Instances of EmailQueue for TLC: all rows belong to one broadcast.      *)
EXTENDS EmailDelivery, TLC

OneSource == [e \in Entry |-> CHOOSE s \in Source : TRUE]

Rows == Permutations(Entry)
Workers == Permutations(Worker)
===============================================================================
