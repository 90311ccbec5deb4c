--------------------------- MODULE MCBroadcastTask ---------------------------
(* Instances of BroadcastTask for TLC.                                     *)
EXTENDS BroadcastTask, TLC

Symmetry == Permutations(Executor) \cup Permutations(Client)
===============================================================================
