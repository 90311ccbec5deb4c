------------------------------ MODULE MCSegment ------------------------------
(* Instances of SegmentWorkers for TLC.                                    *)
EXTENDS SegmentWorkers, TLC

Trees == Permutations(Tree)
Workers == Permutations(Worker)
===============================================================================
