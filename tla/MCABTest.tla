------------------------------ MODULE MCABTest -------------------------------
\* Two variations, two goroutines that may execute the task, one SelectWinner
\* call at a time.
EXTENDS ABTest

CONSTANTS e1, e2, u1, ta, tb
===============================================================================
