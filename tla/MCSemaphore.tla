---------------------------- MODULE MCSemaphore ------------------------------
(***************************************************************************)
(* Model-checking instances of Semaphore.                                  *)
(***************************************************************************)
EXTENDS Semaphore

CONSTANTS t1, t2, t3

\* Two threads of the same high priority, one of a lower one.
TwoLevels == [t \in Thread |-> IF t = t3 THEN 1 ELSE 0]

=============================================================================
