---------------------------- MODULE MCScheduler ----------------------------
(* Instances of Scheduler with two CPUs.                                   *)
EXTENDS Scheduler, TLC

CONSTANTS t1, t2, t3, i0, i1

MCidle == (0 :> i0) @@ (1 :> i1)

\* The priorities of the threads; the idle threads have the last one.
MCPriorities == [t \in Thread |-> IF t = t1 THEN 0 ELSE 1]
MCEqualPriorities == [t \in Thread |-> 0]
=============================================================================
